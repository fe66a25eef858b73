-------------------------- MODULE FleetRun_proofs --------------------------
(***************************************************************************)
(* First the store, for any set of tasks, any number of callers, mutations *)
(* and clock jumps: type correctness, fencing of stale leases, finality of *)
(* reports, one terminal event per task, and generations that identify the *)
(* snapshot.                                                               *)
(*                                                                         *)
(* Then the fleet.  For any plan, any number of concurrent invocations of  *)
(* pd v2 run-local, crashes and failing commits: all they do to the store  *)
(* is what RunStore allows, so that its theorems hold of the fleet; no run *)
(* is called completed with a task missing, no task starts before its      *)
(* barriers, no more leases are out than --max-parallel, and two workers   *)
(* are on one task only after the lease of the first expired.              *)
(***************************************************************************)
EXTENDS FleetRun, TLAPS, FiniteSetTheorems

-----------------------------------------------------------------------------
(* The store                                                               *)

(* A lease in force was handed to a caller and counted as an attempt, and  *)
(* no token is ahead of the snapshot's generation.                         *)
TokensAccounted ==
    /\ \A k \in issued : k.generation <= generation
    /\ \A t \in Tasks : Leased(t) =>
           /\ attempts[t] >= 1
           /\ \E k \in issued : k.task = t /\ k.generation = leases[t].generation

(* The inductive invariant of the lease protocol.                          *)
LeaseInv == TypeOK /\ TokensAccounted /\ FencedByNewest /\ ReportIsFinal

-----------------------------------------------------------------------------
(* A lease just installed is a lease, and newer than any token.            *)
LEMMA NewLeaseFacts ==
    ASSUME TypeOK, NEW d \in Durations
    PROVE  /\ NewLease(d) \in Lease /\ NewLease(d) # NoLease
           /\ NewLease(d).generation = generation + 1
           /\ \A t \in Tasks : /\ NewToken(t, d) \in Token
                               /\ NewToken(t, d).task = t
                               /\ NewToken(t, d).generation = generation + 1
BY DurationsAssumption DEF TypeOK, NewLease, NewToken, Lease, NoLease, Token

(* The store before the first operation.                                   *)
LEMMA InitLeaseInv == Init => LeaseInv
BY BoundsAssumption DEF Init, LeaseInv, TypeOK, TokensAccounted, FencedByNewest, ReportIsFinal,
   Leased, Reported, Lease, NoLease, Report, NoReport, Token, Event, RunStatuses, TaskStatuses

(* Every operation keeps every field in its type.                          *)
LEMMA NextTypeOK ==
    ASSUME TypeOK, [Next]_vars
    PROVE  TypeOK'
<1> USE DEF TypeOK
<1>1. ASSUME NEW s \in RunStatuses, Transition(s) PROVE TypeOK'
  BY <1>1 DEF Transition, Bump
<1>2. ASSUME NEW t \in Tasks, NEW s \in Observed, UpdateTaskStatus(t, s) PROVE TypeOK'
  BY <1>2, ObservedAssumption DEF UpdateTaskStatus, Bump, Lease, NoLease
<1>3. ASSUME NEW t \in Tasks, AppendTerminalEvent(t) PROVE TypeOK'
  BY <1>3 DEF AppendTerminalEvent, Bump, Event
<1>4. ASSUME NEW t \in Tasks, NEW d \in Durations, Claim(t, d) PROVE TypeOK'
  BY <1>4, NewLeaseFacts DEF Claim, Bump
<1>5. ASSUME NEW t \in Tasks, NEW n \in 0..MaxTime, DropStale(t, n, generation) PROVE TypeOK'
  BY <1>5 DEF DropStale, Bump, Lease, NoLease
<1>6. ASSUME NEW id \in Notes, AppendEvent(id) PROVE TypeOK'
  BY <1>6 DEF AppendEvent, Bump, Event
<1>7. ASSUME NEW ids \in SUBSET Tasks, NEW c \in SUBSET ids, NEW d \in Durations,
             ClaimMany(ids, c, d)
      PROVE  TypeOK'
  <2>1. leases' \in [Tasks -> Lease]
    BY <1>7, NewLeaseFacts DEF ClaimMany, Lease, NoLease
  <2>2. attempts' \in [Tasks -> Nat]
    BY <1>7 DEF ClaimMany
  <2>3. issued' \in SUBSET Token
    BY <1>7, NewLeaseFacts DEF ClaimMany
  <2> QED
    BY <1>7, <2>1, <2>2, <2>3 DEF ClaimMany, Bump
<1>8. ASSUME NEW k \in issued, NEW d \in Durations, Renew(k, d) PROVE TypeOK'
  <2>1. k.task \in Tasks
    BY DEF Token
  <2> QED
    BY <1>8, <2>1, NewLeaseFacts DEF Renew, Bump
<1>9. ASSUME NEW k \in issued, NEW s \in ReportStatuses, Commit(k, s) PROVE TypeOK'
  <2>1. k.task \in Tasks /\ k.generation \in Nat
    BY DEF Token
  <2>2. s \in TaskStatuses
    BY DEF ReportStatuses, TaskStatuses, RunStatuses
  <2>3. [status |-> s, attempt |-> attempts[k.task], generation |-> k.generation] \in Report
    BY <2>1 DEF Report
  <2>4. NoLease \in Lease
    BY DEF Lease, NoLease
  <2> QED
    BY <1>9, <2>1, <2>2, <2>3, <2>4 DEF Commit, Bump
<1>10. ASSUME NEW k \in issued, Release(k) PROVE TypeOK'
  <2>1. k.task \in Tasks /\ NoLease \in Lease
    BY DEF Token, Lease, NoLease
  <2> QED
    BY <1>10, <2>1 DEF Release, Bump
<1>11. CASE SetClock
  BY <1>11 DEF SetClock, store
<1>12. CASE UNCHANGED vars
  BY <1>12 DEF vars
<1> QED
  BY <1>1, <1>2, <1>3, <1>4, <1>5, <1>6, <1>7, <1>8, <1>9, <1>10, <1>11, <1>12 DEF Next

(* A step that touches no lease, attempt, report or status of a task keeps *)
(* the lease protocol's invariant.                                         *)
LEMMA Unrelated ==
    ASSUME LeaseInv, TypeOK', generation' >= generation,
           UNCHANGED <<taskStatus, leases, attempts, reports, issued>>
    PROVE  LeaseInv'
BY DEF LeaseInv, TypeOK, TokensAccounted, FencedByNewest, ReportIsFinal, Leased, Reported, Token

(* A step that only drops leases, and perhaps changes the status of tasks  *)
(* without a report, keeps it too.                                         *)
LEMMA OnlyDrops ==
    ASSUME LeaseInv, TypeOK', generation' >= generation,
           \A t \in Tasks : leases'[t] \in {leases[t], NoLease},
           \A t \in Tasks : Reported(t) => taskStatus'[t] = taskStatus[t],
           UNCHANGED <<attempts, reports, issued>>
    PROVE  LeaseInv'
<1>1. \A t \in Tasks : Leased(t)' => Leased(t) /\ leases'[t] = leases[t]
  BY DEF Leased
<1>2. \A k \in issued : k.task \in Tasks /\ k.generation \in Nat
  BY DEF LeaseInv, TypeOK, Token
<1>3. TokensAccounted'
  <2>1. \A k \in issued' : k.generation <= generation'
    BY <1>2 DEF LeaseInv, TypeOK, TokensAccounted
  <2> QED
    BY <1>1, <2>1 DEF LeaseInv, TokensAccounted
<1>4. FencedByNewest'
  BY <1>1, <1>2 DEF LeaseInv, FencedByNewest, Reported
<1>5. ReportIsFinal'
  BY <1>1 DEF LeaseInv, ReportIsFinal, Reported
<1> QED
  BY <1>3, <1>4, <1>5 DEF LeaseInv

(* A step that leases the tasks of granted, none of them reported, with    *)
(* the next generation, and drops or keeps the other leases.               *)
LEMMA Grants ==
    ASSUME LeaseInv, TypeOK', generation' = generation + 1,
           NEW d \in Durations, NEW granted \in SUBSET Tasks,
           \A t \in granted : ~Reported(t) /\ leases'[t] = NewLease(d) /\ attempts'[t] >= 1,
           \A t \in Tasks \ granted :
               leases'[t] \in {leases[t], NoLease} /\ attempts'[t] = attempts[t],
           issued' = issued \cup { NewToken(t, d) : t \in granted },
           UNCHANGED <<taskStatus, reports>>
    PROVE  LeaseInv'
<1> USE NewLeaseFacts
<1>0. TypeOK
  BY DEF LeaseInv
<1>1. \A k \in issued' : k.task \in Tasks /\ k.generation \in Nat /\ k.generation <= generation'
  <2>1. \A k \in issued : k.task \in Tasks /\ k.generation \in Nat /\ k.generation <= generation
    BY DEF LeaseInv, TypeOK, TokensAccounted, Token
  <2>2. generation \in Nat
    BY <1>0 DEF TypeOK
  <2>3. \A t \in granted : NewToken(t, d).task \in Tasks /\ NewToken(t, d).generation = generation + 1
    BY <1>0
  <2> QED
    BY <2>1, <2>2, <2>3
<1>2. \A k \in issued' : k \in issued \/ (k.task \in granted /\ k.generation = generation + 1)
  BY <1>0
<1>3. \A t \in granted : leases'[t].generation = generation + 1
  BY <1>0
<1>4. TokensAccounted'
  <2>1. ASSUME NEW t \in granted
        PROVE  \E k \in issued' : k.task = t /\ k.generation = leases'[t].generation
    BY <1>0, <1>3
  <2>2. ASSUME NEW t \in Tasks \ granted, Leased(t)'
        PROVE  /\ attempts'[t] >= 1
               /\ \E k \in issued' : k.task = t /\ k.generation = leases'[t].generation
    BY <2>2 DEF LeaseInv, TokensAccounted, Leased
  <2> QED
    BY <1>1, <2>1, <2>2 DEF TokensAccounted
<1>5. FencedByNewest'
  <2> SUFFICES ASSUME NEW k \in issued'
               PROVE  /\ Leased(k.task)' => k.generation <= leases'[k.task].generation
                      /\ Reported(k.task)' => k.generation <= reports'[k.task].generation
    BY DEF FencedByNewest
  <2>1. CASE k.task \in granted
    BY <1>0, <1>1, <1>3, <2>1 DEF Reported
  <2>2. CASE k.task \notin granted
    BY <1>1, <1>2, <2>2 DEF LeaseInv, FencedByNewest, Leased, Reported
  <2> QED
    BY <2>1, <2>2
<1>6. ReportIsFinal'
  <2> SUFFICES ASSUME NEW t \in Tasks, Reported(t)'
               PROVE  /\ ~Leased(t)'
                      /\ taskStatus'[t] = reports'[t].status
                      /\ reports'[t].attempt = attempts'[t] /\ attempts'[t] >= 1
                      /\ \E k \in issued' : k.task = t /\ k.generation = reports'[t].generation
    BY DEF ReportIsFinal
  <2>1. Reported(t) /\ t \in Tasks \ granted
    BY DEF Reported
  <2> QED
    BY <2>1 DEF LeaseInv, ReportIsFinal, Leased
<1> QED
  BY <1>4, <1>5, <1>6 DEF LeaseInv

(* A report committed under the lease in force.                            *)
LEMMA CommitKeeps ==
    ASSUME LeaseInv, TypeOK', NEW k \in issued, NEW s \in ReportStatuses, Commit(k, s)
    PROVE  LeaseInv'
<1>0. TypeOK /\ k.task \in Tasks /\ k.generation \in Nat
  BY DEF LeaseInv, TypeOK, Token
<1>1. leases[k.task].generation = k.generation /\ Leased(k.task)
  BY <1>0 DEF Commit, CheckToken, TypeOK, Leased, NoLease
<1>2. /\ generation' = generation + 1 /\ issued' = issued /\ attempts' = attempts
      /\ leases'[k.task] = NoLease
      /\ reports'[k.task].generation = k.generation /\ reports'[k.task].status = s
      /\ reports'[k.task].attempt = attempts[k.task]
      /\ taskStatus'[k.task] = s
  BY <1>0 DEF Commit, Bump, TypeOK
<1>3. \A t \in Tasks \ {k.task} :
          leases'[t] = leases[t] /\ reports'[t] = reports[t] /\ taskStatus'[t] = taskStatus[t]
  BY <1>0 DEF Commit, TypeOK
<1>4. TokensAccounted'
  <2>1. \A j \in issued' : j.generation <= generation'
    BY <1>0, <1>2 DEF LeaseInv, TypeOK, TokensAccounted, Token
  <2>2. \A t \in Tasks : Leased(t)' => t # k.task /\ Leased(t)
    BY <1>2, <1>3 DEF Leased
  <2> QED
    BY <1>2, <1>3, <2>1, <2>2 DEF LeaseInv, TokensAccounted
<1>5. \A j \in issued : j.task \in Tasks /\ (j.task = k.task => j.generation <= k.generation)
  BY <1>0, <1>1 DEF LeaseInv, TypeOK, FencedByNewest, Token
<1>6. FencedByNewest'
  BY <1>2, <1>3, <1>5 DEF LeaseInv, FencedByNewest, Leased, Reported
<1>7. ReportIsFinal'
  BY <1>0, <1>1, <1>2, <1>3 DEF LeaseInv, ReportIsFinal, TokensAccounted, Leased, Reported
<1> QED
  BY <1>4, <1>6, <1>7 DEF LeaseInv

(* Every operation keeps the invariant of the lease protocol.              *)
LEMMA NextLeaseInv ==
    ASSUME LeaseInv, [Next]_vars
    PROVE  LeaseInv'
<1>0. TypeOK /\ TypeOK'
  BY NextTypeOK DEF LeaseInv
<1>1. ASSUME NEW s \in RunStatuses, Transition(s) PROVE LeaseInv'
  BY <1>0, <1>1, Unrelated DEF Transition, Bump, TypeOK
<1>2. ASSUME NEW t \in Tasks, NEW s \in Observed, UpdateTaskStatus(t, s) PROVE LeaseInv'
  BY <1>0, <1>2, OnlyDrops DEF UpdateTaskStatus, Bump, TypeOK
<1>3. ASSUME NEW t \in Tasks, AppendTerminalEvent(t) PROVE LeaseInv'
  BY <1>0, <1>3, Unrelated DEF AppendTerminalEvent, Bump, TypeOK
<1>4. ASSUME NEW t \in Tasks, NEW d \in Durations, Claim(t, d) PROVE LeaseInv'
  <2>1. ~Reported(t)
    BY <1>0, <1>4 DEF Claim, Terminal, LeaseInv, ReportIsFinal, TypeOK, Report, Reported,
       TerminalTaskStatuses, ReportStatuses
  <2>2. issued' = issued \cup { NewToken(u, d) : u \in {t} }
    BY <1>4 DEF Claim
  <2>3. leases'[t] = NewLease(d) /\ attempts'[t] >= 1
    BY <1>0, <1>4 DEF Claim, TypeOK
  <2>4. \A u \in Tasks \ {t} : leases'[u] = leases[u] /\ attempts'[u] = attempts[u]
    BY <1>0, <1>4 DEF Claim, TypeOK
  <2>5. generation' = generation + 1 /\ UNCHANGED <<taskStatus, reports>>
    BY <1>4 DEF Claim, Bump
  <2> QED
    <3>1. {t} \in SUBSET Tasks
      OBVIOUS
    <3>2. \A u \in {t} : ~Reported(u) /\ leases'[u] = NewLease(d) /\ attempts'[u] >= 1
      BY <2>1, <2>3
    <3>3. \A u \in Tasks \ {t} : leases'[u] \in {leases[u], NoLease} /\ attempts'[u] = attempts[u]
      BY <2>4
    <3> QED
      BY <1>0, <2>2, <2>5, <3>1, <3>2, <3>3, Grants
<1>5. ASSUME NEW t \in Tasks, NEW n \in 0..MaxTime, DropStale(t, n, generation) PROVE LeaseInv'
  BY <1>0, <1>5, OnlyDrops DEF DropStale, Bump, TypeOK
<1>6. ASSUME NEW id \in Notes, AppendEvent(id) PROVE LeaseInv'
  BY <1>0, <1>6, Unrelated DEF AppendEvent, Bump, TypeOK
<1>7. ASSUME NEW ids \in SUBSET Tasks, NEW c \in SUBSET ids, NEW d \in Durations,
             ClaimMany(ids, c, d)
      PROVE  LeaseInv'
  <2>1. \A t \in c : ~Reported(t)
    BY <1>0, <1>7 DEF ClaimMany, Terminal, LeaseInv, ReportIsFinal, TypeOK, Report, Reported,
       TerminalTaskStatuses, ReportStatuses
  <2>2. \A t \in c : leases'[t] = NewLease(d) /\ attempts'[t] >= 1
    BY <1>0, <1>7 DEF ClaimMany, TypeOK
  <2>3. \A t \in Tasks \ c : leases'[t] \in {leases[t], NoLease} /\ attempts'[t] = attempts[t]
    BY <1>0, <1>7 DEF ClaimMany, TypeOK
  <2> QED
    BY <1>0, <1>7, <2>1, <2>2, <2>3, Grants DEF ClaimMany, Bump
<1>8. ASSUME NEW k \in issued, NEW d \in Durations, Renew(k, d) PROVE LeaseInv'
  <2>1. k.task \in Tasks /\ Leased(k.task)
    BY <1>0, <1>8 DEF Renew, CheckToken, TypeOK, Token, Leased, NoLease
  <2>2. ~Reported(k.task) /\ attempts[k.task] >= 1
    BY <2>1 DEF LeaseInv, ReportIsFinal, TokensAccounted
  <2>3. issued' = issued \cup { NewToken(u, d) : u \in {k.task} }
    BY <1>8 DEF Renew
  <2>4. leases'[k.task] = NewLease(d) /\ attempts' = attempts
    BY <1>0, <1>8, <2>1 DEF Renew, TypeOK
  <2>5. \A u \in Tasks \ {k.task} : leases'[u] = leases[u]
    BY <1>0, <1>8 DEF Renew, TypeOK
  <2>6. generation' = generation + 1 /\ UNCHANGED <<taskStatus, reports>>
    BY <1>8 DEF Renew, Bump
  <2> QED
    <3>1. {k.task} \in SUBSET Tasks
      BY <2>1
    <3>2. \A u \in {k.task} : ~Reported(u) /\ leases'[u] = NewLease(d) /\ attempts'[u] >= 1
      BY <2>2, <2>4
    <3>3. \A u \in Tasks \ {k.task} : leases'[u] \in {leases[u], NoLease} /\ attempts'[u] = attempts[u]
      BY <2>4, <2>5
    <3> QED
      BY <1>0, <2>3, <2>6, <3>1, <3>2, <3>3, Grants
<1>9. ASSUME NEW k \in issued, NEW s \in ReportStatuses, Commit(k, s) PROVE LeaseInv'
  BY <1>0, <1>9, CommitKeeps
<1>10. ASSUME NEW k \in issued, Release(k) PROVE LeaseInv'
  BY <1>0, <1>10, OnlyDrops DEF Release, Bump, TypeOK
<1>11. CASE SetClock
  BY <1>0, <1>11, Unrelated DEF SetClock, store, TypeOK
<1>12. CASE UNCHANGED vars
  BY <1>0, <1>12, Unrelated DEF vars, TypeOK
<1> QED
  BY <1>1, <1>2, <1>3, <1>4, <1>5, <1>6, <1>7, <1>8, <1>9, <1>10, <1>11, <1>12 DEF Next

-----------------------------------------------------------------------------
(* The lease protocol's invariant holds in every reachable snapshot.       *)
THEOREM LeaseInvariant == Spec => []LeaseInv
BY InitLeaseInv, NextLeaseInv, PTL DEF Spec

(* Type correctness of the snapshot under every operation.                 *)
THEOREM TypeCorrect == Spec => []TypeOK
<1>1. LeaseInv => TypeOK
  BY DEF LeaseInv
<1> QED
  BY <1>1, LeaseInvariant, PTL

(* A stale token neither is in force nor has ever committed: of all tokens *)
(* of a task only the newest can be.                                       *)
THEOREM Fencing == Spec => []FencedByNewest
<1>1. LeaseInv => FencedByNewest
  BY DEF LeaseInv
<1> QED
  BY <1>1, LeaseInvariant, PTL

(* A committed task has no lease, keeps the status and attempt of its      *)
(* report, and its report came from a token the store handed out.          *)
THEOREM Finality == Spec => []ReportIsFinal
<1>1. LeaseInv => ReportIsFinal
  BY DEF LeaseInv
<1> QED
  BY <1>1, LeaseInvariant, PTL

-----------------------------------------------------------------------------
(* What one operation does to the generation and to committed tasks.       *)
StepKeepsReports ==
    /\ generation' = generation => UNCHANGED store
    /\ generation' >= generation
    /\ \A t \in Tasks : Reported(t) => reports'[t] = reports[t] /\ attempts'[t] = attempts[t]

(* Every operation increments the generation and leaves committed tasks.   *)
LEMMA NextKeepsReports ==
    ASSUME LeaseInv, [Next]_vars
    PROVE  StepKeepsReports
<1>0. TypeOK
  BY DEF LeaseInv
<1>1. ASSUME generation' = generation + 1, UNCHANGED <<reports, attempts>>
      PROVE  StepKeepsReports
  BY <1>0, <1>1 DEF StepKeepsReports, TypeOK
<1>2. ASSUME UNCHANGED store
      PROVE  StepKeepsReports
  BY <1>0, <1>2 DEF StepKeepsReports, TypeOK, store
<1>3. \A t \in Tasks : Reported(t) => Terminal(t)
  BY <1>0 DEF TypeOK, Report, Reported, Terminal, TerminalTaskStatuses, ReportStatuses
<1>4. ASSUME NEW t \in Tasks, NEW d \in Durations, Claim(t, d) PROVE StepKeepsReports
  BY <1>0, <1>3, <1>4 DEF Claim, Bump, StepKeepsReports, TypeOK
<1>5. ASSUME NEW ids \in SUBSET Tasks, NEW c \in SUBSET ids, NEW d \in Durations,
             ClaimMany(ids, c, d)
      PROVE  StepKeepsReports
  BY <1>0, <1>3, <1>5 DEF ClaimMany, Bump, StepKeepsReports, TypeOK
<1>6. ASSUME NEW k \in issued, NEW s \in ReportStatuses, Commit(k, s) PROVE StepKeepsReports
  BY <1>0, <1>6 DEF Commit, Bump, StepKeepsReports, TypeOK
<1>7. ASSUME NEW s \in RunStatuses, Transition(s) PROVE StepKeepsReports
  BY <1>1, <1>7 DEF Transition, Bump
<1>8. ASSUME NEW t \in Tasks, NEW s \in Observed, UpdateTaskStatus(t, s) PROVE StepKeepsReports
  BY <1>1, <1>8 DEF UpdateTaskStatus, Bump
<1>9. ASSUME NEW t \in Tasks, AppendTerminalEvent(t) PROVE StepKeepsReports
  BY <1>1, <1>9 DEF AppendTerminalEvent, Bump
<1>10. ASSUME NEW t \in Tasks, NEW n \in 0..MaxTime, DropStale(t, n, generation)
       PROVE  StepKeepsReports
  BY <1>1, <1>10 DEF DropStale, Bump
<1>11. ASSUME NEW id \in Notes, AppendEvent(id) PROVE StepKeepsReports
  BY <1>1, <1>11 DEF AppendEvent, Bump
<1>12. ASSUME NEW k \in issued, NEW d \in Durations, Renew(k, d) PROVE StepKeepsReports
  BY <1>1, <1>12 DEF Renew, Bump
<1>13. ASSUME NEW k \in issued, Release(k) PROVE StepKeepsReports
  BY <1>1, <1>13 DEF Release, Bump
<1>14. CASE SetClock
  BY <1>2, <1>14 DEF SetClock
<1>15. CASE UNCHANGED vars
  BY <1>2, <1>15 DEF vars, store
<1> QED
  BY <1>4, <1>5, <1>6, <1>7, <1>8, <1>9, <1>10, <1>11, <1>12, <1>13, <1>14, <1>15 DEF Next

(* A generation identifies one snapshot, and a report is never changed or  *)
(* its task tried again: what compare-and-set callers rely on.             *)
THEOREM GenerationsIdentify == Spec => GenerationIdentifies
<1>1. LeaseInv /\ [Next]_vars => [StepKeepsReports]_vars
  BY NextKeepsReports
<1> QED
  BY <1>1, LeaseInvariant, PTL DEF Spec, GenerationIdentifies, StepKeepsReports

-----------------------------------------------------------------------------
(* What the audit trail says of committed tasks, in inductive form: the    *)
(* terminal event of a task names a report that is there.                  *)
AuditInv ==
    \A i, j \in DOMAIN events : events[i].id \in Tasks =>
        /\ events[i].status = reports[events[i].id].status
        /\ Reported(events[i].id)
        /\ events[i].id = events[j].id => i = j

(* A step that leaves events alone and only adds reports keeps AuditInv.   *)
LEMMA SameEvents ==
    ASSUME AuditInv, events' = events,
           \A t \in Tasks : Reported(t) => reports'[t] = reports[t]
    PROVE  AuditInv'
BY DEF AuditInv, Reported

(* Every operation keeps AuditInv.                                         *)
LEMMA NextAuditInv ==
    ASSUME LeaseInv, AuditInv, [Next]_vars
    PROVE  AuditInv'
<1>0. TypeOK /\ \A t \in Tasks : Reported(t) => reports'[t] = reports[t]
  BY NextKeepsReports DEF LeaseInv, StepKeepsReports
<1>1. ASSUME NEW t \in Tasks, AppendTerminalEvent(t) PROVE AuditInv'
  <2>1. /\ events \in Seq(Event) /\ reports' = reports
        /\ events' = Append(events, [id |-> t, status |-> reports[t].status])
        /\ \A i \in DOMAIN events : events[i].id # t
        /\ reports[t].status # "none"
    BY <1>0, <1>1 DEF AppendTerminalEvent, TypeOK, TerminalEvents, ReportStatuses
  <2>2. /\ DOMAIN events' = DOMAIN events \cup {Len(events) + 1}
        /\ \A i \in DOMAIN events : events'[i] = events[i]
        /\ events'[Len(events) + 1] = [id |-> t, status |-> reports[t].status]
    BY <2>1
  <2> QED
    BY <2>1, <2>2 DEF AuditInv, Reported
<1>2. ASSUME NEW n \in Notes, AppendEvent(n) PROVE AuditInv'
  <2>1. /\ events \in Seq(Event) /\ reports' = reports /\ n \notin Tasks
        /\ events' = Append(events, [id |-> n, status |-> "none"])
    BY <1>0, <1>2, NotesAssumption DEF AppendEvent, TypeOK
  <2>2. /\ DOMAIN events' = DOMAIN events \cup {Len(events) + 1}
        /\ \A i \in DOMAIN events : events'[i] = events[i]
        /\ events'[Len(events) + 1] = [id |-> n, status |-> "none"]
    BY <2>1
  <2> QED
    BY <2>1, <2>2 DEF AuditInv, Reported
<1>3. CASE events' = events
  BY <1>0, <1>3, SameEvents
<1> QED
  BY <1>1, <1>2, <1>3 DEF Next, Transition, UpdateTaskStatus, Claim, ClaimMany, Renew, Commit,
     Release, DropStale, SetClock, store, vars

(* One terminal event per task at most, of a committed task, with the      *)
(* status of its report.                                                   *)
THEOREM TerminalEventsUnique == Spec => []TerminalEventOnce
<1>1. Init => AuditInv
  BY DEF Init, AuditInv
<1>2. AuditInv => TerminalEventOnce
  BY DEF AuditInv, TerminalEventOnce, TerminalEvents
<1> QED
  BY <1>1, <1>2, NextAuditInv, LeaseInvariant, PTL DEF Spec

-----------------------------------------------------------------------------
(* What AuditAppendOnly says of one step.                                  *)
StepKeepsEvents ==
    /\ Len(events') >= Len(events)
    /\ SubSeq(events', 1, Len(events)) = events

(* The whole of a sequence, as a subsequence.                              *)
LEMMA SubSeqFull ==
    ASSUME NEW S, NEW s \in Seq(S)
    PROVE  SubSeq(s, 1, Len(s)) = s
OBVIOUS

(* What was there before an Append.                                        *)
LEMMA AppendedPrefix ==
    ASSUME NEW S, NEW s \in Seq(S), NEW e \in S
    PROVE  SubSeq(Append(s, e), 1, Len(s)) = s
OBVIOUS

(* Every operation leaves the events there are where they are.             *)
LEMMA NextKeepsEvents ==
    ASSUME TypeOK, [Next]_vars
    PROVE  StepKeepsEvents
<1>0. events \in Seq(Event)
  BY DEF TypeOK
<1>1. ASSUME events' = events PROVE StepKeepsEvents
  <2>1. Len(events) \in Nat /\ SubSeq(events, 1, Len(events)) = events
    BY <1>0, SubSeqFull
  <2> QED
    BY <1>1, <2>1 DEF StepKeepsEvents
<1>2. ASSUME NEW e \in Event, events' = Append(events, e) PROVE StepKeepsEvents
  <2>1. Len(events) \in Nat /\ Len(Append(events, e)) = Len(events) + 1
    BY <1>0
  <2>2. SubSeq(Append(events, e), 1, Len(events)) = events
    BY <1>0, AppendedPrefix
  <2> QED
    BY <1>2, <2>1, <2>2 DEF StepKeepsEvents
<1>3. ASSUME NEW t \in Tasks, AppendTerminalEvent(t) PROVE StepKeepsEvents
  BY <1>2, <1>3 DEF AppendTerminalEvent, TypeOK, Event, Report
<1>4. ASSUME NEW n \in Notes, AppendEvent(n) PROVE StepKeepsEvents
  BY <1>2, <1>4 DEF AppendEvent, Event
<1> QED
  BY <1>1, <1>3, <1>4 DEF Next, Transition, UpdateTaskStatus, Claim, ClaimMany, Renew, Commit,
     Release, DropStale, SetClock, store, vars

(* The audit trail only ever grows at its end, whatever is called.         *)
THEOREM AuditGrows == Spec => AuditAppendOnly
<1>1. TypeOK /\ [Next]_vars => [StepKeepsEvents]_vars
  BY NextKeepsEvents
<1> QED
  BY <1>1, TypeCorrect, PTL DEF Spec, AuditAppendOnly, StepKeepsEvents

-----------------------------------------------------------------------------
(* The fleet                                                               *)

(* What an invocation may remember.                                        *)
Local == [seen : Nat, sampled : 0..MaxTime, todo : SUBSET Tasks, broken : BOOLEAN,
          terminal : SUBSET Tasks, view : [Tasks -> ReportStatuses \cup {"pending"}],
          candidates : SUBSET Tasks,
          token : [task : Tasks \cup {NoToken.task}, generation : Nat, expires : Nat],
          attempt : Nat, outcome : ReportStatuses \cup {"none"},
          final : {"none", "completed", "failed", "blocked"}]

(* The sections between the claim and the release of a lease.              *)
Holding == {"enrich", "use", "working", "result", "commit", "event", "failure", "retry",
            "commitFailed", "failedEvent", "release"}

(* What a section relies on: the token it holds was handed out by the      *)
(* store, and its other locals were set by the sections before it.         *)
Fits(section, r, tokens) ==
    /\ section \in Holding => r.token \in tokens
    /\ section = "drop" => r.token.task \in Tasks
    /\ section = "commit" => r.outcome \in ReportStatuses
    /\ section = "result" => r.outcome \in ReportStatuses
    /\ section \in {"finalLoad", "toFinal"} => r.final # "none"

ControlInv ==
    /\ pc \in [Procs -> Sections \cup {"idle"}]
    /\ local \in [Procs -> Local]
    /\ now \in 0..MaxTime
    /\ \A p \in Procs : Fits(pc[p], local[p], issued)

-----------------------------------------------------------------------------
(* What a fresh invocation remembers.                                      *)
LEMMA FreshInLocal == Fresh \in Local
BY BoundsAssumption DEF Fresh, Local, NoToken

(* A step of p to a section whose needs are met.                           *)
LEMMA ThenKeeps ==
    ASSUME ControlInv, NEW p \in Procs, NEW section \in Sections \cup {"idle"}, NEW r \in Local,
           Then(p, section, r), Fits(section, r, issued'),
           issued \subseteq issued', now' = now
    PROVE  ControlInv'
<1>1. pc' \in [Procs -> Sections \cup {"idle"}] /\ local' \in [Procs -> Local]
  BY DEF ControlInv, Then, Goto, Remember
<1>2. ASSUME NEW q \in Procs PROVE Fits(pc'[q], local'[q], issued')
  <2>1. CASE q = p
    BY <2>1 DEF ControlInv, Then, Goto, Remember
  <2>2. CASE q # p
    BY <2>2 DEF ControlInv, Then, Goto, Remember, Fits
  <2> QED
    BY <2>1, <2>2
<1> QED
  BY <1>1, <1>2 DEF ControlInv

(* The same when p remembers what it did.                                  *)
LEMMA GotoKeeps ==
    ASSUME ControlInv, NEW p \in Procs, NEW section \in Sections \cup {"idle"},
           Goto(p, section), UNCHANGED local, Fits(section, local[p], issued'),
           issued \subseteq issued', now' = now
    PROVE  ControlInv'
<1>1. local[p] \in Local /\ Then(p, section, local[p])
  BY DEF ControlInv, Then, Remember
<1> QED
  BY <1>1, ThenKeeps

(* A command that ends.                                                    *)
LEMMA ExitKeeps ==
    ASSUME ControlInv, NEW p \in Procs, Exit(p), issued \subseteq issued', now' = now
    PROVE  ControlInv'
BY ThenKeeps, FreshInLocal DEF Exit, Fits, Holding

-----------------------------------------------------------------------------
(* All that the fleet does to the store: a section reads, or makes one of  *)
(* these calls, and the tasks it claims are ready in that very section.    *)
StoreStep ==
    \/ UNCHANGED vars
    \/ SetClock
    \/ \E s \in RunStatuses : Transition(s)
    \/ \E t \in Tasks : AppendTerminalEvent(t)
    \/ \E id \in Notes : AppendEvent(id)
    \/ \E t \in Tasks, n \in 0..MaxTime : DropStale(t, n, generation)
    \/ \E ids \in SUBSET Tasks : \E chosen \in SUBSET ids :
          chosen \subseteq Ready /\ ClaimMany(ids, chosen, LeaseSeconds)
    \/ \E k \in issued : Release(k) \/ \E s \in ReportStatuses : Commit(k, s)

(* They are operations of RunStore.                                        *)
LEMMA StoreStepIsNext == StoreStep => [Next]_vars
BY LeaseSecondsAssumption DEF StoreStep, Next

(* Sections that only read.                                                *)
LEMMA ReadsKeepStore == UnchangedStore => StoreStep /\ issued \subseteq issued' /\ now' = now
BY DEF UnchangedStore, StoreStep, store, vars

(* Operations hand out tokens and take none back.                          *)
LEMMA CallsKeepTokens ==
    /\ \A s : Transition(s) => issued' = issued /\ now' = now
    /\ \A t : AppendTerminalEvent(t) => issued' = issued /\ now' = now
    /\ \A id : AppendEvent(id) => issued' = issued /\ now' = now
    /\ \A t, n, g : DropStale(t, n, g) => issued' = issued /\ now' = now
    /\ \A k, s : Commit(k, s) => issued' = issued /\ now' = now
    /\ \A k : Release(k) => issued' = issued /\ now' = now
    /\ \A ids, c, d : ClaimMany(ids, c, d) => issued \subseteq issued' /\ now' = now
BY DEF Transition, AppendTerminalEvent, AppendEvent, DropStale, Commit, Release, ClaimMany

(* The tokens an invocation holds are tokens.                              *)
LEMMA HeldTokens ==
    ASSUME TypeOK, ControlInv, NEW p \in Procs, pc[p] \in Holding
    PROVE  local[p].token \in issued /\ local[p].token \in Token
BY DEF ControlInv, Fits, TypeOK

-----------------------------------------------------------------------------
(* _cmd_v2 up to the loop of the orchestrator.                             *)
LEMMA OpeningKeeps ==
    ASSUME TypeOK, ControlInv, NEW p \in Procs,
           \/ Start(p) \/ Recover(p) \/ RecoverEach(p) \/ Drop(p)
           \/ LoadGeneration(p, "loadRunning", "toRunning") \/ ToRunning(p)
           \/ Reconcile(p) \/ Hydrate(p) \/ Publish(p)
    PROVE  StoreStep /\ ControlInv'
<1>0. local[p] \in Local /\ Fits(pc[p], local[p], issued)
  BY DEF ControlInv
<1>1. CASE Start(p)
  <2>1. StoreStep /\ issued \subseteq issued' /\ now' = now
    BY <1>1, ReadsKeepStore DEF Start
  <2>2. CASE UNCHANGED <<pc, local>>
    BY <2>1, <2>2 DEF ControlInv, Fits
  <2>3. CASE ~UNCHANGED <<pc, local>>
    <3> DEFINE b == \E t \in Tasks : Reported(t) /\ attempts[t] > MaxAttempts
               r == [Fresh EXCEPT !.broken = b]
    <3>1. Then(p, "recover", r)
      BY <1>1, <2>3 DEF Start
    <3>2. b \in BOOLEAN
      OBVIOUS
    <3> HIDE DEF b
    <3>3. r \in Local
      BY <3>2, FreshInLocal DEF Local
    <3> HIDE DEF r
    <3> QED
      BY <2>1, <3>1, <3>3, ThenKeeps DEF Fits, Holding, Sections
  <2> QED
    BY <2>1, <2>2, <2>3
<1>2. CASE Recover(p)
  <2>1. StoreStep /\ issued \subseteq issued' /\ now' = now
    BY <1>2, ReadsKeepStore DEF Recover
  <2> DEFINE r == [local[p] EXCEPT !.sampled = now, !.todo = Expired]
  <2>2. r \in Local
    BY <1>0 DEF Local, ControlInv, Expired
  <2>3. Then(p, "recoverEach", r)
    BY <1>2 DEF Recover
  <2> HIDE DEF r
  <2> QED
    BY <2>1, <2>2, <2>3, ThenKeeps DEF Fits, Holding, Sections
<1>3. CASE RecoverEach(p)
  <2>1. StoreStep /\ issued \subseteq issued' /\ now' = now
    BY <1>3, ReadsKeepStore DEF RecoverEach
  <2>2. CASE Goto(p, "loadRunning") /\ UNCHANGED local
    BY <2>1, <2>2, GotoKeeps DEF Fits, Holding, Sections
  <2>3. ASSUME NEW t \in local[p].todo,
               Then(p, "drop", [local[p] EXCEPT !.seen = generation, !.token.task = t])
        PROVE  ControlInv'
    <3> DEFINE r == [local[p] EXCEPT !.seen = generation, !.token.task = t]
    <3>1. t \in Tasks
      BY <1>0 DEF Local
    <3>2. r \in Local /\ r.token.task = t
      BY <1>0, <3>1 DEF Local, TypeOK
    <3>3. Then(p, "drop", r)
      BY <2>3
    <3> HIDE DEF r
    <3> QED
      BY <2>1, <3>1, <3>2, <3>3, ThenKeeps DEF Fits, Holding, Sections
  <2>4. ASSUME NEW t \in local[p].todo,
               Then(p, "recoverEach", [local[p] EXCEPT !.todo = @ \ {t}])
        PROVE  ControlInv'
    <3>1. [local[p] EXCEPT !.todo = @ \ {t}] \in Local
      BY <1>0 DEF Local
    <3> QED
      BY <2>1, <2>4, <3>1, ThenKeeps DEF Fits, Holding, Sections
  <2> QED
    BY <1>3, <2>1, <2>2, <2>3, <2>4 DEF RecoverEach
<1>4. CASE Drop(p)
  <2>1. CASE Exit(p) /\ UnchangedStore
    BY <2>1, ReadsKeepStore, ExitKeeps
  <2>2. CASE generation = local[p].seen /\ DropStale(local[p].token.task, local[p].sampled, local[p].seen)
    <3> DEFINE t == local[p].token.task
               r == [local[p] EXCEPT !.todo = @ \ {t}, !.seen = 0, !.token = NoToken]
    <3>1. t \in Tasks /\ local[p].sampled \in 0..MaxTime
      BY <1>0, <1>4 DEF Drop, Fits, Local
    <3>2. StoreStep /\ issued' = issued /\ now' = now
      BY <2>2, <3>1, CallsKeepTokens DEF StoreStep
    <3>3. r \in Local
      BY <1>0 DEF Local, NoToken
    <3>4. Then(p, "recoverEach", r)
      BY <1>4, <2>2 DEF Drop
    <3> HIDE DEF r
    <3> QED
      BY <3>2, <3>3, <3>4, ThenKeeps DEF Fits, Holding, Sections
  <2> QED
    BY <1>4, <2>1, <2>2 DEF Drop
<1>5. CASE LoadGeneration(p, "loadRunning", "toRunning")
  <2>1. [local[p] EXCEPT !.seen = generation] \in Local
    BY <1>0 DEF Local, TypeOK
  <2> QED
    BY <1>5, <2>1, ReadsKeepStore, ThenKeeps DEF LoadGeneration, Fits, Holding, Sections
<1>6. CASE ToRunning(p)
  <2>1. CASE UnchangedStore /\ Exit(p)
    BY <2>1, ReadsKeepStore, ExitKeeps
  <2>2. CASE Transition("running") /\ Then(p, "reconcile", [Fresh EXCEPT !.broken = local[p].broken])
    <3>1. [Fresh EXCEPT !.broken = local[p].broken] \in Local
      BY <1>0, FreshInLocal DEF Local
    <3>2. StoreStep /\ issued' = issued /\ now' = now
      BY <2>2, CallsKeepTokens DEF StoreStep, RunStatuses
    <3> QED
      BY <2>2, <3>1, <3>2, ThenKeeps DEF Fits, Holding, Sections
  <2> QED
    BY <1>6, <2>1, <2>2 DEF ToRunning, CasTransition
<1>7. CASE Reconcile(p)
  <2>1. StoreStep /\ issued \subseteq issued' /\ now' = now
    BY <1>7, ReadsKeepStore DEF Reconcile
  <2>2. CASE Then(p, "failLoad", Fresh)
    BY <2>1, <2>2, FreshInLocal, ThenKeeps DEF Fits, Holding, Sections
  <2>3. CASE Goto(p, "hydrate") /\ UNCHANGED local
    BY <2>1, <2>3, GotoKeeps DEF Fits, Holding, Sections
  <2>4. CASE Then(p, "finalLoad", [Fresh EXCEPT !.final = "blocked"])
    <3>1. [Fresh EXCEPT !.final = "blocked"] \in Local /\ [Fresh EXCEPT !.final = "blocked"].final = "blocked"
      BY FreshInLocal DEF Local
    <3> QED
      BY <2>1, <2>4, <3>1, ThenKeeps DEF Fits, Holding, Sections
  <2> QED
    BY <1>7, <2>1, <2>2, <2>3, <2>4 DEF Reconcile
<1>8. CASE Hydrate(p)
  <2>1. StoreStep /\ issued \subseteq issued' /\ now' = now
    BY <1>8, ReadsKeepStore DEF Hydrate
  <2> DEFINE done == { t \in Tasks : Reported(t) }
             v == [t \in Tasks |-> IF t \in done THEN reports[t].status ELSE "pending"]
             r == [local[p] EXCEPT !.terminal = done, !.todo = done, !.view = v]
  <2>2. v \in [Tasks -> ReportStatuses \cup {"pending"}]
    BY DEF TypeOK, Report, Reported
  <2>3. Then(p, "publish", r)
    BY <1>8 DEF Hydrate
  <2>4. done \in SUBSET Tasks
    OBVIOUS
  <2> HIDE DEF v, done
  <2>5. r \in Local
    BY <1>0, <2>2, <2>4 DEF Local
  <2> HIDE DEF r
  <2> QED
    BY <2>1, <2>3, <2>5, ThenKeeps DEF Fits, Holding, Sections
<1>9. CASE Publish(p)
  <2>1. CASE Goto(p, "ready") /\ UNCHANGED local /\ UnchangedStore
    BY <2>1, ReadsKeepStore, GotoKeeps DEF Fits, Holding, Sections
  <2>2. ASSUME NEW t \in local[p].todo, PublishIfAbsent(t),
               Then(p, "publish", [local[p] EXCEPT !.todo = @ \ {t}])
        PROVE  StoreStep /\ ControlInv'
    <3>1. [local[p] EXCEPT !.todo = @ \ {t}] \in Local /\ t \in Tasks
      BY <1>0 DEF Local
    <3>2. StoreStep /\ issued \subseteq issued' /\ now' = now
      BY <2>2, <3>1, ReadsKeepStore, CallsKeepTokens DEF PublishIfAbsent, StoreStep
    <3> QED
      BY <2>2, <3>1, <3>2, ThenKeeps DEF Fits, Holding, Sections
  <2> QED
    BY <1>9, <2>1, <2>2 DEF Publish
<1> QED
  BY <1>1, <1>2, <1>3, <1>4, <1>5, <1>6, <1>7, <1>8, <1>9

-----------------------------------------------------------------------------
(* The verdict is a status of a run.                                       *)
LEMMA FinishKeeps ==
    ASSUME ControlInv, NEW p \in Procs, Finish(p), issued \subseteq issued', now' = now
    PROVE  ControlInv'
<1> DEFINE r == [Fresh EXCEPT !.final = Verdict(local[p].view)]
<1>1. Verdict(local[p].view) \in {"completed", "failed", "blocked"}
  BY DEF Verdict
<1>2. r \in Local /\ r.final # "none"
  BY <1>1, FreshInLocal DEF Local
<1>3. Then(p, "finalLoad", r)
  BY DEF Finish
<1> HIDE DEF r
<1> QED
  BY <1>2, <1>3, ThenKeeps DEF Fits, Holding, Sections

(* The end of a round.                                                     *)
LEMMA NextRoundKeeps ==
    ASSUME ControlInv, NEW p \in Procs, NextRound(p), issued \subseteq issued', now' = now
    PROVE  ControlInv'
<1> DEFINE r == [local[p] EXCEPT !.token = NoToken, !.attempt = 0, !.outcome = "none"]
<1>0. local[p] \in Local
  BY DEF ControlInv
<1>1. r \in Local
  BY <1>0 DEF Local, NoToken
<1>2. Then(p, "ready", r)
  BY DEF NextRound
<1> HIDE DEF r
<1> QED
  BY <1>1, <1>2, ThenKeeps DEF Fits, Holding, Sections

(* From the head of the loop to the result of the worker.                  *)
LEMMA RoundKeeps ==
    ASSUME TypeOK, ControlInv, NEW p \in Procs,
           \/ ReadyIds(p) \/ Candidates(p) \/ ClaimStep(p)
           \/ Enrich(p) \/ Use(p) \/ Work(p) \/ Result(p)
    PROVE  StoreStep /\ ControlInv'
<1>0. local[p] \in Local /\ Fits(pc[p], local[p], issued)
  BY DEF ControlInv
<1>1. CASE ReadyIds(p)
  <2>1. StoreStep /\ issued \subseteq issued' /\ now' = now
    BY <1>1, ReadsKeepStore DEF ReadyIds
  <2>2. CASE Goto(p, "candidates") /\ UNCHANGED local
    BY <2>1, <2>2, GotoKeeps DEF Fits, Holding, Sections
  <2> QED
    BY <1>1, <2>1, <2>2, FinishKeeps DEF ReadyIds
<1>2. CASE Candidates(p)
  <2>1. [local[p] EXCEPT !.candidates = Ready] \in Local
    BY <1>0 DEF Local, Ready, Open
  <2> QED
    BY <1>2, <2>1, ReadsKeepStore, ThenKeeps DEF Candidates, Fits, Holding, Sections
<1>3. CASE ClaimStep(p)
  <2> DEFINE ids == local[p].candidates
  <2>1. ids \in SUBSET Tasks
    BY <1>0 DEF Local
  <2>2. CASE Then(p, "failLoad", Fresh) /\ UnchangedStore
    BY <2>2, ReadsKeepStore, FreshInLocal, ThenKeeps DEF Fits, Holding, Sections
  <2>3. CASE Finish(p) /\ UnchangedStore
    BY <2>3, ReadsKeepStore, FinishKeeps
  <2>4. CASE Finish(p) /\ ClaimMany(ids, {}, LeaseSeconds)
    <3>1. StoreStep
      BY <2>1, <2>4 DEF StoreStep
    <3> QED
      BY <2>4, <3>1, CallsKeepTokens, FinishKeeps
  <2>5. ASSUME NEW t \in (ids \ Kept) \cap Ready, ClaimMany(ids, {t}, LeaseSeconds),
               Then(p, "enrich", [local[p] EXCEPT !.candidates = {}, !.token = NewToken(t, LeaseSeconds)])
        PROVE  StoreStep /\ ControlInv'
    <3> DEFINE k == NewToken(t, LeaseSeconds)
               r == [local[p] EXCEPT !.candidates = {}, !.token = k]
    <3>1. StoreStep
      BY <2>1, <2>5 DEF StoreStep
    <3>2. issued \subseteq issued' /\ now' = now /\ k \in issued'
      BY <2>5 DEF ClaimMany
    <3>3. k \in Token
      BY <2>1, LeaseSecondsAssumption, DurationsAssumption DEF NewToken, Token, TypeOK
    <3>4. Then(p, "enrich", r)
      BY <2>5
    <3> HIDE DEF k
    <3>5. r \in Local /\ r.token = k
      BY <1>0, <3>3 DEF Local, Token
    <3> HIDE DEF r
    <3> QED
      BY <3>1, <3>2, <3>4, <3>5, ThenKeeps DEF Fits, Holding, Sections
  <2> HIDE DEF ids
  <2>6. \/ Then(p, "failLoad", Fresh) /\ UnchangedStore
        \/ Finish(p) /\ UnchangedStore
        \/ Finish(p) /\ ClaimMany(ids, {}, LeaseSeconds)
        \/ \E t \in (ids \ Kept) \cap Ready :
              /\ ClaimMany(ids, {t}, LeaseSeconds)
              /\ Then(p, "enrich", [local[p] EXCEPT !.candidates = {}, !.token = NewToken(t, LeaseSeconds)])
    BY <1>3 DEF ClaimStep, ids
  <2> QED
    BY <2>2, <2>3, <2>4, <2>5, <2>6
<1>4. CASE Enrich(p)
  <2> DEFINE r == [local[p] EXCEPT !.attempt = attempts[local[p].token.task]]
  <2>1. local[p].token \in issued /\ local[p].token.task \in Tasks
    BY <1>4, HeldTokens DEF Enrich, Holding, Token
  <2>2. r \in Local /\ r.token = local[p].token
    BY <1>0, <2>1 DEF Local, TypeOK
  <2>3. Then(p, "use", r)
    BY <1>4 DEF Enrich
  <2> HIDE DEF r
  <2> QED
    BY <1>4, <2>1, <2>2, <2>3, ReadsKeepStore, ThenKeeps DEF Enrich, Fits, Holding, Sections
<1>5. CASE Use(p)
  <2>1. local[p].token \in issued
    BY <1>5, HeldTokens DEF Use, Holding
  <2>2. StoreStep /\ issued \subseteq issued' /\ now' = now
    BY <1>5, ReadsKeepStore DEF Use
  <2>3. UNCHANGED local /\ (Goto(p, "working") \/ Goto(p, "failure"))
    BY <1>5 DEF Use
  <2> QED
    BY <2>1, <2>2, <2>3, GotoKeeps DEF Fits, Holding, Sections
<1>6. CASE Work(p)
  <2>1. local[p].token \in issued
    BY <1>6, HeldTokens DEF Work, Holding
  <2>2. StoreStep /\ issued \subseteq issued' /\ now' = now
    BY <1>6, ReadsKeepStore DEF Work
  <2>3. ASSUME NEW s \in ReportStatuses, Then(p, "result", [local[p] EXCEPT !.outcome = s])
        PROVE  ControlInv'
    <3> DEFINE r == [local[p] EXCEPT !.outcome = s]
    <3>1. r \in Local /\ r.token = local[p].token /\ r.outcome = s
      BY <1>0 DEF Local
    <3>2. Then(p, "result", r)
      BY <2>3
    <3> HIDE DEF r
    <3> QED
      BY <2>1, <2>2, <3>1, <3>2, ThenKeeps DEF Fits, Holding, Sections
  <2>4. CASE Goto(p, "failure") /\ UNCHANGED local
    BY <2>1, <2>2, <2>4, GotoKeeps DEF Fits, Holding, Sections
  <2> QED
    BY <1>6, <2>2, <2>3, <2>4 DEF Work
<1>7. CASE Result(p)
  <2>1. local[p].token \in issued /\ local[p].outcome \in ReportStatuses
    BY <1>0, <1>7, HeldTokens DEF Result, Holding, Fits
  <2>2. StoreStep /\ issued \subseteq issued' /\ now' = now
    BY <1>7, ReadsKeepStore DEF Result
  <2>3. UNCHANGED local /\ (Goto(p, "commit") \/ Goto(p, "failure"))
    BY <1>7 DEF Result
  <2> QED
    BY <2>1, <2>2, <2>3, GotoKeeps DEF Fits, Holding, Sections
<1> QED
  BY <1>1, <1>2, <1>3, <1>4, <1>5, <1>6, <1>7

(* From the commit to the release.                                         *)
LEMMA CommitKeepsControl ==
    ASSUME TypeOK, ControlInv, NEW p \in Procs,
           \/ CommitStep(p) \/ EventStep(p) \/ Failure(p) \/ Retry(p)
           \/ CommitFailed(p) \/ FailedEventStep(p) \/ ReleaseStep(p)
    PROVE  StoreStep /\ ControlInv'
<1> DEFINE k == local[p].token
<1>0. local[p] \in Local /\ Fits(pc[p], local[p], issued)
  BY DEF ControlInv
<1>1. k \in issued /\ k.task \in Tasks
  BY HeldTokens DEF CommitStep, EventStep, Failure, Retry, CommitFailed, FailedEventStep,
     ReleaseStep, Holding, Token
<1>2. CASE CommitStep(p)
  <2> DEFINE s == local[p].outcome
             r == [local[p] EXCEPT !.view[k.task] = s,
                      !.terminal = IF s = "blocked" THEN @ \cup {k.task} ELSE @]
  <2>1. s \in ReportStatuses
    BY <1>0, <1>2 DEF CommitStep, Fits
  <2>2. r \in Local /\ r.token = k
    BY <1>0, <1>1, <2>1 DEF Local
  <2>3. Commit(k, s) => StoreStep /\ issued \subseteq issued' /\ now' = now
    BY <1>1, <2>1, CallsKeepTokens DEF StoreStep
  <2>4. CASE Commit(k, s) /\ Then(p, "event", r)
    <3> HIDE DEF r
    <3> QED
      BY <1>1, <2>2, <2>3, <2>4, ThenKeeps DEF Fits, Holding, Sections
  <2>5. CASE (Commit(k, s) \/ UnchangedStore) /\ Goto(p, "failure") /\ UNCHANGED local
    BY <1>1, <2>3, <2>5, ReadsKeepStore, GotoKeeps DEF Fits, Holding, Sections
  <2> QED
    BY <1>2, <2>4, <2>5 DEF CommitStep
<1>3. PublishIfAbsent(k.task) => StoreStep /\ issued \subseteq issued' /\ now' = now
  BY <1>1, ReadsKeepStore, CallsKeepTokens DEF PublishIfAbsent, StoreStep
<1>4. CASE EventStep(p)
  BY <1>3, <1>4, NextRoundKeeps DEF EventStep
<1>5. CASE FailedEventStep(p)
  BY <1>1, <1>3, <1>5, GotoKeeps DEF FailedEventStep, Fits, Holding, Sections
<1>6. CASE Failure(p)
  <2>1. StoreStep /\ issued \subseteq issued' /\ now' = now
    BY <1>6, ReadsKeepStore DEF Failure
  <2>2. ASSUME NEW section \in {"retry", "commitFailed"}, NEW v \in {"pending", "failed"},
               Then(p, section, [local[p] EXCEPT !.view[k.task] = v])
        PROVE  ControlInv'
    <3> DEFINE r == [local[p] EXCEPT !.view[k.task] = v]
    <3>1. r \in Local /\ r.token = k
      BY <1>0, <1>1 DEF Local, ReportStatuses
    <3>2. Then(p, section, r)
      BY <2>2
    <3> HIDE DEF r
    <3> QED
      BY <1>1, <2>1, <3>1, <3>2, ThenKeeps DEF Fits, Holding, Sections
  <2> QED
    BY <1>6, <2>1, <2>2 DEF Failure
<1>7. CASE Retry(p)
  <2>1. StoreStep /\ issued \subseteq issued' /\ now' = now
    BY <1>7, EventsAssumption, CallsKeepTokens DEF Retry, StoreStep
  <2> QED
    BY <1>1, <1>7, <2>1, GotoKeeps DEF Retry, Fits, Holding, Sections
<1>8. CASE CommitFailed(p)
  <2> DEFINE r == [local[p] EXCEPT !.terminal = @ \cup {k.task}]
  <2>1. StoreStep /\ issued \subseteq issued' /\ now' = now
    BY <1>1, <1>8, ReadsKeepStore, CallsKeepTokens DEF CommitFailed, StoreStep, ReportStatuses
  <2>2. r \in Local /\ r.token = k
    BY <1>0, <1>1 DEF Local
  <2>3. Then(p, "failedEvent", r) \/ Then(p, "release", r)
    BY <1>8 DEF CommitFailed, Then
  <2> HIDE DEF r
  <2> QED
    BY <1>1, <2>1, <2>2, <2>3, ThenKeeps DEF Fits, Holding, Sections
<1>9. CASE ReleaseStep(p)
  <2>1. StoreStep /\ issued \subseteq issued' /\ now' = now
    BY <1>1, <1>9, ReadsKeepStore, CallsKeepTokens DEF ReleaseStep, StoreStep
  <2> QED
    BY <1>9, <2>1, NextRoundKeeps DEF ReleaseStep
<1> QED
  BY <1>2, <1>4, <1>5, <1>6, <1>7, <1>8, <1>9

(* The final status, the failure of the run, and a kill.                   *)
LEMMA ClosingKeeps ==
    ASSUME TypeOK, ControlInv, NEW p \in Procs,
           \/ LoadGeneration(p, "finalLoad", "toFinal") \/ ToFinal(p)
           \/ LoadGeneration(p, "failLoad", "failEvent") \/ FailEvent(p)
           \/ LoadGeneration(p, "failReload", "toFailed") \/ ToFailed(p) \/ Crash(p)
    PROVE  StoreStep /\ ControlInv'
<1>0. local[p] \in Local /\ Fits(pc[p], local[p], issued)
  BY DEF ControlInv
<1>1. ASSUME NEW section, NEW next \in {"toFinal", "failEvent", "toFailed"},
             LoadGeneration(p, section, next), next = "toFinal" => section = "finalLoad"
      PROVE  StoreStep /\ ControlInv'
  <2> DEFINE r == [local[p] EXCEPT !.seen = generation]
  <2>1. r \in Local /\ r.final = local[p].final
    BY <1>0 DEF Local, TypeOK
  <2>2. Then(p, next, r) /\ pc[p] = section /\ UnchangedStore
    BY <1>1 DEF LoadGeneration
  <2>3. next = "toFinal" => r.final # "none"
    BY <1>0, <1>1, <2>1, <2>2 DEF Fits
  <2> HIDE DEF r
  <2> QED
    BY <2>1, <2>2, <2>3, ReadsKeepStore, ThenKeeps DEF Fits, Holding, Sections
<1>2. ASSUME NEW s \in RunStatuses, (Transition(s) \/ UnchangedStore) /\ Exit(p)
      PROVE  StoreStep /\ ControlInv'
  <2>1. StoreStep /\ issued \subseteq issued' /\ now' = now
    BY <1>2, ReadsKeepStore, CallsKeepTokens DEF StoreStep
  <2> QED
    BY <1>2, <2>1, ExitKeeps
<1>3. CASE ToFinal(p)
  <2>1. local[p].final \in RunStatuses
    BY <1>0, <1>3 DEF ToFinal, CasTransition, Fits, Local, RunStatuses
  <2> QED
    BY <1>2, <1>3, <2>1 DEF ToFinal, CasTransition
<1>4. CASE ToFailed(p)
  BY <1>2, <1>4 DEF ToFailed, CasTransition, RunStatuses
<1>5. CASE FailEvent(p)
  <2>1. StoreStep /\ issued \subseteq issued' /\ now' = now
    BY <1>5, EventsAssumption, ReadsKeepStore, CallsKeepTokens DEF FailEvent, StoreStep
  <2>2. CASE Then(p, "failReload", Fresh)
    BY <2>1, <2>2, FreshInLocal, ThenKeeps DEF Fits, Holding, Sections
  <2> QED
    BY <1>5, <2>1, <2>2, ExitKeeps DEF FailEvent
<1>6. CASE Crash(p)
  BY <1>6, ReadsKeepStore, ExitKeeps DEF Crash
<1> QED
  BY <1>1, <1>3, <1>4, <1>5, <1>6

(* Every step of the fleet is one of the store's, and keeps ControlInv.    *)
LEMMA FleetStep ==
    ASSUME TypeOK, ControlInv, [FleetNext]_fleetVars
    PROVE  StoreStep /\ ControlInv'
<1>1. CASE UNCHANGED fleetVars
  BY <1>1 DEF fleetVars, vars, StoreStep, ControlInv, Fits
<1>2. CASE Tick
  <2>1. now' \in 0..MaxTime /\ now' # now /\ UNCHANGED <<store, issued, pc, local>>
    BY <1>2, BoundsAssumption DEF Tick, ControlInv
  <2>2. StoreStep
    BY <2>1 DEF StoreStep, SetClock
  <2>3. ControlInv'
    BY <2>1 DEF ControlInv, Fits
  <2> QED
    BY <2>2, <2>3
<1>3. ASSUME NEW p \in Procs, Start(p) \/ Step(p) \/ Crash(p) PROVE StoreStep /\ ControlInv'
  BY <1>3, OpeningKeeps, RoundKeeps, CommitKeepsControl, ClosingKeeps DEF Step
<1> QED
  BY <1>1, <1>2, <1>3 DEF FleetNext

(* ControlInv holds in every reachable state, together with the types of   *)
(* the store.                                                              *)
THEOREM ControlInvariant == FleetSpec => [](TypeOK /\ ControlInv)
<1>1. FleetInit => TypeOK /\ ControlInv
  <2> SUFFICES ASSUME FleetInit PROVE TypeOK /\ ControlInv
    OBVIOUS
  <2>1. TypeOK
    BY InitLeaseInv DEF FleetInit, LeaseInv
  <2>2. ControlInv
    BY FreshInLocal, BoundsAssumption DEF FleetInit, Init, ControlInv, Fits, Holding
  <2> QED
    BY <2>1, <2>2
<1>2. TypeOK /\ ControlInv /\ [FleetNext]_fleetVars => TypeOK' /\ ControlInv'
  BY FleetStep, StoreStepIsNext, NextTypeOK
<1> QED
  BY <1>1, <1>2, PTL DEF FleetSpec

(* All that concurrent invocations of pd v2 run-local do to a run is what  *)
(* RunStore allows: its theorems are theorems about the fleet.             *)
THEOREM FleetRespectsStore == FleetSpec => StoreRespected
<1>1. FleetInit => Init
  BY DEF FleetInit
<1>2. TypeOK /\ ControlInv /\ [FleetNext]_fleetVars => [Next]_vars
  BY FleetStep, StoreStepIsNext
<1> QED
  BY <1>1, <1>2, ControlInvariant, PTL DEF FleetSpec, StoreRespected

-----------------------------------------------------------------------------
(* The invariant of the store's lease protocol and what its steps do to    *)
(* reports, carried over to the fleet.                                     *)
THEOREM FleetLeaseInvariant == FleetSpec => []LeaseInv
BY FleetRespectsStore, LeaseInvariant, PTL DEF StoreRespected, Spec

(* What the barriers rest on: in a fleet, only a commit makes a task       *)
(* terminal.                                                               *)
TerminalReported == \A t \in Tasks : taskStatus[t] \in TerminalTaskStatuses => Reported(t)

BarrierInv == TerminalReported /\ BarriersHold

(* A task that is ready has its dependencies completed and the waves       *)
(* before its own reported.                                                *)
LEMMA ReadyIsSafe ==
    ASSUME LeaseInv, TerminalReported, NEW t \in Ready
    PROVE  /\ Deps[t] \subseteq { u \in Tasks : reports[u].status = "completed" }
           /\ \A u \in Tasks : Wave[u] < Wave[t] => Reported(u)
<1>1. \A u \in Completed : u \in Tasks /\ reports[u].status = "completed"
  BY DEF Completed, TerminalReported, TerminalTaskStatuses, LeaseInv, ReportIsFinal
<1>2. \A u \in Tasks : Wave[u] < Wave[t] => u \notin Open
  BY PlanAssumption DEF Ready, Open
<1> QED
  BY <1>1, <1>2 DEF Ready, Open, TerminalReported

(* Every step of the fleet keeps the barriers.                             *)
LEMMA NextBarrierInv ==
    ASSUME LeaseInv, BarrierInv, StoreStep
    PROVE  BarrierInv'
<1>0. TypeOK /\ [Next]_vars
  BY StoreStepIsNext DEF LeaseInv
<1>1. \A t \in Tasks : Reported(t) => Reported(t)' /\ reports'[t] = reports[t]
  BY <1>0, NextKeepsReports DEF StepKeepsReports, Reported
<1>2. ASSUME NEW t \in Tasks,
             /\ Deps[t] \subseteq { u \in Tasks : reports[u].status = "completed" }
             /\ \A u \in Tasks : Wave[u] < Wave[t] => Reported(u)
      PROVE  /\ Deps[t] \subseteq { u \in Tasks : reports'[u].status = "completed" }
             /\ \A u \in Tasks : Wave[u] < Wave[t] => Reported(u)'
  BY <1>1, <1>2 DEF Reported
<1>3. ASSUME UNCHANGED <<taskStatus, attempts>> PROVE BarrierInv'
  <2>1. TerminalReported'
    BY <1>1, <1>3 DEF BarrierInv, TerminalReported
  <2>2. BarriersHold'
    BY <1>2, <1>3 DEF BarrierInv, BarriersHold
  <2> QED
    BY <2>1, <2>2 DEF BarrierInv
<1>4. ASSUME NEW ids \in SUBSET Tasks, NEW c \in SUBSET ids, c \subseteq Ready,
             ClaimMany(ids, c, LeaseSeconds)
      PROVE  BarrierInv'
  <2>1. /\ UNCHANGED <<taskStatus, reports>>
        /\ attempts' = [t \in Tasks |-> IF t \in c THEN attempts[t] + 1 ELSE attempts[t]]
    BY <1>4 DEF ClaimMany
  <2>2. TerminalReported'
    BY <1>1, <2>1 DEF BarrierInv, TerminalReported
  <2>3. ASSUME NEW t \in Tasks, attempts'[t] > 0
        PROVE  /\ Deps[t] \subseteq { u \in Tasks : reports[u].status = "completed" }
               /\ \A u \in Tasks : Wave[u] < Wave[t] => Reported(u)
    <3>1. CASE t \in c
      BY <1>4, <3>1, ReadyIsSafe DEF BarrierInv
    <3>2. CASE t \notin c
      BY <2>1, <2>3, <3>2 DEF BarrierInv, BarriersHold
    <3> QED
      BY <3>1, <3>2
  <2>4. BarriersHold'
    BY <1>2, <2>3 DEF BarriersHold
  <2> QED
    BY <2>2, <2>4 DEF BarrierInv
<1>5. ASSUME NEW k \in issued, NEW s \in ReportStatuses, Commit(k, s)
      PROVE  BarrierInv'
  <2>1. k.task \in Tasks
    BY <1>0 DEF TypeOK, Token
  <2>2. TerminalReported'
    BY <1>0, <1>1, <1>5, <2>1 DEF BarrierInv, TerminalReported, Commit, Reported, ReportStatuses, TypeOK
  <2>3. attempts' = attempts
    BY <1>5 DEF Commit
  <2>4. BarriersHold'
    BY <1>2, <2>3 DEF BarrierInv, BarriersHold
  <2> QED
    BY <2>2, <2>4 DEF BarrierInv
<1> QED
  BY <1>3, <1>4, <1>5 DEF StoreStep, vars, SetClock, store, Transition, AppendTerminalEvent,
     AppendEvent, DropStale, Release

(* No task of any plan is ever attempted before its dependencies completed *)
(* and the waves before its own were over, whoever runs it.                *)
THEOREM FleetBarriers == FleetSpec => []BarriersHold
<1>1. FleetInit => BarrierInv
  BY DEF FleetInit, Init, BarrierInv, TerminalReported, BarriersHold, TerminalTaskStatuses
<1>2. TypeOK /\ ControlInv /\ LeaseInv /\ BarrierInv /\ [FleetNext]_fleetVars => BarrierInv'
  BY FleetStep, NextBarrierInv
<1>3. BarrierInv => BarriersHold
  BY DEF BarrierInv
<1> QED
  BY <1>1, <1>2, <1>3, ControlInvariant, FleetLeaseInvariant, PTL DEF FleetSpec

-----------------------------------------------------------------------------
(* Every step of the fleet keeps the number of leases within bounds.       *)
LEMMA NextLeasesBounded ==
    ASSUME TypeOK, TypeOK', LeasesBounded, StoreStep
    PROVE  LeasesBounded'
<1> DEFINE L == { t \in Tasks : Leased(t) }
           M == { t \in Tasks : Leased(t)' }
<1>0. IsFiniteSet(L) /\ IsFiniteSet(M) /\ IsFiniteSet(Kept)
  BY PlanAssumption, FS_Subset DEF Kept
<1>1. Cardinality(L) \in Nat /\ Cardinality(M) \in Nat /\ Cardinality(Kept) \in Nat
  BY <1>0, FS_CardinalityType
<1>2. ASSUME M \subseteq L PROVE LeasesBounded'
  <2>1. Cardinality(M) <= Cardinality(L)
    BY <1>0, <1>2, FS_Subset
  <2> QED
    BY <1>1, <2>1, MaxParallelAssumption DEF LeasesBounded
<1>3. ASSUME NEW ids \in SUBSET Tasks, NEW c \in SUBSET ids, ClaimMany(ids, c, LeaseSeconds)
      PROVE  LeasesBounded'
  <2>1. IsFiniteSet(c)
    BY PlanAssumption, FS_Subset
  <2>2. M \subseteq c \cup Kept
    BY <1>3 DEF ClaimMany, Leased
  <2>3. IsFiniteSet(c \cup Kept)
        /\ Cardinality(c \cup Kept) = Cardinality(c) + Cardinality(Kept) - Cardinality(c \cap Kept)
    BY <1>0, <2>1, FS_Union
  <2>4. Cardinality(c) \in Nat /\ Cardinality(c \cap Kept) \in Nat /\ Cardinality(c \cup Kept) \in Nat
    BY <1>0, <2>1, <2>3, FS_CardinalityType, FS_Intersection
  <2>5. Cardinality(M) <= Cardinality(c \cup Kept)
    BY <2>2, <2>3, FS_Subset
  <2>6. Cardinality(c) <= MaxParallel - Cardinality(Kept)
    BY <1>3 DEF ClaimMany
  <2>7. Cardinality(M) <= MaxParallel
    BY <1>1, <2>3, <2>4, <2>5, <2>6, MaxParallelAssumption
  <2> QED
    BY <2>7 DEF LeasesBounded
<1>4. ASSUME leases' = leases PROVE M \subseteq L
  BY <1>4 DEF Leased
<1>5. ASSUME NEW t \in Tasks, NEW n, DropStale(t, n, generation) PROVE M \subseteq L
  BY <1>5 DEF DropStale, Leased, TypeOK
<1>6. ASSUME NEW k \in issued, Release(k) \/ \E s \in ReportStatuses : Commit(k, s)
      PROVE  M \subseteq L
  BY <1>6 DEF Release, Commit, Leased, TypeOK, Token
<1> QED
  BY <1>2, <1>3, <1>4, <1>5, <1>6 DEF StoreStep, vars, SetClock, store, Transition,
     AppendTerminalEvent, AppendEvent

(* Schedulers that compute capacity each for itself never have more leases *)
(* out than --max-parallel.                                                *)
THEOREM FleetCapacity == FleetSpec => []LeasesBounded
<1>1. FleetInit => LeasesBounded
  <2> SUFFICES ASSUME FleetInit PROVE LeasesBounded
    OBVIOUS
  <2>1. { t \in Tasks : Leased(t) } = {}
    BY DEF FleetInit, Init, Leased
  <2> QED
    BY <2>1, FS_EmptySet, MaxParallelAssumption DEF LeasesBounded
<1>2. TypeOK /\ ControlInv /\ LeasesBounded /\ [FleetNext]_fleetVars => LeasesBounded'
  BY FleetStep, StoreStepIsNext, NextTypeOK, NextLeasesBounded
<1> QED
  BY <1>1, <1>2, ControlInvariant, PTL DEF FleetSpec

-----------------------------------------------------------------------------
(* What an invocation believes of the run is true of the store, although   *)
(* it may know less: a task it takes for completed has a completed report, *)
(* and a verdict of completed was given when every task had one.           *)
AllCompleted == \A t \in Tasks : reports[t].status = "completed"

Honest(r) ==
    /\ \A t \in Tasks : r.view[t] = "completed" => reports[t].status = "completed"
    /\ r.final = "completed" => AllCompleted

VerdictInv == CompletedMeansAll /\ \A p \in Procs : Honest(local[p])

(* A fresh invocation believes nothing.                                    *)
LEMMA FreshIsHonest == ASSUME NEW b PROVE Honest([Fresh EXCEPT !.broken = b]) /\ Honest(Fresh)
BY DEF Honest, Fresh

(* Beliefs stay true, since reports stay.                                  *)
LEMMA HonestStays ==
    ASSUME LeaseInv, StoreStep, NEW r, Honest(r)
    PROVE  /\ \A t \in Tasks : r.view[t] = "completed" => reports'[t].status = "completed"
           /\ r.final = "completed" => AllCompleted'
           /\ AllCompleted => AllCompleted'
<1>1. [Next]_vars
  BY StoreStepIsNext
<1>2. \A t \in Tasks : reports[t].status = "completed" => reports'[t].status = "completed"
  BY <1>1, NextKeepsReports DEF StepKeepsReports, Reported
<1> QED
  BY <1>2 DEF Honest, AllCompleted

(* The only new beliefs of an invocation: those of Hydrate, of a commit    *)
(* and of the verdict.                                                     *)
LEMMA StepIsHonest ==
    ASSUME TypeOK, ControlInv, LeaseInv, VerdictInv, StoreStep,
           NEW p \in Procs, Start(p) \/ Step(p) \/ Crash(p)
    PROVE  /\ \A q \in Procs : q # p => local'[q] = local[q]
           /\ \A t \in Tasks : local'[p].view[t] = "completed" => reports'[t].status = "completed"
           /\ local'[p].final = "completed" => AllCompleted'
<1> DEFINE Same == local' = local
           Good(r) == /\ local' = [local EXCEPT ![p] = r]
                      /\ \A t \in Tasks : r.view[t] = "completed" => reports'[t].status = "completed"
                      /\ r.final = "completed" => AllCompleted'
           Goal == /\ \A q \in Procs : q # p => local'[q] = local[q]
                   /\ \A t \in Tasks : local'[p].view[t] = "completed" => reports'[t].status = "completed"
                   /\ local'[p].final = "completed" => AllCompleted'
<1> SUFFICES Goal
  OBVIOUS
<1>0. local \in [Procs -> Local] /\ local[p] \in Local /\ Honest(local[p])
  BY DEF ControlInv, VerdictInv
<1>1. ASSUME NEW r, Good(r) PROVE Goal
  BY <1>0, <1>1
<1>2. ASSUME Same PROVE Goal
  BY <1>0, <1>2, HonestStays
<1>3. ASSUME NEW r, local' = [local EXCEPT ![p] = r], Honest(r) PROVE Goal
  BY <1>1, <1>3, HonestStays
<1>4. ASSUME NEW r, local' = [local EXCEPT ![p] = r],
             r.view = local[p].view, r.final = local[p].final
      PROVE  Goal
  BY <1>0, <1>3, <1>4 DEF Honest
<1> HIDE DEF Goal
<1>5. CASE Start(p)
  BY <1>2, <1>3, <1>5, FreshIsHonest DEF Start, Then, Remember
<1>6. CASE Exit(p) \/ Then(p, "failLoad", Fresh) \/ Then(p, "failReload", Fresh)
  BY <1>3, <1>6, FreshIsHonest DEF Exit, Then, Remember
<1>7. CASE Then(p, "reconcile", [Fresh EXCEPT !.broken = local[p].broken])
  BY <1>3, <1>7, FreshIsHonest DEF Then, Remember
<1>8. CASE Then(p, "finalLoad", [Fresh EXCEPT !.final = "blocked"])
  <2>1. Honest([Fresh EXCEPT !.final = "blocked"])
    BY DEF Honest, Fresh
  <2> QED
    BY <1>3, <1>8, <2>1 DEF Then, Remember
<1>9. CASE Finish(p)
  <2> DEFINE r == [Fresh EXCEPT !.final = Verdict(local[p].view)]
  <2>1. Verdict(local[p].view) = "completed" => AllCompleted
    BY <1>0 DEF Verdict, Local, ReportStatuses, Honest, AllCompleted
  <2>2. r.view = Fresh.view /\ r.final = Verdict(local[p].view)
    BY DEF Fresh
  <2>3. Honest(r)
    BY <2>1, <2>2 DEF Honest, Fresh
  <2>4. local' = [local EXCEPT ![p] = r]
    BY <1>9 DEF Finish, Then, Remember
  <2> HIDE DEF r
  <2> QED
    BY <1>3, <2>3, <2>4
<1>10. CASE NextRound(p)
  <2> DEFINE r == [local[p] EXCEPT !.token = NoToken, !.attempt = 0, !.outcome = "none"]
  <2>1. r.view = local[p].view /\ r.final = local[p].final
    BY <1>0 DEF Local
  <2>2. local' = [local EXCEPT ![p] = r]
    BY <1>10 DEF NextRound, Then, Remember
  <2> HIDE DEF r
  <2> QED
    BY <1>4, <2>1, <2>2
<1>11. CASE Hydrate(p)
  <2> DEFINE done == { t \in Tasks : Reported(t) }
             v == [t \in Tasks |-> IF t \in done THEN reports[t].status ELSE "pending"]
             r == [local[p] EXCEPT !.terminal = done, !.todo = done, !.view = v]
  <2>1. r.view = v /\ r.final = local[p].final
    BY <1>0 DEF Local
  <2>2. local' = [local EXCEPT ![p] = r]
    BY <1>11 DEF Hydrate, Then, Remember
  <2>3. \A t \in Tasks : v[t] = "completed" => reports[t].status = "completed"
    OBVIOUS
  <2> HIDE DEF v, r
  <2>4. Honest(r)
    BY <1>0, <2>1, <2>3 DEF Honest
  <2> QED
    BY <1>3, <2>2, <2>4
<1>12. CASE CommitStep(p)
  <2> DEFINE k == local[p].token
             s == local[p].outcome
             r == [local[p] EXCEPT !.view[k.task] = s,
                      !.terminal = IF s = "blocked" THEN @ \cup {k.task} ELSE @]
  <2>1. CASE Commit(k, s) /\ Then(p, "event", r)
    <3>1. k.task \in Tasks
      BY <1>12, HeldTokens DEF CommitStep, Holding, Token
    <3>2. r.final = local[p].final /\ r.view = [local[p].view EXCEPT ![k.task] = s]
      BY <1>0 DEF Local
    <3>3. reports'[k.task].status = s
      BY <2>1, <3>1 DEF Commit, TypeOK
    <3>4. local' = [local EXCEPT ![p] = r]
      BY <2>1 DEF Then, Remember
    <3>5. local[p].view \in [Tasks -> ReportStatuses \cup {"pending"}]
      BY <1>0 DEF Local
    <3> HIDE DEF r, k, s
    <3>6. \A t \in Tasks : r.view[t] = "completed" => reports'[t].status = "completed"
      BY <1>0, <3>1, <3>2, <3>3, <3>5, HonestStays
    <3>7. r.final = "completed" => AllCompleted'
      BY <1>0, <3>2, HonestStays
    <3> QED
      BY <1>1, <3>4, <3>6, <3>7
  <2> QED
    BY <1>2, <1>12, <2>1 DEF CommitStep
<1>13. CASE Failure(p)
  <2>1. ASSUME NEW v \in {"pending", "failed"},
               local' = [local EXCEPT ![p] = [local[p] EXCEPT !.view[local[p].token.task] = v]]
        PROVE  Goal
    <3> DEFINE r == [local[p] EXCEPT !.view[local[p].token.task] = v]
    <3>1. r.final = local[p].final /\ r.view = [local[p].view EXCEPT ![local[p].token.task] = v]
      BY <1>0 DEF Local
    <3>2. local[p].view \in [Tasks -> ReportStatuses \cup {"pending"}]
      BY <1>0 DEF Local
    <3>3. local' = [local EXCEPT ![p] = r]
      BY <2>1
    <3> HIDE DEF r
    <3>4. Honest(r)
      BY <1>0, <3>1, <3>2 DEF Honest
    <3> QED
      BY <1>3, <3>3, <3>4
  <2> QED
    BY <1>13, <2>1 DEF Failure, Then, Remember
<1>22. ASSUME NEW t, local' = [local EXCEPT ![p] = [local[p] EXCEPT !.todo = @ \ {t}]]
       PROVE  Goal
  <2> DEFINE r == [local[p] EXCEPT !.todo = @ \ {t}]
  <2>1. r.view = local[p].view /\ r.final = local[p].final
    BY <1>0 DEF Local
  <2>2. local' = [local EXCEPT ![p] = r]
    BY <1>22
  <2> HIDE DEF r
  <2> QED
    BY <1>4, <2>1, <2>2
<1>14. CASE \/ Recover(p) \/ RecoverEach(p) \/ Publish(p) \/ Candidates(p)
            \/ Enrich(p) \/ Work(p) \/ CommitFailed(p)
  <2>1. CASE Recover(p)
    <3> DEFINE r == [local[p] EXCEPT !.sampled = now, !.todo = Expired]
    <3>1. r.view = local[p].view /\ r.final = local[p].final
      BY <1>0 DEF Local
    <3>2. local' = [local EXCEPT ![p] = r]
      BY <2>1 DEF Recover, Then, Remember
    <3> HIDE DEF r
    <3> QED
      BY <1>4, <3>1, <3>2
  <2>2. CASE RecoverEach(p)
    <3>1. ASSUME NEW t, local' = [local EXCEPT ![p] =
                     [local[p] EXCEPT !.seen = generation, !.token.task = t]]
          PROVE  Goal
      <4> DEFINE r == [local[p] EXCEPT !.seen = generation, !.token.task = t]
      <4>1. r.view = local[p].view /\ r.final = local[p].final
        BY <1>0 DEF Local
      <4>2. local' = [local EXCEPT ![p] = r]
        BY <3>1
      <4> HIDE DEF r
      <4> QED
        BY <1>4, <4>1, <4>2
    <3> QED
      BY <1>2, <1>22, <2>2, <3>1 DEF RecoverEach, Then, Remember
  <2>3. CASE Publish(p)
    BY <1>2, <1>22, <2>3 DEF Publish, Then, Remember
  <2>4. CASE Candidates(p) \/ Enrich(p)
    <3>1. \E r : /\ local' = [local EXCEPT ![p] = r]
                 /\ r.view = local[p].view /\ r.final = local[p].final
      BY <1>0, <2>4 DEF Candidates, Enrich, Then, Remember, Local
    <3> QED
      BY <1>4, <3>1
  <2>5. CASE Work(p)
    <3>1. ASSUME NEW s, local' = [local EXCEPT ![p] = [local[p] EXCEPT !.outcome = s]]
          PROVE  Goal
      <4> DEFINE r == [local[p] EXCEPT !.outcome = s]
      <4>1. r.view = local[p].view /\ r.final = local[p].final
        BY <1>0 DEF Local
      <4>2. local' = [local EXCEPT ![p] = r]
        BY <3>1
      <4> HIDE DEF r
      <4> QED
        BY <1>4, <4>1, <4>2
    <3> QED
      BY <1>2, <2>5, <3>1 DEF Work, Then, Remember
  <2>6. CASE CommitFailed(p)
    <3> DEFINE r == [local[p] EXCEPT !.terminal = @ \cup {local[p].token.task}]
    <3>1. r.view = local[p].view /\ r.final = local[p].final
      BY <1>0 DEF Local
    <3>2. local' = [local EXCEPT ![p] = r]
      BY <2>6 DEF CommitFailed, Remember
    <3> HIDE DEF r
    <3> QED
      BY <1>4, <3>1, <3>2
  <2> QED
    BY <1>14, <2>1, <2>2, <2>3, <2>4, <2>5, <2>6
<1>15. CASE Drop(p)
  <2> DEFINE r == [local[p] EXCEPT !.todo = @ \ {local[p].token.task}, !.seen = 0, !.token = NoToken]
  <2>1. CASE local' = [local EXCEPT ![p] = r]
    <3>1. r.view = local[p].view /\ r.final = local[p].final
      BY <1>0 DEF Local
    <3> QED
      BY <1>4, <2>1, <3>1
  <2> QED
    BY <1>6, <1>15, <2>1 DEF Drop, Then, Remember
<1>16. CASE ClaimStep(p)
  <2>1. ASSUME NEW t, local' = [local EXCEPT ![p] =
                   [local[p] EXCEPT !.candidates = {}, !.token = NewToken(t, LeaseSeconds)]]
        PROVE  Goal
    <3> DEFINE r == [local[p] EXCEPT !.candidates = {}, !.token = NewToken(t, LeaseSeconds)]
    <3>1. r.view = local[p].view /\ r.final = local[p].final
      BY <1>0 DEF Local
    <3> QED
      BY <1>4, <2>1, <3>1
  <2>2. \/ Then(p, "failLoad", Fresh) \/ Finish(p)
        \/ \E t : Then(p, "enrich", [local[p] EXCEPT !.candidates = {}, !.token = NewToken(t, LeaseSeconds)])
    BY <1>16 DEF ClaimStep
  <2> QED
    BY <1>6, <1>9, <2>1, <2>2 DEF Then, Remember
<1>17. ASSUME NEW a, NEW b, LoadGeneration(p, a, b) PROVE Goal
  <2> DEFINE r == [local[p] EXCEPT !.seen = generation]
  <2>1. r.view = local[p].view /\ r.final = local[p].final
    BY <1>0 DEF Local
  <2>2. local' = [local EXCEPT ![p] = r]
    BY <1>17 DEF LoadGeneration, Then, Remember
  <2> QED
    BY <1>4, <2>1, <2>2
<1>18. CASE ToRunning(p) \/ Reconcile(p) \/ ReadyIds(p) \/ FailEvent(p)
  <2>1. CASE ToRunning(p)
    BY <1>6, <1>7, <2>1 DEF ToRunning, CasTransition
  <2>2. CASE Reconcile(p)
    BY <1>2, <1>6, <1>8, <2>2 DEF Reconcile
  <2>3. CASE ReadyIds(p)
    BY <1>2, <1>9, <2>3 DEF ReadyIds
  <2>4. CASE FailEvent(p)
    BY <1>6, <2>4 DEF FailEvent
  <2> QED
    BY <1>18, <2>1, <2>2, <2>3, <2>4
<1>19. CASE ToFinal(p) \/ ToFailed(p) \/ Crash(p)
  BY <1>6, <1>19 DEF ToFinal, ToFailed, CasTransition, Crash
<1>20. CASE Use(p) \/ Result(p) \/ Retry(p) \/ FailedEventStep(p)
  BY <1>2, <1>20 DEF Use, Result, Retry, FailedEventStep
<1>21. CASE EventStep(p) \/ ReleaseStep(p)
  BY <1>10, <1>21 DEF EventStep, ReleaseStep
<1> QED
  BY <1>5, <1>11, <1>12, <1>13, <1>14, <1>15, <1>16, <1>17, <1>18, <1>19, <1>20, <1>21 DEF Step

(* A step that gives the run the status completed does so by a verdict.    *)
LEMMA StatusIsVerdict ==
    ASSUME StoreStep, NEW p \in Procs, Start(p) \/ Step(p) \/ Crash(p),
           status' # status, status' = "completed"
    PROVE  local[p].final = "completed"
BY DEF Step, Start, Crash, Recover, RecoverEach, Drop, LoadGeneration, ToRunning, CasTransition,
   Reconcile, Hydrate, Publish, PublishIfAbsent, ReadyIds, Candidates, ClaimStep, Enrich, Use,
   Work, Result, CommitStep, EventStep, Failure, Retry, CommitFailed, FailedEventStep,
   ReleaseStep, ToFinal, FailEvent, ToFailed, UnchangedStore, store, Transition,
   AppendTerminalEvent, AppendEvent, DropStale, ClaimMany, Commit, Release

LEMMA NextVerdictInv ==
    ASSUME TypeOK, ControlInv, LeaseInv, VerdictInv, [FleetNext]_fleetVars
    PROVE  VerdictInv'
<1>1. StoreStep
  BY FleetStep
<1>2. /\ AllCompleted => AllCompleted'
      /\ \A p \in Procs :
             /\ \A t \in Tasks : local[p].view[t] = "completed" => reports'[t].status = "completed"
             /\ local[p].final = "completed" => AllCompleted'
  <2>1. ASSUME NEW p \in Procs
        PROVE  /\ \A t \in Tasks : local[p].view[t] = "completed" => reports'[t].status = "completed"
               /\ local[p].final = "completed" => AllCompleted'
    BY <1>1, HonestStays DEF VerdictInv
  <2>2. AllCompleted => AllCompleted'
    BY <1>1, FreshIsHonest, HonestStays
  <2> QED
    BY <2>1, <2>2
<1>3. CASE UNCHANGED fleetVars
  BY <1>3 DEF fleetVars, VerdictInv, Honest, AllCompleted, CompletedMeansAll
<1>4. CASE Tick
  BY <1>4 DEF Tick, store, VerdictInv, Honest, AllCompleted, CompletedMeansAll
<1>5. ASSUME NEW p \in Procs, Start(p) \/ Step(p) \/ Crash(p) PROVE VerdictInv'
  <2>1. /\ \A q \in Procs : q # p => local'[q] = local[q]
        /\ \A t \in Tasks : local'[p].view[t] = "completed" => reports'[t].status = "completed"
        /\ local'[p].final = "completed" => AllCompleted'
    BY <1>1, <1>5, StepIsHonest
  <2>2. \A q \in Procs : Honest(local[q])'
    BY <1>2, <2>1 DEF Honest
  <2>3. status' = "completed" => AllCompleted'
    <3>1. CASE status' = status
      BY <1>2, <3>1 DEF VerdictInv, CompletedMeansAll, AllCompleted
    <3>2. CASE status' # status
      BY <1>1, <1>2, <1>5, <3>2, StatusIsVerdict
    <3> QED
      BY <3>1, <3>2
  <2> QED
    BY <2>2, <2>3 DEF VerdictInv, CompletedMeansAll, AllCompleted
<1> QED
  BY <1>3, <1>4, <1>5 DEF FleetNext

(* A run is called completed only when every task has a completed report,  *)
(* whatever each of the invocations took for the state of the run.         *)
THEOREM FleetVerdict == FleetSpec => []CompletedMeansAll
<1>1. FleetInit => VerdictInv
  <2> SUFFICES ASSUME FleetInit PROVE VerdictInv
    OBVIOUS
  <2>1. CompletedMeansAll
    BY DEF FleetInit, Init, CompletedMeansAll
  <2>2. \A p \in Procs : Honest(local[p])
    BY FreshIsHonest DEF FleetInit
  <2> QED
    BY <2>1, <2>2 DEF VerdictInv
<1>2. TypeOK /\ ControlInv /\ LeaseInv /\ VerdictInv /\ [FleetNext]_fleetVars => VerdictInv'
  BY NextVerdictInv
<1>3. VerdictInv => CompletedMeansAll
  BY DEF VerdictInv
<1> QED
  BY <1>1, <1>2, <1>3, ControlInvariant, FleetLeaseInvariant, PTL DEF FleetSpec

-----------------------------------------------------------------------------
(* Who holds what: two invocations that hold tokens of one task hold       *)
(* different ones, the token of a worker is the lease in force for as long *)
(* as it has not expired, and the time recover_stale sampled is past.      *)
TokensDiffer ==
    \A p, q \in Procs :
        /\ p # q
        /\ pc[p] \in Holding /\ pc[q] \in Holding
        /\ local[p].token.task = local[q].token.task
        => local[p].token.generation # local[q].token.generation

Fenced(k) == leases[k.task] = [generation |-> k.generation, expires |-> k.expires]

WorkersInForce ==
    \A p \in Procs :
        pc[p] = "working" /\ local[p].token.expires > now => Fenced(local[p].token)

SampledInPast ==
    \A p \in Procs : pc[p] \in {"recoverEach", "drop"} => local[p].sampled <= now

OwnerInv == TokensDiffer /\ WorkersInForce /\ SampledInPast

(* What one section of an invocation does to what it holds: it keeps its   *)
(* token or gets a new one, starts to work only with the lease in force,   *)
(* and samples the time of now.                                            *)
LEMMA StepOwns ==
    ASSUME TypeOK, ControlInv, SampledInPast, NEW p \in Procs, Start(p) \/ Step(p) \/ Crash(p)
    PROVE  /\ \A q \in Procs : q # p => local'[q] = local[q] /\ pc'[q] = pc[q]
           /\ pc'[p] \in Holding =>
                  \/ pc[p] \in Holding /\ local'[p].token = local[p].token
                  \/ local'[p].token.generation = generation + 1
           /\ pc'[p] \in {"recoverEach", "drop"} => local'[p].sampled <= now
           /\ pc'[p] = "working" => CheckToken(local'[p].token) /\ leases' = leases
<1> DEFINE Others == \A q \in Procs : q # p => local'[q] = local[q] /\ pc'[q] = pc[q]
           Tokens == pc'[p] \in Holding =>
                         \/ pc[p] \in Holding /\ local'[p].token = local[p].token
                         \/ local'[p].token.generation = generation + 1
           Samples == pc'[p] \in {"recoverEach", "drop"} => local'[p].sampled <= now
           Starts == pc'[p] = "working" => CheckToken(local'[p].token) /\ leases' = leases
           Goal == Others /\ Tokens /\ Samples /\ Starts
<1> SUFFICES Goal
  OBVIOUS
<1>0. /\ local \in [Procs -> Local] /\ local[p] \in Local
      /\ pc \in [Procs -> Sections \cup {"idle"}]
  BY DEF ControlInv
<1>1. ASSUME NEW r, NEW s, Then(p, s, r), s \notin Holding, s \notin {"recoverEach", "drop"} PROVE Goal
  BY <1>0, <1>1 DEF Then, Goto, Remember, Holding
<1>2. ASSUME NEW s, Goto(p, s), UNCHANGED local, s \notin Holding, s \notin {"recoverEach", "drop"} PROVE Goal
  BY <1>0, <1>2 DEF Goto, Holding
<1>3. ASSUME NEW r, NEW s, Then(p, s, r), pc[p] \in Holding, r.token = local[p].token,
             s \notin {"working", "recoverEach", "drop"}
      PROVE  Goal
  BY <1>0, <1>3 DEF Then, Goto, Remember
<1>4. ASSUME NEW s, Goto(p, s), UNCHANGED local, pc[p] \in Holding,
             s \notin {"working", "recoverEach", "drop"}
      PROVE  Goal
  BY <1>0, <1>4 DEF Goto
<1>5. ASSUME NEW r, NEW s, Then(p, s, r), r.sampled <= now, s \in {"recoverEach", "drop"} PROVE Goal
  BY <1>0, <1>5 DEF Then, Goto, Remember, Holding
<1>6. CASE UNCHANGED <<pc, local>> /\ pc[p] = "idle"
  BY <1>6 DEF Holding
<1> HIDE DEF Goal
<1>7. CASE Start(p)
  BY <1>1, <1>6, <1>7 DEF Start, Holding
<1>8. CASE Exit(p) \/ Then(p, "failLoad", Fresh) \/ Then(p, "failReload", Fresh) \/ Finish(p) \/ NextRound(p)
  BY <1>1, <1>8 DEF Exit, Finish, NextRound, Holding
<1>9. CASE Recover(p)
  <2> DEFINE r == [local[p] EXCEPT !.sampled = now, !.todo = Expired]
  <2>1. r.sampled <= now
    BY <1>0 DEF Local, TypeOK
  <2>2. Then(p, "recoverEach", r)
    BY <1>9 DEF Recover
  <2> HIDE DEF r
  <2> QED
    BY <1>5, <2>1, <2>2
<1>10. CASE RecoverEach(p)
  <2>1. local[p].sampled <= now
    BY <1>10 DEF RecoverEach, SampledInPast
  <2>2. ASSUME NEW t, Then(p, "drop", [local[p] EXCEPT !.seen = generation, !.token.task = t]) PROVE Goal
    <3> DEFINE r == [local[p] EXCEPT !.seen = generation, !.token.task = t]
    <3>1. r.sampled = local[p].sampled
      BY <1>0 DEF Local
    <3>2. Then(p, "drop", r)
      BY <2>2
    <3> HIDE DEF r
    <3> QED
      BY <1>5, <2>1, <3>1, <3>2
  <2>3. ASSUME NEW t, Then(p, "recoverEach", [local[p] EXCEPT !.todo = @ \ {t}]) PROVE Goal
    <3> DEFINE r == [local[p] EXCEPT !.todo = @ \ {t}]
    <3>1. r.sampled = local[p].sampled
      BY <1>0 DEF Local
    <3>2. Then(p, "recoverEach", r)
      BY <2>3
    <3> HIDE DEF r
    <3> QED
      BY <1>5, <2>1, <3>1, <3>2
  <2> QED
    BY <1>2, <1>10, <2>2, <2>3 DEF RecoverEach, Holding
<1>11. CASE Drop(p)
  <2> DEFINE r == [local[p] EXCEPT !.todo = @ \ {local[p].token.task}, !.seen = 0, !.token = NoToken]
  <2>1. local[p].sampled <= now
    BY <1>11 DEF Drop, SampledInPast
  <2>2. r.sampled = local[p].sampled
    BY <1>0 DEF Local
  <2>3. Exit(p) \/ Then(p, "recoverEach", r)
    BY <1>11 DEF Drop
  <2> HIDE DEF r
  <2> QED
    BY <1>5, <1>8, <2>1, <2>2, <2>3
<1>12. CASE ToRunning(p) \/ ToFinal(p) \/ ToFailed(p)
  BY <1>1, <1>8, <1>12 DEF ToRunning, ToFinal, ToFailed, CasTransition, Holding
<1>13. ASSUME NEW a, NEW b, LoadGeneration(p, a, b), b \in {"toRunning", "toFinal", "failEvent", "toFailed"}
       PROVE  Goal
  BY <1>1, <1>13 DEF LoadGeneration, Holding
<1>14. CASE Reconcile(p)
  BY <1>1, <1>2, <1>14 DEF Reconcile, Holding
<1>15. CASE Hydrate(p) \/ Publish(p) \/ Candidates(p)
  <2>1. CASE Hydrate(p) \/ Candidates(p)
    BY <1>1, <2>1 DEF Hydrate, Candidates, Holding
  <2>2. CASE Publish(p)
    BY <1>1, <1>2, <2>2 DEF Publish, Holding
  <2> QED
    BY <1>15, <2>1, <2>2
<1>16. CASE ReadyIds(p)
  BY <1>2, <1>8, <1>16 DEF ReadyIds, Holding
<1>17. CASE ClaimStep(p)
  <2>1. ASSUME NEW t,
               Then(p, "enrich", [local[p] EXCEPT !.candidates = {}, !.token = NewToken(t, LeaseSeconds)])
        PROVE  Goal
    <3> DEFINE r == [local[p] EXCEPT !.candidates = {}, !.token = NewToken(t, LeaseSeconds)]
    <3>1. r.token.generation = generation + 1
      BY <1>0 DEF Local, NewToken
    <3>2. Then(p, "enrich", r)
      BY <2>1
    <3> HIDE DEF r
    <3> QED
      BY <1>0, <3>1, <3>2 DEF Goal, Then, Goto, Remember, Holding
  <2> QED
    BY <1>8, <1>17, <2>1 DEF ClaimStep
<1>18. CASE Enrich(p)
  <2> DEFINE r == [local[p] EXCEPT !.attempt = attempts[local[p].token.task]]
  <2>1. r.token = local[p].token
    BY <1>0 DEF Local
  <2>2. Then(p, "use", r) /\ pc[p] \in Holding
    BY <1>18 DEF Enrich, Holding
  <2> HIDE DEF r
  <2> QED
    BY <1>3, <2>1, <2>2
<1>19. CASE Use(p)
  <2>1. CASE CheckToken(local[p].token)
    BY <1>0, <1>19, <2>1 DEF Use, Goal, Goto, Holding, UnchangedStore, store
  <2>2. CASE ~CheckToken(local[p].token)
    BY <1>4, <1>19, <2>2 DEF Use, Holding
  <2> QED
    BY <2>1, <2>2
<1>20. CASE Work(p)
  <2>1. ASSUME NEW s, Then(p, "result", [local[p] EXCEPT !.outcome = s]) PROVE Goal
    <3> DEFINE r == [local[p] EXCEPT !.outcome = s]
    <3>1. r.token = local[p].token
      BY <1>0 DEF Local
    <3>2. Then(p, "result", r) /\ pc[p] \in Holding
      BY <1>20, <2>1 DEF Work, Holding
    <3> HIDE DEF r
    <3> QED
      BY <1>3, <3>1, <3>2
  <2> QED
    BY <1>4, <1>20, <2>1 DEF Work, Holding
<1>21. CASE Result(p) \/ Retry(p) \/ FailedEventStep(p)
  BY <1>4, <1>21 DEF Result, Retry, FailedEventStep, Holding
<1>22. CASE CommitStep(p)
  <2> DEFINE k == local[p].token
             s == local[p].outcome
             r == [local[p] EXCEPT !.view[k.task] = s,
                      !.terminal = IF s = "blocked" THEN @ \cup {k.task} ELSE @]
  <2>1. r.token = local[p].token
    BY <1>0 DEF Local
  <2>2. Then(p, "event", r) \/ (Goto(p, "failure") /\ UNCHANGED local)
    BY <1>22 DEF CommitStep
  <2>3. pc[p] \in Holding
    BY <1>22 DEF CommitStep, Holding
  <2> HIDE DEF r
  <2> QED
    BY <1>3, <1>4, <2>1, <2>2, <2>3
<1>23. CASE EventStep(p) \/ ReleaseStep(p) \/ FailEvent(p) \/ Crash(p)
  BY <1>8, <1>23 DEF EventStep, ReleaseStep, FailEvent, Crash
<1>24. CASE Failure(p)
  <2>1. ASSUME NEW s \in {"retry", "commitFailed"}, NEW v,
               Then(p, s, [local[p] EXCEPT !.view[local[p].token.task] = v])
        PROVE  Goal
    <3> DEFINE r == [local[p] EXCEPT !.view[local[p].token.task] = v]
    <3>1. r.token = local[p].token
      BY <1>0 DEF Local
    <3>2. Then(p, s, r) /\ pc[p] \in Holding
      BY <1>24, <2>1 DEF Failure, Holding
    <3> HIDE DEF r
    <3> QED
      BY <1>3, <3>1, <3>2
  <2> QED
    BY <1>24, <2>1 DEF Failure
<1>25. CASE CommitFailed(p)
  <2> DEFINE r == [local[p] EXCEPT !.terminal = @ \cup {local[p].token.task}]
  <2>1. r.token = local[p].token
    BY <1>0 DEF Local
  <2>2. Then(p, "failedEvent", r) \/ Then(p, "release", r)
    BY <1>25 DEF CommitFailed, Then
  <2>3. pc[p] \in Holding
    BY <1>25 DEF CommitFailed, Holding
  <2> HIDE DEF r
  <2> QED
    BY <1>3, <2>1, <2>2, <2>3
<1> QED
  BY <1>7, <1>9, <1>10, <1>11, <1>12, <1>13, <1>14, <1>15, <1>16, <1>17, <1>18, <1>19, <1>20,
     <1>21, <1>22, <1>23, <1>24, <1>25 DEF Step

(* A lease that has not expired is taken away by its holder only.          *)
LEMMA ActiveLeaseStays ==
    ASSUME TypeOK, ControlInv, SampledInPast, NEW p \in Procs, Start(p) \/ Step(p) \/ Crash(p)
    PROVE  /\ now' = now
           /\ \A t \in Tasks : Active(t) =>
                  \/ leases'[t] = leases[t]
                  \/ /\ pc[p] \in Holding /\ CheckToken(local[p].token)
                     /\ local[p].token.task = t
<1> DEFINE Kind == /\ now' = now
                   /\ \A t \in Tasks : Active(t) =>
                          \/ leases'[t] = leases[t]
                          \/ /\ pc[p] \in Holding /\ CheckToken(local[p].token)
                             /\ local[p].token.task = t
<1>0. leases \in [Tasks -> Lease] /\ now \in Nat
  BY DEF TypeOK
<1>1. CASE leases' = leases /\ now' = now
  BY <1>1
<1>2. CASE Drop(p)
  <2>1. CASE DropStale(local[p].token.task, local[p].sampled, local[p].seen)
    <3>1. local[p].sampled <= now /\ local[p].sampled \in Nat
      BY <1>2 DEF Drop, SampledInPast, ControlInv, Local
    <3>2. ASSUME NEW t \in Tasks, Active(t) PROVE leases'[t] = leases[t]
      <4>1. leases[t].expires > now /\ leases[t].expires \in Nat
        BY <1>0, <3>2 DEF Active, Lease
      <4> QED
        BY <1>0, <2>1, <3>1, <4>1 DEF DropStale
    <3> QED
      BY <2>1, <3>2 DEF DropStale
  <2> QED
    BY <1>1, <1>2, <2>1 DEF Drop, UnchangedStore, store
<1>3. CASE ClaimStep(p)
  <2>1. ASSUME NEW ids, NEW c, ClaimMany(ids, c, LeaseSeconds) PROVE Kind
    BY <2>1 DEF ClaimMany, Kept
  <2> QED
    BY <1>1, <1>3, <2>1 DEF ClaimStep, UnchangedStore, store
<1>4. CASE CommitStep(p) \/ CommitFailed(p)
  <2>1. pc[p] \in Holding /\ local[p].token.task \in Tasks
    BY <1>4, HeldTokens DEF CommitStep, CommitFailed, Holding, Token
  <2>2. ASSUME NEW s, Commit(local[p].token, s) PROVE Kind
    BY <1>0, <2>1, <2>2 DEF Commit
  <2> QED
    BY <1>1, <1>4, <2>2 DEF CommitStep, CommitFailed, UnchangedStore, store
<1>5. CASE ReleaseStep(p)
  <2>1. pc[p] \in Holding /\ local[p].token.task \in Tasks
    BY <1>5, HeldTokens DEF ReleaseStep, Holding, Token
  <2>2. CASE Release(local[p].token)
    BY <1>0, <2>1, <2>2 DEF Release
  <2> QED
    BY <1>1, <1>5, <2>2 DEF ReleaseStep, UnchangedStore, store
<1>6. CASE Start(p) \/ Crash(p)
  BY <1>1, <1>6 DEF Start, Crash, UnchangedStore, store
<1>7. CASE \/ Recover(p) \/ RecoverEach(p) \/ Reconcile(p) \/ Hydrate(p) \/ ReadyIds(p)
           \/ Candidates(p) \/ Enrich(p) \/ Use(p) \/ Work(p) \/ Result(p) \/ Failure(p)
           \/ \E a, b : LoadGeneration(p, a, b)
  BY <1>1, <1>7 DEF Recover, RecoverEach, Reconcile, Hydrate, ReadyIds, Candidates, Enrich, Use,
     Work, Result, Failure, LoadGeneration, UnchangedStore, store
<1>8. CASE \/ ToRunning(p) \/ Publish(p) \/ EventStep(p) \/ Retry(p) \/ FailedEventStep(p)
           \/ ToFinal(p) \/ FailEvent(p) \/ ToFailed(p)
  BY <1>1, <1>8 DEF ToRunning, Publish, EventStep, Retry, FailedEventStep, ToFinal, FailEvent,
     ToFailed, CasTransition, PublishIfAbsent, Transition, AppendEvent, AppendTerminalEvent,
     UnchangedStore, store
<1> QED
  BY <1>2, <1>3, <1>4, <1>5, <1>6, <1>7, <1>8 DEF Step

LEMMA NextOwnerInv ==
    ASSUME LeaseInv, ControlInv, OwnerInv, [FleetNext]_fleetVars
    PROVE  OwnerInv'
<1>0. /\ TypeOK /\ now \in Nat /\ generation \in Nat /\ leases \in [Tasks -> Lease]
      /\ TokensDiffer /\ WorkersInForce /\ SampledInPast
      /\ pc \in [Procs -> Sections \cup {"idle"}] /\ local \in [Procs -> Local]
  BY DEF LeaseInv, TypeOK, OwnerInv, ControlInv
<1>1. CASE UNCHANGED fleetVars
  BY <1>0, <1>1 DEF fleetVars, OwnerInv, TokensDiffer, WorkersInForce, SampledInPast, Fenced
<1>2. CASE Tick
  <2>1. /\ now' = now + 1 /\ pc' = pc /\ local' = local /\ leases' = leases
    BY <1>2 DEF Tick, store
  <2>2. TokensDiffer'
    BY <1>0, <2>1 DEF TokensDiffer
  <2>3. \A p \in Procs : local[p].token.expires \in Nat /\ local[p].sampled \in Nat
    BY <1>0 DEF Local
  <2>4. WorkersInForce'
    BY <1>0, <2>1, <2>3 DEF WorkersInForce, Fenced
  <2>5. SampledInPast'
    BY <1>0, <2>1, <2>3 DEF SampledInPast
  <2> QED
    BY <2>2, <2>4, <2>5 DEF OwnerInv
<1>3. ASSUME NEW p \in Procs, Start(p) \/ Step(p) \/ Crash(p) PROVE OwnerInv'
  <2>1. /\ \A q \in Procs : q # p => local'[q] = local[q] /\ pc'[q] = pc[q]
        /\ pc'[p] \in Holding =>
               \/ pc[p] \in Holding /\ local'[p].token = local[p].token
               \/ local'[p].token.generation = generation + 1
        /\ pc'[p] \in {"recoverEach", "drop"} => local'[p].sampled <= now
        /\ pc'[p] = "working" => CheckToken(local'[p].token) /\ leases' = leases
    BY <1>0, <1>3, StepOwns
  <2>2. /\ now' = now
        /\ \A t \in Tasks : Active(t) =>
               \/ leases'[t] = leases[t]
               \/ /\ pc[p] \in Holding /\ CheckToken(local[p].token)
                  /\ local[p].token.task = t
    BY <1>0, <1>3, ActiveLeaseStays
  <2>3. \A q \in Procs : pc[q] \in Holding =>
            /\ local[q].token \in Token
            /\ local[q].token.generation <= generation
    BY <1>0, HeldTokens DEF LeaseInv, TokensAccounted
  <2>4. \A q \in Procs : pc[q] \in Holding =>
            local[q].token.generation \in Nat /\ local[q].token.generation # generation + 1
    BY <1>0, <2>3 DEF Token
  <2>5. TokensDiffer'
    <3> SUFFICES ASSUME NEW q \in Procs, q # p, pc'[p] \in Holding, pc[q] \in Holding,
                        local'[p].token.task = local[q].token.task
                 PROVE  local'[p].token.generation # local[q].token.generation
      BY <1>0, <2>1 DEF TokensDiffer
    <3> QED
      BY <1>0, <2>1, <2>4 DEF TokensDiffer
  <2>6. WorkersInForce'
    <3> SUFFICES ASSUME NEW q \in Procs, pc'[q] = "working", local'[q].token.expires > now
                 PROVE  leases'[local'[q].token.task] =
                          [generation |-> local'[q].token.generation, expires |-> local'[q].token.expires]
      BY <2>2 DEF WorkersInForce, Fenced
    <3>1. CASE q = p
      BY <2>1, <3>1 DEF CheckToken
    <3>2. CASE q # p
      <4> DEFINE k == local[q].token
      <4>1. pc[q] = "working" /\ local'[q].token = k /\ k.expires > now
        BY <2>1, <3>2
      <4>2. leases[k.task] = [generation |-> k.generation, expires |-> k.expires]
        BY <1>0, <4>1 DEF WorkersInForce, Fenced
      <4>3. k.task \in Tasks /\ pc[q] \in Holding /\ k.expires \in Nat
        BY <2>3, <4>1 DEF Holding, Token
      <4> HIDE DEF k
      <4>4. Active(k.task)
        BY <1>0, <4>1, <4>2, <4>3 DEF Active, Leased, NoLease
      <4>5. ASSUME pc[p] \in Holding, CheckToken(local[p].token), local[p].token.task = k.task PROVE FALSE
        <5>1. local[p].token.generation = k.generation
          BY <4>2, <4>5 DEF CheckToken
        <5> QED
          BY <1>0, <3>2, <4>3, <4>5, <5>1 DEF TokensDiffer, k
      <4> QED
        BY <2>2, <4>1, <4>2, <4>3, <4>4, <4>5
    <3> QED
      BY <3>1, <3>2
  <2>7. SampledInPast'
    BY <1>0, <2>1, <2>2 DEF SampledInPast
  <2> QED
    BY <2>5, <2>6, <2>7 DEF OwnerInv
<1> QED
  BY <1>1, <1>2, <1>3 DEF FleetNext

(* Of two workers on one task, the lease of one has run out: however many  *)
(* invocations recover, claim, fail and are killed around them.            *)
THEOREM FleetOverlap == FleetSpec => []OverlapOnlyAfterExpiry
<1>1. FleetInit => OwnerInv
  <2> SUFFICES ASSUME FleetInit PROVE OwnerInv
    OBVIOUS
  <2>1. \A p \in Procs : pc[p] = "idle"
    BY DEF FleetInit
  <2> QED
    BY <2>1 DEF OwnerInv, TokensDiffer, WorkersInForce, SampledInPast, Holding
<1>2. LeaseInv /\ ControlInv /\ OwnerInv /\ [FleetNext]_fleetVars => OwnerInv'
  BY NextOwnerInv
<1>3. LeaseInv /\ ControlInv /\ OwnerInv => OverlapOnlyAfterExpiry
  <2> SUFFICES ASSUME LeaseInv, ControlInv, OwnerInv,
                      NEW p \in Procs, NEW q \in Procs, p # q,
                      pc[p] = "working", pc[q] = "working",
                      local[p].token.task = local[q].token.task,
                      ~(local[p].token.expires <= now), ~(local[q].token.expires <= now)
               PROVE  FALSE
    BY DEF OverlapOnlyAfterExpiry
  <2>1. local[p].token \in Token /\ local[q].token \in Token /\ now \in Nat
    BY HeldTokens DEF LeaseInv, TypeOK, Holding
  <2>2. local[p].token.expires > now /\ local[q].token.expires > now
    BY <2>1 DEF Token
  <2>3. Fenced(local[p].token) /\ Fenced(local[q].token)
    BY <2>2 DEF OwnerInv, WorkersInForce
  <2>4. local[p].token.generation = local[q].token.generation
    BY <2>3 DEF Fenced
  <2> QED
    BY <2>4 DEF OwnerInv, TokensDiffer, Holding
<1> QED
  BY <1>1, <1>2, <1>3, ControlInvariant, FleetLeaseInvariant, PTL DEF FleetSpec
=============================================================================
