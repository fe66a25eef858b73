--------------------------- MODULE Runtimes_proofs ---------------------------
(***************************************************************************)
(* For any number of tasks, threads and runs, any process and any number   *)
(* of callers and keys: the pool never holds more submissions than it has  *)
(* threads, a provider's success is the success of a process whose output  *)
(* was read to the end, and the agent runtime dispatches once and never    *)
(* gives two answers under one key.                                        *)
(***************************************************************************)
EXTENDS Runtimes, TLAPS, FiniteSetTheorems

(* The pool of threads.                                                    *)

Loop == {"head", "wait", "collect"}
Busy == queued \cup live

(* In the loop every busy item is of this run, and its future is known and *)
(* not done.                                                               *)
LoopInv ==
    /\ ~poisoned /\ pending \cap ended = {}
    /\ \A i \in Busy : i[1] = runs /\ i[2] \in futures \ ended

(* While futures are abandoned, an item that lost its future runs in a     *)
(* thread, and that was noticed.                                           *)
AbandonInv ==
    /\ verdict \in {"cancelled", "timeout"}
    /\ \A i \in Busy : i[1] = runs
    /\ \A i \in queued : i[2] \in futures
    /\ \A i \in live : i[2] \in futures \/ nonCooperative

PoolTypeOK ==
    /\ TypeOK /\ runs \in 0..MaxRuns /\ verdict \in Statuses \cup {"none"}
    /\ nonCooperative \in BOOLEAN /\ poisoned \in BOOLEAN

(* Between runs a pool that may be used again is empty.                    *)
PoolInv ==
    /\ PoolTypeOK
    /\ queued \cap live = {} /\ SubmissionsBounded /\ Cardinality(futures) <= MaxWorkers
    /\ pc # "idle" => runs > 0
    /\ pc # "collect" => batch = {}
    /\ pc = "collect" => batch \subseteq ended
    /\ pc \in Loop => LoopInv
    /\ pc = "abandon" => AbandonInv
    /\ pc \in {"idle", "return"} /\ ~poisoned => Busy = {}

(* All of the sets are finite.                                             *)
LEMMA PoolFinite ==
    ASSUME PoolTypeOK
    PROVE  /\ IsFiniteSet(queued) /\ Cardinality(queued) \in Nat
           /\ IsFiniteSet(live) /\ Cardinality(live) \in Nat
           /\ IsFiniteSet(futures) /\ Cardinality(futures) \in Nat
<1>1. IsFiniteSet(1..MaxRuns)
  BY RunsAssumption, FS_Interval
<1>2. IsFiniteSet((1..MaxRuns) \X Tasks)
  BY <1>1, TasksAssumption, FS_Product
<1>3. IsFiniteSet(queued) /\ IsFiniteSet(live)
  BY <1>2, FS_Subset DEF PoolTypeOK, TypeOK
<1>4. IsFiniteSet(futures)
  BY TasksAssumption, FS_Subset DEF PoolTypeOK, TypeOK
<1> QED
  BY <1>3, <1>4, FS_CardinalityType

LEMMA PoolInitInv == Init => PoolInv
<1> SUFFICES ASSUME Init PROVE PoolInv
  OBVIOUS
<1>1. PoolTypeOK
  <2>1. results \in [Tasks -> Statuses \cup {"none"}] /\ verdict \in Statuses \cup {"none"}
    BY DEF Init, NoResults
  <2>2. runs \in 0..MaxRuns
    BY RunsAssumption DEF Init
  <2>3. TypeOK
    BY <2>1 DEF Init, TypeOK
  <2> QED
    BY <2>1, <2>2, <2>3 DEF Init, PoolTypeOK
<1>2. Cardinality({}) = 0
  BY FS_EmptySet
<1>3. SubmissionsBounded /\ Cardinality(futures) <= MaxWorkers
  BY <1>2, WorkersAssumption DEF Init, SubmissionsBounded
<1> QED
  BY <1>1, <1>3 DEF Init, PoolInv, Loop, Busy

(* A run that submits starts from an empty pool.                           *)
LEMMA RunKeeps ==
    ASSUME PoolInv, NEW cancelled \in BOOLEAN, NEW timeout \in BOOLEAN, NEW bad \in SUBSET Tasks,
           Run(cancelled, timeout, bad)
    PROVE  PoolInv'
<1>1. /\ pc = "idle" /\ runs \in Nat /\ runs < MaxRuns /\ runs' = runs + 1
      /\ results' \in [Tasks -> Statuses \cup {"none"}]
      /\ ended' = {} /\ batch' = {} /\ verdict' = "none" /\ nonCooperative' = FALSE
      /\ UNCHANGED <<poisoned, closed, live>>
  BY DEF Run, PoolInv, PoolTypeOK, Statuses
<1>2. runs' \in 0..MaxRuns /\ runs' \in 1..MaxRuns
  BY <1>1, RunsAssumption
<1>3. live \subseteq (1..MaxRuns) \X Tasks /\ queued \subseteq (1..MaxRuns) \X Tasks
  BY DEF PoolInv, PoolTypeOK, TypeOK
<1>4. CASE cancelled
  <2>1. pc' = "return" /\ pending' = {} /\ futures' = {} /\ UNCHANGED queued
    BY <1>4 DEF Run
  <2>2. PoolTypeOK'
    BY <1>1, <1>2, <1>3, <2>1 DEF PoolInv, PoolTypeOK, TypeOK
  <2>3. Cardinality(futures') <= MaxWorkers
    BY <2>1, FS_EmptySet, WorkersAssumption
  <2> QED
    BY <1>1, <2>1, <2>2, <2>3 DEF PoolInv, SubmissionsBounded, Busy, Loop
<1>5. CASE ~cancelled
  <2>1. PICK first \in SUBSET (Tasks \ bad) :
            /\ Cardinality(first) = Min({MaxWorkers, Cardinality(Tasks \ bad)})
            /\ pending' = (Tasks \ bad) \ first
            /\ futures' = first
            /\ queued' = queued \cup ({runs + 1} \X first)
            /\ pc' = "head"
    BY <1>5 DEF Run
  <2>2. ~poisoned /\ queued = {} /\ live = {}
    BY <1>1, <1>5 DEF Run, PoolInv, Busy
  <2>3. IsFiniteSet(first) /\ Cardinality(Tasks \ bad) \in Nat
    BY TasksAssumption, FS_Subset, FS_CardinalityType
  <2>4. Cardinality(first) <= MaxWorkers /\ Cardinality(first) \in Nat
    <3>1. Cardinality(first) \in Nat
      BY <2>3, FS_CardinalityType
    <3>2. ASSUME NEW m \in Nat, NEW n \in Nat PROVE Min({m, n}) <= m
      BY DEF Min
    <3> QED
      BY <2>1, <2>3, <3>1, <3>2, WorkersAssumption
  <2>5. queued' = {runs'} \X first /\ live' = {}
    BY <1>1, <2>1, <2>2
  <2>6. Cardinality({runs'} \X first) = Cardinality(first)
    <3>1. IsFiniteSet({runs'}) /\ Cardinality({runs'}) = 1
      BY FS_Singleton
    <3>2. Cardinality({runs'} \X first) = Cardinality({runs'}) * Cardinality(first)
      BY <2>3, <3>1, FS_Product
    <3> QED
      BY <2>4, <3>1, <3>2
  <2>7. PoolTypeOK'
    BY <1>1, <1>2, <2>1, <2>2, <2>5 DEF PoolInv, PoolTypeOK, TypeOK
  <2>8. SubmissionsBounded'
    BY <2>4, <2>5, <2>6, FS_EmptySet, WorkersAssumption DEF SubmissionsBounded
  <2>9. LoopInv'
    BY <1>1, <2>1, <2>2, <2>5 DEF LoopInv, Busy
  <2> QED
    BY <1>1, <2>1, <2>4, <2>5, <2>7, <2>8, <2>9 DEF PoolInv, Busy, Loop
<1> QED
  BY <1>4, <1>5

(* One future is replaced by another, whose item takes the place of one    *)
(* that is done.                                                           *)
LEMMA CollectKeeps == ASSUME PoolInv, Collect PROVE PoolInv'
<1>1. /\ pc = "collect" /\ PoolTypeOK /\ LoopInv /\ batch \subseteq ended
      /\ UNCHANGED <<runs, verdict, nonCooperative, poisoned, closed, live, ended>>
  BY DEF Collect, PoolInv, Loop, world
<1>2. CASE batch = {}
  <2>1. pc' = "head" /\ UNCHANGED <<pending, futures, batch, results, queued>>
    BY <1>2 DEF Collect
  <2> QED
    BY <1>1, <1>2, <2>1 DEF PoolInv, PoolTypeOK, TypeOK, LoopInv, Busy, SubmissionsBounded, Loop
<1>3. CASE batch # {}
  <2>1. PICK t \in batch, s \in {"completed", "failed", "timeout"} :
            /\ UNCHANGED pc
            /\ batch' = batch \ {t}
            /\ results' = [results EXCEPT ![t] = s]
            /\ \/ ~Overdue /\ SubmitOne(t)
               \/ /\ Overdue \/ pending = {}
                  /\ futures' = futures \ {t}
                  /\ UNCHANGED <<pending, queued>>
    BY <1>3 DEF Collect
  <2>2. /\ t \in futures /\ t \in ended /\ t \in Tasks /\ pending \subseteq Tasks
        /\ futures \subseteq Tasks \ pending /\ batch \subseteq futures
        /\ queued \subseteq (1..MaxRuns) \X Tasks
    BY <1>1 DEF PoolTypeOK, TypeOK
  <2>3. results' \in [Tasks -> Statuses \cup {"none"}]
    BY <1>1, <2>1, <2>2 DEF PoolTypeOK, TypeOK, Statuses
  <2>4. \A i \in Busy : i[1] = runs /\ i[2] \in (futures \ {t}) \ ended
    BY <1>1, <2>2 DEF LoopInv
  <2>5. IsFiniteSet(futures) /\ Cardinality(futures) \in Nat /\ Cardinality(futures) <= MaxWorkers
    BY <1>1, PoolFinite DEF PoolInv
  <2>6. Cardinality(futures \ {t}) = Cardinality(futures) - 1 /\ IsFiniteSet(futures \ {t})
    BY <2>2, <2>5, FS_RemoveElement
  <2>7. CASE futures' = futures \ {t} /\ UNCHANGED <<pending, queued>>
    <3>1. PoolTypeOK'
      BY <1>1, <2>1, <2>2, <2>3, <2>7 DEF PoolTypeOK, TypeOK
    <3>2. LoopInv'
      BY <1>1, <2>4, <2>7 DEF LoopInv, Busy
    <3>3. Cardinality(futures') <= MaxWorkers
      BY <2>5, <2>6, <2>7, WorkersAssumption
    <3> QED
      BY <1>1, <2>1, <2>7, <3>1, <3>2, <3>3 DEF PoolInv, SubmissionsBounded, Loop, Busy
  <2>8. CASE SubmitOne(t)
    <3>1. PICK u \in pending : /\ pending' = pending \ {u}
                               /\ futures' = (futures \ {t}) \cup {u}
                               /\ queued' = queued \cup {<<runs, u>>}
      BY <2>8 DEF SubmitOne
    <3>2. u \in Tasks /\ u \notin futures /\ u \notin ended
      BY <1>1, <2>2 DEF LoopInv
    <3>3. <<runs, u>> \notin Busy
      BY <2>4, <3>2
    <3>4. runs \in 1..MaxRuns
      BY <1>1, RunsAssumption DEF PoolInv, PoolTypeOK
    <3>5. PoolTypeOK'
      BY <1>1, <2>1, <2>2, <2>3, <3>1, <3>2, <3>4 DEF PoolTypeOK, TypeOK
    <3>6. Cardinality(queued) + Cardinality(live) < MaxWorkers
      <4>1. /\ IsFiniteSet(queued) /\ IsFiniteSet(live)
            /\ Cardinality(queued) \in Nat /\ Cardinality(live) \in Nat
        BY <1>1, PoolFinite
      <4>2. Cardinality(queued \cap live) = 0
        BY FS_EmptySet DEF PoolInv
      <4>3. Cardinality(Busy) = Cardinality(queued) + Cardinality(live)
        <5>1. Cardinality(queued \cup live)
                = Cardinality(queued) + Cardinality(live) - Cardinality(queued \cap live)
          BY <4>1, FS_Union
        <5> QED
          BY <4>1, <4>2, <5>1 DEF Busy
      <4>4. /\ IsFiniteSet({runs} \X (futures \ {t}))
            /\ Cardinality({runs} \X (futures \ {t})) = Cardinality(futures) - 1
        <5>1. IsFiniteSet({runs}) /\ Cardinality({runs}) = 1
          BY FS_Singleton
        <5>2. /\ IsFiniteSet({runs} \X (futures \ {t}))
              /\ Cardinality({runs} \X (futures \ {t}))
                    = Cardinality({runs}) * Cardinality(futures \ {t})
          BY <2>6, <5>1, FS_Product
        <5> QED
          BY <2>5, <2>6, <5>1, <5>2
      <4>5. Busy \subseteq {runs} \X (futures \ {t})
        <5>1. Busy \subseteq (1..MaxRuns) \X Tasks
          BY <1>1 DEF Busy, PoolTypeOK, TypeOK
        <5> QED
          BY <2>4, <5>1
      <4>6. Cardinality(Busy) <= Cardinality(futures) - 1
        BY <4>4, <4>5, FS_Subset
      <4> QED
        BY <2>5, <4>1, <4>3, <4>6, WorkersAssumption
    <3>7. SubmissionsBounded'
      <4>1. /\ IsFiniteSet(queued) /\ Cardinality(queued) \in Nat /\ Cardinality(live) \in Nat
            /\ <<runs, u>> \notin queued
        BY <1>1, <3>3, PoolFinite DEF Busy
      <4>2. Cardinality(queued') = Cardinality(queued) + 1
        BY <3>1, <4>1, FS_AddElement
      <4> QED
        BY <1>1, <3>6, <4>1, <4>2, WorkersAssumption DEF SubmissionsBounded
    <3>8. Cardinality(futures') <= MaxWorkers
      <4>1. u \notin futures \ {t}
        BY <3>2
      <4>2. Cardinality(futures') = Cardinality(futures \ {t}) + 1
        BY <2>6, <3>1, <4>1, FS_AddElement
      <4> QED
        BY <2>5, <2>6, <4>2, WorkersAssumption
    <3>9. LoopInv'
      BY <1>1, <2>4, <3>1, <3>2 DEF LoopInv, Busy
    <3>10. queued' \cap live' = {}
      BY <1>1, <3>1, <3>3 DEF PoolInv, Busy
    <3> QED
      BY <1>1, <2>1, <3>5, <3>7, <3>8, <3>9, <3>10 DEF PoolInv, Loop
  <2> QED
    BY <2>1, <2>7, <2>8
<1> QED
  BY <1>2, <1>3

(* Cancelling a future takes its item out of the queue, or notices that a  *)
(* thread has it.                                                          *)
LEMMA AbandonKeeps == ASSUME PoolInv, AbandonOne \/ AbandonEnd PROVE PoolInv'
<1>1. pc = "abandon" /\ PoolTypeOK /\ AbandonInv /\ batch = {}
  BY DEF AbandonOne, AbandonEnd, PoolInv
<1>2. /\ IsFiniteSet(queued) /\ Cardinality(queued) \in Nat /\ Cardinality(live) \in Nat
      /\ IsFiniteSet(futures) /\ Cardinality(futures) \in Nat
  BY <1>1, PoolFinite
<1>3. /\ queued \subseteq (1..MaxRuns) \X Tasks /\ live \subseteq (1..MaxRuns) \X Tasks
      /\ futures \subseteq Tasks
  BY <1>1 DEF PoolTypeOK, TypeOK
<1>4. CASE AbandonOne
  <2>1. PICK t \in futures :
            /\ futures' = futures \ {t}
            /\ results' = [results EXCEPT ![t] = verdict]
            /\ queued' = queued \ {<<runs, t>>}
            /\ nonCooperative' = (nonCooperative \/ <<runs, t>> \in live)
    BY <1>4 DEF AbandonOne
  <2>2. UNCHANGED <<pc, runs, pending, batch, verdict, poisoned, live, ended>>
    BY <1>4 DEF AbandonOne
  <2>3. results' \in [Tasks -> Statuses \cup {"none"}] /\ nonCooperative' \in BOOLEAN
    BY <1>1, <1>3, <2>1 DEF PoolTypeOK, TypeOK, AbandonInv, Statuses
  <2>4. PoolTypeOK'
    BY <1>1, <1>3, <2>1, <2>2, <2>3 DEF PoolTypeOK, TypeOK
  <2>5. Cardinality(queued') <= Cardinality(queued) /\ Cardinality(queued') \in Nat
    BY <1>2, <2>1, FS_Subset, FS_CardinalityType
  <2>6. Cardinality(futures') <= Cardinality(futures) /\ Cardinality(futures') \in Nat
    BY <1>2, <2>1, FS_Subset, FS_CardinalityType
  <2>7. SubmissionsBounded' /\ Cardinality(futures') <= MaxWorkers
    BY <1>2, <2>2, <2>5, <2>6, WorkersAssumption DEF PoolInv, SubmissionsBounded
  <2>8. AbandonInv'
    <3>1. ASSUME NEW i \in Busy, i[2] = t PROVE i = <<runs, t>>
      BY <1>1, <1>3, <3>1 DEF AbandonInv, Busy
    <3> QED
      BY <1>1, <2>1, <2>2, <3>1 DEF AbandonInv, Busy
  <2> QED
    BY <1>1, <2>1, <2>2, <2>4, <2>7, <2>8 DEF PoolInv, Loop
<1>5. CASE AbandonEnd
  <2> DEFINE fence == verdict = "timeout" \/ nonCooperative
  <2>1. /\ futures = {} /\ poisoned' = (poisoned \/ fence)
        /\ queued' = IF fence THEN {} ELSE queued
        /\ pc' = "return"
        /\ UNCHANGED <<runs, pending, futures, batch, results, verdict, nonCooperative, live,
                       ended>>
    BY <1>5 DEF AbandonEnd
  <2>2. poisoned' \in BOOLEAN /\ queued' \subseteq queued
    BY <1>1, <2>1 DEF PoolTypeOK
  <2>3. PoolTypeOK'
    BY <1>1, <1>3, <2>1, <2>2 DEF PoolTypeOK, TypeOK
  <2>4. Cardinality(queued') <= Cardinality(queued) /\ Cardinality(queued') \in Nat
    BY <1>2, <2>2, FS_Subset, FS_CardinalityType
  <2>5. SubmissionsBounded'
    BY <1>2, <2>1, <2>4, WorkersAssumption DEF PoolInv, SubmissionsBounded
  <2>6. ~poisoned' => Busy' = {}
    BY <1>1, <2>1 DEF AbandonInv, Busy
  <2> QED
    BY <1>1, <2>1, <2>2, <2>3, <2>5, <2>6 DEF PoolInv, Loop
<1> QED
  BY <1>4, <1>5

LEMMA ThreadStartsKeeps ==
    ASSUME PoolInv, NEW i \in queued, ThreadStarts(i)
    PROVE  PoolInv'
<1>1. /\ queued' = queued \ {i} /\ live' = live \cup {i} /\ UNCHANGED <<caller, ended>>
  BY DEF ThreadStarts
<1>2. i \notin live /\ PoolTypeOK
  BY DEF PoolInv
<1>3. /\ IsFiniteSet(queued) /\ IsFiniteSet(live)
      /\ Cardinality(queued) \in Nat /\ Cardinality(live) \in Nat
  BY <1>2, PoolFinite
<1>4. /\ Cardinality(queued') = Cardinality(queued) - 1
      /\ Cardinality(live') = Cardinality(live) + 1
  BY <1>1, <1>2, <1>3, FS_RemoveElement, FS_AddElement
<1>5. SubmissionsBounded'
  BY <1>3, <1>4, WorkersAssumption DEF PoolInv, SubmissionsBounded
<1>6. Busy' = Busy
  BY <1>1 DEF Busy
<1>7. PoolTypeOK'
  BY <1>1, <1>2 DEF PoolTypeOK, TypeOK, caller
<1>8. pc \in Loop => LoopInv'
  BY <1>1, <1>6 DEF PoolInv, LoopInv, caller
<1>9. pc = "abandon" => AbandonInv'
  BY <1>1, <1>6 DEF PoolInv, AbandonInv, caller
<1> QED
  BY <1>1, <1>5, <1>6, <1>7, <1>8, <1>9 DEF PoolInv, caller

LEMMA ThreadEndsKeeps ==
    ASSUME PoolInv, NEW i \in live, ThreadEnds(i)
    PROVE  PoolInv'
<1>1. /\ live' = live \ {i} /\ ended' = (IF i[1] = runs THEN ended \cup {i[2]} ELSE ended)
      /\ UNCHANGED <<caller, queued>>
  BY DEF ThreadEnds
<1>2. /\ PoolTypeOK /\ i \in (1..MaxRuns) \X Tasks /\ i \notin queued
      /\ \A j \in Busy : j = <<j[1], j[2]>>
  BY DEF PoolInv, PoolTypeOK, TypeOK, Busy
<1>3. IsFiniteSet(live) /\ Cardinality(queued) \in Nat /\ Cardinality(live) \in Nat
  BY <1>2, PoolFinite
<1>4. Cardinality(live') = Cardinality(live) - 1
  BY <1>1, <1>3, FS_RemoveElement
<1>5. SubmissionsBounded'
  BY <1>1, <1>3, <1>4, WorkersAssumption DEF PoolInv, SubmissionsBounded
<1>6. PoolTypeOK'
  BY <1>1, <1>2 DEF PoolTypeOK, TypeOK, caller
<1>7. Busy' = Busy \ {i}
  BY <1>1, <1>2 DEF Busy
<1>8. ASSUME pc \in Loop PROVE LoopInv'
  <2>1. LoopInv /\ i \in Busy
    BY <1>8 DEF PoolInv, Busy
  <2>2. \A j \in Busy \ {i} : j[2] # i[2]
    BY <1>2, <2>1 DEF LoopInv
  <2>3. i[2] \notin pending
    BY <1>2, <2>1 DEF LoopInv, PoolTypeOK, TypeOK
  <2> QED
    BY <1>1, <1>7, <2>1, <2>2, <2>3 DEF LoopInv, caller
<1>9. pc = "abandon" => AbandonInv'
  BY <1>1, <1>7 DEF PoolInv, AbandonInv, caller
<1> QED
  BY <1>1, <1>5, <1>6, <1>7, <1>8, <1>9 DEF PoolInv, caller

LEMMA PoolNextInv == PoolInv /\ [Next]_vars => PoolInv'
<1> SUFFICES ASSUME PoolInv, [Next]_vars PROVE PoolInv'
  OBVIOUS
<1>1. ASSUME NEW cancelled \in BOOLEAN, NEW timeout \in BOOLEAN, NEW bad \in SUBSET Tasks,
             Run(cancelled, timeout, bad)
      PROVE  PoolInv'
  BY <1>1, RunKeeps
<1>2. CASE LoopHead
  <2>1. UNCHANGED <<runs, pending, futures, batch, results, nonCooperative, poisoned, queued,
                   live, ended>> /\ pc = "head"
    BY <1>2 DEF LoopHead, pool
  <2>2. \/ pc' = "return" /\ futures = {} /\ UNCHANGED verdict
        \/ pc' = "abandon" /\ verdict' \in {"cancelled", "timeout"}
        \/ pc' = "wait" /\ UNCHANGED verdict
    BY <1>2 DEF LoopHead
  <2>3. LoopInv /\ batch = {} /\ SubmissionsBounded
    BY <2>1 DEF PoolInv, Loop
  <2>4. PoolTypeOK' /\ SubmissionsBounded'
    BY <2>1, <2>2, <2>3 DEF PoolInv, PoolTypeOK, TypeOK, SubmissionsBounded, Statuses
  <2> QED
    BY <2>1, <2>2, <2>3, <2>4 DEF PoolInv, LoopInv, AbandonInv, Busy, Loop
<1>3. CASE Wait
  <2>1. UNCHANGED <<runs, pending, futures, results, nonCooperative, poisoned, queued,
                   live, ended>> /\ pc = "wait"
    BY <1>3 DEF Wait, pool
  <2>2. \/ pc' = "collect" /\ batch' = futures \cap ended /\ UNCHANGED verdict
        \/ pc' = "abandon" /\ verdict' = "timeout" /\ UNCHANGED batch
        \/ pc' = "head" /\ UNCHANGED <<verdict, batch>>
    BY <1>3 DEF Wait
  <2>3. LoopInv /\ batch = {} /\ SubmissionsBounded
    BY <2>1 DEF PoolInv, Loop
  <2>4. PoolTypeOK' /\ SubmissionsBounded'
    BY <2>1, <2>2, <2>3 DEF PoolInv, PoolTypeOK, TypeOK, SubmissionsBounded, Statuses
  <2> QED
    BY <2>1, <2>2, <2>3, <2>4 DEF PoolInv, LoopInv, AbandonInv, Busy, Loop
<1>4. CASE Collect
  BY <1>4, CollectKeeps
<1>5. CASE AbandonOne \/ AbandonEnd
  BY <1>5, AbandonKeeps
<1>6. CASE Return
  <2>1. /\ UNCHANGED <<runs, pending, futures, batch, verdict, nonCooperative, poisoned, queued,
                      live, ended>>
        /\ pc = "return" /\ pc' = "idle"
    BY <1>6 DEF Return, pool
  <2>2. results' \in [Tasks -> Statuses \cup {"none"}]
    BY <1>6 DEF Return, PoolInv, PoolTypeOK, TypeOK, Statuses
  <2>3. PoolTypeOK'
    BY <2>1, <2>2 DEF PoolInv, PoolTypeOK, TypeOK
  <2> QED
    BY <2>1, <2>3 DEF PoolInv, SubmissionsBounded, Busy, Loop
<1>7. CASE Close
  <2>1. /\ UNCHANGED <<pc, runs, pending, futures, batch, results, verdict, nonCooperative,
                       poisoned, live, ended>>
        /\ pc = "idle" /\ queued' = {}
    BY <1>7 DEF Close
  <2>2. PoolTypeOK'
    BY <2>1 DEF PoolInv, PoolTypeOK, TypeOK
  <2>3. SubmissionsBounded'
    <3>1. Cardinality(queued) \in Nat /\ Cardinality(live) \in Nat
      BY PoolFinite DEF PoolInv
    <3> QED
      BY <2>1, <3>1, FS_EmptySet, WorkersAssumption DEF PoolInv, SubmissionsBounded
  <2> QED
    BY <2>1, <2>2, <2>3 DEF PoolInv, Busy, Loop
<1>8. ASSUME NEW i \in queued, ThreadStarts(i) PROVE PoolInv'
  BY <1>8, ThreadStartsKeeps
<1>9. ASSUME NEW i \in live, ThreadEnds(i) PROVE PoolInv'
  BY <1>9, ThreadEndsKeeps
<1>10. CASE SetCancel \/ DeadlinePasses \/ UNCHANGED vars
  <2>1. UNCHANGED <<caller, pool>>
    BY <1>10 DEF SetCancel, DeadlinePasses, vars, caller, pool
  <2> QED
    BY <2>1 DEF caller, pool, PoolInv, PoolTypeOK, TypeOK, SubmissionsBounded, LoopInv,
               AbandonInv, Busy
<1> QED
  BY <1>1, <1>2, <1>3, <1>4, <1>5, <1>6, <1>7, <1>8, <1>9, <1>10 DEF Next, Caller

(* The executor never has more items in the queue and in threads than it   *)
(* has threads, those of runs that were given up included.                 *)
THEOREM PoolIsBounded == Spec => []SubmissionsBounded
<1>1. PoolInv => SubmissionsBounded
  BY DEF PoolInv
<1> QED
  BY <1>1, PoolInitInv, PoolNextInv, PTL DEF Spec

(* The executor's bookkeeping keeps its shape.                             *)
THEOREM PoolTypeCorrect == Spec => []TypeOK
<1>1. PoolInv => TypeOK
  BY DEF PoolInv, PoolTypeOK
<1> QED
  BY <1>1, PoolInitInv, PoolNextInv, PTL DEF Spec

-----------------------------------------------------------------------------
(* The provider's process.                                                 *)

Successes == {"completed", "present", "passed"}

(* A verdict is given last; the runner waits for an exit only after it has *)
(* read everything.                                                        *)
ProviderInv ==
    /\ DOMAIN job = {"phase", "provider", "status", "verdict", "drained"}
    /\ DOMAIN proc = {"leader", "child", "held"}
    /\ job.phase # "done" => job.verdict = ""
    /\ job.phase = "waiting" => job.drained
    /\ SuccessIsComplete

(* What is settled without a process is no success.                        *)
LEMMA DecisionVerdict ==
    ASSUME NEW s PROVE Decision(s).verdict \notin Successes
<1>1. \A v \in {"blocked", "raised", "failed", "not_ready", "denied"} :
          Outcome(v).verdict \notin Successes
  BY DEF Outcome, Successes
<1>2. \A p : StartOn(p).verdict \notin Successes
  BY DEF StartOn, Successes
<1>3. \A p : Preflight(s, p).verdict \notin Successes
  BY <1>1, <1>2 DEF Preflight
<1>4. Dispatch(s).verdict \notin Successes
  BY <1>1, <1>3 DEF Dispatch
<1>5. Probe(s).verdict \notin Successes
  BY <1>1, <1>2 DEF Probe
<1>6. Validation(s).verdict \notin Successes
  BY <1>1, <1>2 DEF Validation
<1> QED
  BY <1>4, <1>5, <1>6 DEF Decision

(* Only a runner's success is read as one.                                 *)
LEMMA VerdictOfFailure ==
    ASSUME NEW s, NEW p, NEW usable, NEW status \in {"failed", "timeout", "denied"}
    PROVE  Verdict(s, p, status, usable) \notin Successes
  BY DEF Verdict, Successes

LEMMA FinishFailed ==
    ASSUME ProviderInv, NEW status \in {"failed", "timeout", "denied"}, Finish(status)
    PROVE  /\ DOMAIN job' = {"phase", "provider", "status", "verdict", "drained"}
           /\ job'.phase = "done" /\ job'.verdict \notin Successes
<1>1. PICK usable \in BOOLEAN :
          job' = [job EXCEPT !.phase = "done", !.status = status,
                             !.verdict = Verdict(setup, job.provider, status, usable)]
  BY DEF Finish
<1> DEFINE v == Verdict(setup, job.provider, status, usable)
<1>2. v \notin Successes
  BY VerdictOfFailure
<1> HIDE DEF v
<1> QED
  BY <1>1, <1>2 DEF ProviderInv, v

LEMMA ProviderNextInv == ProviderInv /\ [ProviderNext]_providerVars => ProviderInv'
<1> SUFFICES ASSUME ProviderInv, [ProviderNext]_providerVars PROVE ProviderInv'
  OBVIOUS
<1> USE DEF SuccessIsComplete
<1>1. CASE Call
  BY <1>1 DEF Call, ProviderInv
<1>2. CASE RefuseLease
  BY <1>2 DEF RefuseLease, ProviderInv
<1>3. CASE Settle
  BY <1>3, DecisionVerdict DEF Settle, ProviderInv, Successes
<1>4. CASE Deny \/ SpawnFails
  <2>1. PICK status \in {"failed", "denied"} :
            /\ job' = [job EXCEPT !.phase = "done", !.status = status,
                         !.verdict = Verdict(setup, Decision(setup).provider, status, FALSE)]
            /\ UNCHANGED proc
    BY <1>4 DEF Deny, SpawnFails
  <2>2. Verdict(setup, Decision(setup).provider, status, FALSE) \notin Successes
    BY VerdictOfFailure
  <2> QED
    BY <2>1, <2>2 DEF ProviderInv, Successes
<1>5. CASE Spawn
  BY <1>5 DEF Spawn, ProviderInv
<1>6. CASE ReadToEnd
  BY <1>6 DEF ReadToEnd, ProviderInv
<1>7. CASE StopReading \/ StopWaiting \/ ReaderFails
  <2>1. PICK status \in {"failed", "timeout"} : Finish(status) /\ proc' = Killed(proc)
    BY <1>7 DEF StopReading, StopWaiting, ReaderFails
  <2>2. DOMAIN proc' = {"leader", "child", "held"}
    BY <2>1 DEF Killed
  <2> QED
    BY <2>1, <2>2, FinishFailed DEF ProviderInv, Successes
<1>8. CASE Reap
  <2>1. job.phase = "waiting" /\ proc.leader \in {"exit0", "exit1"} /\ UNCHANGED proc
    BY <1>8 DEF Reap
  <2>2. CASE proc.leader = "exit1"
    <3>1. Finish("failed")
      BY <1>8, <2>2 DEF Reap
    <3> QED
      BY <2>1, <3>1, FinishFailed DEF ProviderInv, Successes
  <2>3. CASE proc.leader = "exit0"
    <3>1. /\ DOMAIN job' = {"phase", "provider", "status", "verdict", "drained"}
          /\ job'.phase = "done" /\ job'.drained = job.drained
      BY <1>8, <2>3 DEF Reap, Finish, ProviderInv
    <3> QED
      BY <2>1, <2>3, <3>1 DEF ProviderInv
  <2> QED
    BY <2>1, <2>2, <2>3
<1>9. CASE Fork \/ LeaveGroup
  BY <1>9 DEF Fork, LeaveGroup, ProviderInv
<1>10. ASSUME NEW who \in {"leader", "child"}, ClosePipes(who) PROVE ProviderInv'
  BY <1>10 DEF ClosePipes, ProviderInv
<1>11. ASSUME NEW who \in {"leader", "child"}, Exit(who) PROVE ProviderInv'
  BY <1>11 DEF Exit, Running, ProviderInv
<1>12. CASE ClockMoves \/ UNCHANGED providerVars
  BY <1>12 DEF ClockMoves, providerVars, ProviderInv
<1> QED
  BY <1>1, <1>2, <1>3, <1>4, <1>5, <1>6, <1>7, <1>8, <1>9, <1>10, <1>11, <1>12
     DEF ProviderNext, RunnerStep

(* Whatever the process and its children do with the pipes, their group    *)
(* and their exit codes, a success is that of a complete run.              *)
THEOREM SuccessWasComplete == ProviderSpec => []SuccessIsComplete
<1>1. ProviderInit => ProviderInv
  <2>1. ASSUME ProviderInit
        PROVE  /\ DOMAIN job = {"phase", "provider", "status", "verdict", "drained"}
               /\ job.phase = "idle" /\ job.verdict = ""
    BY <2>1 DEF ProviderInit
  <2>2. ASSUME ProviderInit PROVE DOMAIN proc = {"leader", "child", "held"}
    BY <2>2 DEF ProviderInit, NoProcess
  <2> QED
    BY <2>1, <2>2 DEF ProviderInv, SuccessIsComplete
<1>2. ProviderInv => SuccessIsComplete
  BY DEF ProviderInv
<1> QED
  BY <1>1, <1>2, ProviderNextInv, PTL DEF ProviderSpec

-----------------------------------------------------------------------------
(* The agent runtime.                                                      *)

Contents == {r[3] : r \in Requests}
RecordStatuses == {"absent", "ready", "succeeded", "failed", "timed_out", "cancelled"}
RecordRec == [status : RecordStatuses, dispatches : {0, 1}, sequence : Nat,
              cleanup : {"cleaned", "not_cleaned"}]
ResultRec == [status : (RecordStatuses \ {"absent"}) \cup {"cleaned", "not_cleaned"},
              sequence : Nat]
AnswerRec == [fingerprint : Contents, result : ResultRec]
GivenRec == [content : Contents, claim : Contents, result : ResultRec]
GateRec == [at : {"gate", "leaving"}, key : Keys, content : Contents]

AgentTypeOK ==
    /\ record \in RecordRec
    /\ replay \in [Operations -> [Keys -> AnswerRec \cup {NoAnswer}]]
    /\ answers \in [Operations -> [Keys -> SUBSET GivenRec]]
    /\ calls \in [Callers -> GateRec \cup {Away}]

(* What was returned under a key is what is stored under it, to requests   *)
(* that claim the stored fingerprint; the one it is of was among them.     *)
StoredInv ==
    \A o \in Operations, k \in Keys :
        /\ Fresh(o, k) => answers[o][k] = {}
        /\ ~Fresh(o, k) => \E a \in answers[o][k] : a.content = replay[o][k].fingerprint
        /\ \A a \in answers[o][k] : /\ a.claim = replay[o][k].fingerprint
                                    /\ a.result = replay[o][k].result

(* Those in execute hold different keys, unanswered up to the gate.        *)
GateInv ==
    /\ \A c \in Callers : calls[c] # Away =>
          /\ calls[c].key \in inflight
          /\ calls[c].at = "gate" => Fresh("execute", calls[c].key)
    /\ \A c, d \in Callers :
          c # d /\ calls[c] # Away /\ calls[d] # Away => calls[c].key # calls[d].key

RecordInv ==
    /\ record.status \in {"absent", "ready", "cancelled"} => record.dispatches = 0
    /\ record.status = "absent" => \A k \in Keys : Fresh("prepare", k)
    /\ \A k \in Keys : replay["cancel"][k].result.status = "cancelled"
                          => record.status = "cancelled"

AgentInv == AgentTypeOK /\ StoredInv /\ GateInv /\ RecordInv

LEMMA AnswersAreStored == \A a \in AnswerRec : a # NoAnswer
<1>1. NoAnswer.result.status = ""
  BY DEF NoAnswer
<1>2. \A a \in AnswerRec : a.result.status # ""
  BY DEF AnswerRec, ResultRec, RecordStatuses
<1> QED
  BY <1>1, <1>2

LEMMA AwayIsNowhere == Away.at = "away"
  BY DEF Away

(* Storing the first answer of a key.                                      *)
LEMMA ReserveProps ==
    ASSUME AgentTypeOK, StoredInv, NEW o \in Operations, NEW k \in Keys, Fresh(o, k),
           NEW content \in Contents, NEW result \in ResultRec, Reserve(o, k, content, result)
    PROVE  /\ replay' \in [Operations -> [Keys -> AnswerRec \cup {NoAnswer}]]
           /\ answers' \in [Operations -> [Keys -> SUBSET GivenRec]]
           /\ StoredInv'
           /\ replay'[o][k] = [fingerprint |-> content, result |-> result]
           /\ \A p \in Operations, j \in Keys :
                 p # o \/ j # k => replay'[p][j] = replay[p][j]
<1> DEFINE a == [fingerprint |-> content, result |-> result]
<1> DEFINE g == [content |-> content, claim |-> content, result |-> result]
<1>1. /\ replay' = [replay EXCEPT ![o][k] = a]
      /\ answers' = [answers EXCEPT ![o][k] = answers[o][k] \cup {g}]
  BY DEF Reserve, Answer, AgentTypeOK
<1>2. a \in AnswerRec /\ g \in GivenRec
  BY DEF AnswerRec, GivenRec
<1>0. /\ a.fingerprint = content /\ a.result = result
      /\ g.content = content /\ g.claim = content /\ g.result = result
  OBVIOUS
<1> HIDE DEF a, g
<1>3. replay' \in [Operations -> [Keys -> AnswerRec \cup {NoAnswer}]]
  BY <1>1, <1>2 DEF AgentTypeOK
<1>4. answers' \in [Operations -> [Keys -> SUBSET GivenRec]]
  BY <1>1, <1>2 DEF AgentTypeOK
<1>5. replay'[o][k] = a /\ answers'[o][k] = {g}
  BY <1>1 DEF AgentTypeOK, StoredInv
<1>6. \A p \in Operations, j \in Keys :
          p # o \/ j # k => replay'[p][j] = replay[p][j] /\ answers'[p][j] = answers[p][j]
  BY <1>1 DEF AgentTypeOK
<1>7. StoredInv'
  <2>1. SUFFICES ASSUME NEW p \in Operations, NEW j \in Keys
                 PROVE  /\ replay'[p][j] = NoAnswer => answers'[p][j] = {}
                        /\ replay'[p][j] # NoAnswer =>
                              \E b \in answers'[p][j] : b.content = replay'[p][j].fingerprint
                        /\ \A b \in answers'[p][j] : /\ b.claim = replay'[p][j].fingerprint
                                                     /\ b.result = replay'[p][j].result
    BY DEF StoredInv, Fresh
  <2>2. CASE p = o /\ j = k
    BY <1>0, <1>2, <1>5, <2>2, AnswersAreStored
  <2>3. CASE p # o \/ j # k
    BY <1>6, <2>3 DEF StoredInv, Fresh
  <2> QED
    BY <2>2, <2>3
<1> QED
  BY <1>3, <1>4, <1>5, <1>6, <1>7 DEF a

LEMMA AgentFrame ==
    ASSUME AgentInv, UNCHANGED <<record, replay, inflight, calls, answers>>
    PROVE  AgentInv'
  BY DEF AgentInv, AgentTypeOK, StoredInv, GateInv, RecordInv, Fresh

LEMMA AgentInitInv == AgentInit => AgentInv
<1> SUFFICES ASSUME AgentInit PROVE AgentInv
  OBVIOUS
<1>1. AgentTypeOK
  <2>1. record \in RecordRec
    BY DEF AgentInit, RecordRec, RecordStatuses
  <2> QED
    BY <2>1 DEF AgentInit, AgentTypeOK
<1>2. StoredInv /\ GateInv
  BY DEF AgentInit, StoredInv, GateInv, Fresh
<1>3. RecordInv
  BY DEF AgentInit, RecordInv, Fresh, NoAnswer, Operations
<1> QED
  BY <1>1, <1>2, <1>3 DEF AgentInv

(* An operation that stores an answer and leaves the callers alone.        *)
LEMMA StoreKeeps ==
    ASSUME AgentInv, NEW o \in Operations \ {"execute"}, NEW k \in Keys, Fresh(o, k),
           NEW content \in Contents, NEW result \in ResultRec, Reserve(o, k, content, result),
           UNCHANGED <<inflight, calls>>, record' \in RecordRec,
           record'.status \in {"absent", "ready", "cancelled"} => record'.dispatches = 0,
           record'.status # "absent",
           record.status = "cancelled" => record'.status = "cancelled",
           o = "cancel" /\ result.status = "cancelled" => record'.status = "cancelled"
    PROVE  AgentInv'
<1>1. /\ replay' \in [Operations -> [Keys -> AnswerRec \cup {NoAnswer}]]
      /\ answers' \in [Operations -> [Keys -> SUBSET GivenRec]]
      /\ StoredInv'
      /\ replay'[o][k] = [fingerprint |-> content, result |-> result]
      /\ \A p \in Operations, j \in Keys :
            p # o \/ j # k => replay'[p][j] = replay[p][j]
  BY ReserveProps DEF AgentInv
<1>2. AgentTypeOK'
  BY <1>1 DEF AgentInv, AgentTypeOK
<1>3. "execute" \in Operations /\ "cancel" \in Operations
  BY DEF Operations
<1>4. GateInv'
  <2>1. \A c \in Callers : calls[c] # Away => calls[c].key \in Keys
    BY DEF AgentInv, AgentTypeOK, GateRec
  <2> QED
    BY <1>1, <1>3, <2>1 DEF AgentInv, GateInv, Fresh
<1>5. RecordInv'
  <2>1. ASSUME NEW j \in Keys, replay'["cancel"][j].result.status = "cancelled"
        PROVE  record'.status = "cancelled"
    <3>1. CASE o = "cancel" /\ j = k
      BY <1>1, <2>1, <3>1
    <3>2. CASE o # "cancel" \/ j # k
      BY <1>1, <1>3, <2>1, <3>2 DEF AgentInv, RecordInv
    <3> QED
      BY <3>1, <3>2
  <2> QED
    BY <2>1 DEF RecordInv
<1> QED
  BY <1>1, <1>2, <1>4, <1>5 DEF AgentInv

LEMMA PassGateKeeps ==
    ASSUME AgentInv, NEW c \in Callers, PassGate(c)
    PROVE  AgentInv'
<1>1. calls[c].at = "gate" /\ calls' = [calls EXCEPT ![c].at = "leaving"] /\ UNCHANGED inflight
  BY DEF PassGate
<1>2. calls[c] \in GateRec /\ calls[c] # Away
  <2>1. calls[c] # Away
    BY <1>1, AwayIsNowhere
  <2> QED
    BY <2>1 DEF AgentInv, AgentTypeOK
<1>3. calls[c].key \in Keys /\ calls[c].content \in Contents /\ Fresh("execute", calls[c].key)
  BY <1>1, <1>2 DEF GateRec, AgentInv, GateInv
<1>4. /\ calls' \in [Callers -> GateRec \cup {Away}]
      /\ \A d \in Callers : d # c => calls'[d] = calls[d]
      /\ calls'[c].at = "leaving" /\ calls'[c].key = calls[c].key
  <2>1. calls' = [calls EXCEPT ![c] = [calls[c] EXCEPT !.at = "leaving"]]
    BY <1>1
  <2>2. [calls[c] EXCEPT !.at = "leaving"] \in GateRec
    BY <1>2 DEF GateRec
  <2> QED
    BY <1>2, <2>1, <2>2 DEF AgentInv, AgentTypeOK, GateRec
<1>5. ASSUME \A k \in Keys : k # calls[c].key => replay'["execute"][k] = replay["execute"][k]
      PROVE  GateInv'
  <2>1. \A d \in Callers : calls[d] # Away => calls[d].key \in Keys
    BY DEF AgentInv, AgentTypeOK, GateRec
  <2> QED
    BY <1>1, <1>2, <1>4, <1>5, <2>1 DEF AgentInv, GateInv, Fresh
<1>6. CASE StillReady
  <2>1. PICK outcome \in {"succeeded", "failed", "timed_out"} :
            /\ record' = [record EXCEPT !.status = outcome, !.dispatches = @ + 1,
                                        !.sequence = @ + 2]
            /\ Reserve("execute", calls[c].key, calls[c].content,
                       Result(outcome, record.sequence + 2))
    BY <1>6 DEF PassGate
  <2>2. record \in RecordRec /\ record.status = "ready" /\ record.dispatches = 0
    BY <1>6 DEF StillReady, AgentInv, AgentTypeOK, RecordInv
  <2>3. record' \in RecordRec /\ record'.status = outcome
    <3>1. record' = [record EXCEPT !.status = outcome, !.dispatches = 1,
                                   !.sequence = record.sequence + 2]
      BY <2>1, <2>2 DEF RecordRec
    <3>2. outcome \in RecordStatuses /\ record.sequence + 2 \in Nat
      BY <2>2 DEF RecordStatuses, RecordRec
    <3> HIDE DEF RecordStatuses
    <3> QED
      BY <2>2, <3>1, <3>2 DEF RecordRec
  <2>4. Result(outcome, record.sequence + 2) \in ResultRec
    BY <2>2 DEF Result, ResultRec, RecordRec, RecordStatuses
  <2>5. "execute" \in Operations /\ "cancel" \in Operations
    BY DEF Operations
  <2>6. /\ replay' \in [Operations -> [Keys -> AnswerRec \cup {NoAnswer}]]
        /\ answers' \in [Operations -> [Keys -> SUBSET GivenRec]]
        /\ StoredInv'
        /\ \A p \in Operations, j \in Keys :
              p # "execute" \/ j # calls[c].key => replay'[p][j] = replay[p][j]
    BY <1>3, <2>1, <2>4, <2>5, ReserveProps DEF AgentInv
  <2>7. GateInv'
    BY <1>5, <2>5, <2>6
  <2>8. RecordInv'
    <3>1. \A k \in Keys : replay'["cancel"][k].result.status # "cancelled"
      BY <2>2, <2>5, <2>6 DEF AgentInv, RecordInv
    <3> QED
      BY <2>1, <2>3, <3>1 DEF RecordInv
  <2> QED
    BY <1>4, <2>3, <2>6, <2>7, <2>8 DEF AgentInv, AgentTypeOK
<1>7. CASE UNCHANGED <<record, replay, answers>>
  <2>1. GateInv'
    BY <1>5, <1>7
  <2> QED
    BY <1>4, <1>7, <2>1 DEF AgentInv, AgentTypeOK, StoredInv, RecordInv, Fresh
<1> QED
  BY <1>6, <1>7 DEF PassGate

LEMMA AgentNextInv == AgentInv /\ [AgentNext]_agentVars => AgentInv'
<1> SUFFICES ASSUME AgentInv, [AgentNext]_agentVars PROVE AgentInv'
  OBVIOUS
<1>0. /\ record \in RecordRec /\ record.status \in RecordStatuses /\ record.sequence \in Nat
      /\ record.dispatches \in {0, 1} /\ record.cleanup \in {"cleaned", "not_cleaned"}
  BY DEF AgentInv, AgentTypeOK, RecordRec
<1>1. ASSUME NEW k \in Keys, NEW x \in Contents, Prepare(k, x) PROVE AgentInv'
  <2>1. record.status = "absent" /\ record.dispatches = 0 /\ Fresh("prepare", k)
    BY <1>1 DEF Prepare, AgentInv, RecordInv
  <2>2. /\ record' = [record EXCEPT !.status = "ready", !.sequence = 2]
        /\ Reserve("prepare", k, x, Result("ready", 2)) /\ UNCHANGED <<inflight, calls>>
    BY <1>1 DEF Prepare
  <2>3. /\ record' \in RecordRec /\ record'.status = "ready" /\ record'.dispatches = 0
        /\ Result("ready", 2) \in ResultRec
    BY <1>0, <2>1, <2>2 DEF RecordRec, RecordStatuses, Result, ResultRec
  <2>4. "prepare" \in Operations \ {"execute"}
    BY DEF Operations
  <2> QED
    BY <2>1, <2>2, <2>3, <2>4, StoreKeeps
<1>2. ASSUME NEW c \in Callers, NEW k \in Keys, NEW x \in Contents, BeginExecute(c, k, x)
      PROVE  AgentInv'
  <2> DEFINE g == [at |-> "gate", key |-> k, content |-> x]
  <2>1. /\ calls[c] = Away /\ Fresh("execute", k) /\ k \notin inflight
        /\ inflight' = inflight \cup {k} /\ calls' = [calls EXCEPT ![c] = g]
        /\ UNCHANGED <<record, replay, answers>>
    BY <1>2 DEF BeginExecute
  <2>2. g \in GateRec /\ g.key = k
    BY DEF GateRec
  <2> HIDE DEF g
  <2>3. AgentTypeOK'
    BY <2>1, <2>2 DEF AgentInv, AgentTypeOK
  <2>4. calls'[c] = g /\ \A d \in Callers : d # c => calls'[d] = calls[d]
    BY <2>1 DEF AgentInv, AgentTypeOK
  <2>5. GateInv'
    BY <2>1, <2>2, <2>4 DEF AgentInv, GateInv, Fresh
  <2> QED
    BY <2>1, <2>3, <2>5 DEF AgentInv, StoredInv, RecordInv, Fresh
<1>3. ASSUME NEW k \in Keys, NEW x \in Contents, Cancel(k, x) PROVE AgentInv'
  <2>1. /\ record.status \notin {"absent", "succeeded"} /\ Fresh("cancel", k)
        /\ UNCHANGED <<inflight, calls>>
    BY <1>3 DEF Cancel
  <2>2. "cancel" \in Operations \ {"execute"}
    BY DEF Operations
  <2>3. CASE UNCHANGED record /\ Reserve("cancel", k, x, Result(record.status, record.sequence))
    <3> DEFINE r == Result(record.status, record.sequence)
    <3>1. r \in ResultRec /\ r.status = record.status
      BY <1>0, <2>1 DEF Result, ResultRec
    <3> HIDE DEF r
    <3>2. Reserve("cancel", k, x, r)
      BY <2>3 DEF r
    <3>3. record'.status \in {"absent", "ready", "cancelled"} => record'.dispatches = 0
      BY <2>3 DEF AgentInv, RecordInv
    <3> QED
      BY <1>0, <2>1, <2>2, <2>3, <3>1, <3>2, <3>3, StoreKeeps
  <2>4. ASSUME record.status \notin Terminal, NEW confirmed \in BOOLEAN,
               LET status == IF confirmed THEN "cancelled" ELSE "failed"
                   sequence == record.sequence + IF confirmed THEN 2 ELSE 1
               IN  /\ record' = [record EXCEPT !.status = status, !.sequence = @ + 2]
                   /\ Reserve("cancel", k, x, Result(status, sequence))
        PROVE  AgentInv'
    <3> DEFINE status == IF confirmed THEN "cancelled" ELSE "failed"
               sequence == record.sequence + IF confirmed THEN 2 ELSE 1
               r == Result(status, sequence)
    <3>1. status \in {"cancelled", "failed"} /\ sequence \in Nat
      BY <1>0
    <3>2. /\ record' = [record EXCEPT !.status = status, !.sequence = record.sequence + 2]
          /\ Reserve("cancel", k, x, r)
      BY <1>0, <2>4 DEF RecordRec
    <3> HIDE DEF status, sequence
    <3>3. r \in ResultRec /\ r.status = status
      BY <3>1 DEF Result, ResultRec, RecordStatuses
    <3> HIDE DEF r
    <3>4. record.status = "ready" /\ record.dispatches = 0
      BY <1>0, <2>1, <2>4 DEF Terminal, RecordStatuses, AgentInv, RecordInv
    <3>5. record' \in RecordRec /\ record'.status = status /\ record'.dispatches = 0
      <4>1. status \in RecordStatuses /\ record.sequence + 2 \in Nat
        BY <1>0, <3>1 DEF RecordStatuses
      <4> QED
        BY <1>0, <3>2, <3>4, <4>1 DEF RecordRec
    <3> QED
      BY <2>1, <2>2, <3>1, <3>2, <3>3, <3>4, <3>5, StoreKeeps
  <2> QED
    BY <1>3, <2>3, <2>4 DEF Cancel
<1>4. ASSUME NEW k \in Keys, NEW x \in Contents, Handoff(k, x) PROVE AgentInv'
  <2> DEFINE r == Result(record.status, record.sequence + 1)
  <2>1. /\ record.status # "absent" /\ Fresh("handoff", k) /\ UNCHANGED <<record, inflight, calls>>
        /\ Reserve("handoff", k, x, r)
    BY <1>4 DEF Handoff
  <2>2. r \in ResultRec
    BY <1>0, <2>1 DEF Result, ResultRec
  <2> HIDE DEF r
  <2>3. "handoff" \in Operations \ {"execute"} /\ "handoff" # "cancel"
    BY DEF Operations
  <2>4. record'.status \in {"absent", "ready", "cancelled"} => record'.dispatches = 0
    BY <2>1 DEF AgentInv, RecordInv
  <2> QED
    BY <1>0, <2>1, <2>2, <2>3, <2>4, StoreKeeps
<1>5. ASSUME NEW k \in Keys, NEW x \in Contents, Cleanup(k, x) PROVE AgentInv'
  <2>1. record.status \in Terminal /\ Fresh("cleanup", k) /\ UNCHANGED <<inflight, calls>>
    BY <1>5 DEF Cleanup, CleanupGuard
  <2>2. PICK marker \in {"cleaned", "not_cleaned"} :
            /\ record' = [record EXCEPT !.cleanup = marker]
            /\ Reserve("cleanup", k, x, Result(marker, record.sequence))
    BY <1>5 DEF Cleanup
  <2> DEFINE r == Result(marker, record.sequence)
  <2>3. r \in ResultRec
    BY <1>0 DEF Result, ResultRec
  <2>4. Reserve("cleanup", k, x, r)
    BY <2>2
  <2> HIDE DEF r
  <2>5. "cleanup" \in Operations \ {"execute"} /\ "cleanup" # "cancel"
    BY DEF Operations
  <2>6. /\ record' \in RecordRec /\ record'.status = record.status
        /\ record'.dispatches = record.dispatches
    BY <1>0, <2>2 DEF RecordRec
  <2>7. record'.status \in {"absent", "ready", "cancelled"} => record'.dispatches = 0
    BY <2>6 DEF AgentInv, RecordInv
  <2>8. record'.status # "absent"
    BY <2>1, <2>6 DEF Terminal
  <2> QED
    BY <2>1, <2>3, <2>4, <2>5, <2>6, <2>7, <2>8, StoreKeeps
<1>6. ASSUME NEW o \in Operations, NEW k \in Keys, NEW x \in Contents, NEW y,
             AnswerAgain(o, k, x, y)
      PROVE  AgentInv'
  <2> DEFINE g == [content |-> x, claim |-> y, result |-> replay[o][k].result]
  <2>1. /\ ~Fresh(o, k) /\ replay[o][k].fingerprint = y
        /\ UNCHANGED <<record, replay, inflight, calls>>
        /\ answers' = [answers EXCEPT ![o][k] = answers[o][k] \cup {g}]
    BY <1>6 DEF AnswerAgain, Answer, AgentInv, AgentTypeOK
  <2>2. replay[o][k] \in AnswerRec
    BY <2>1 DEF AgentInv, AgentTypeOK, Fresh
  <2>3. g \in GivenRec /\ g.claim = y /\ g.result = replay[o][k].result
    BY <2>1, <2>2 DEF AnswerRec, GivenRec
  <2> HIDE DEF g
  <2>4. /\ answers' \in [Operations -> [Keys -> SUBSET GivenRec]]
        /\ answers'[o][k] = answers[o][k] \cup {g}
        /\ \A p \in Operations, j \in Keys : p # o \/ j # k => answers'[p][j] = answers[p][j]
    BY <2>1, <2>3 DEF AgentInv, AgentTypeOK
  <2>5. StoredInv'
    <3>1. SUFFICES ASSUME NEW p \in Operations, NEW j \in Keys
                   PROVE  /\ replay[p][j] = NoAnswer => answers'[p][j] = {}
                          /\ replay[p][j] # NoAnswer =>
                                \E b \in answers'[p][j] : b.content = replay[p][j].fingerprint
                          /\ \A b \in answers'[p][j] : /\ b.claim = replay[p][j].fingerprint
                                                       /\ b.result = replay[p][j].result
      BY <2>1 DEF StoredInv, Fresh
    <3>2. CASE p = o /\ j = k
      BY <2>1, <2>3, <2>4, <3>2 DEF AgentInv, StoredInv, Fresh
    <3>3. CASE p # o \/ j # k
      BY <2>4, <3>3 DEF AgentInv, StoredInv, Fresh
    <3> QED
      BY <3>2, <3>3
  <2> QED
    BY <2>1, <2>4, <2>5 DEF AgentInv, AgentTypeOK, GateInv, RecordInv, Fresh
<1>7. ASSUME NEW c \in Callers, LeaveExecute(c) PROVE AgentInv'
  <2>1. /\ calls[c].at = "leaving" /\ inflight' = inflight \ {calls[c].key}
        /\ calls' = [calls EXCEPT ![c] = Away] /\ UNCHANGED <<record, replay, answers>>
    BY <1>7 DEF LeaveExecute
  <2>2. calls[c] # Away
    BY <2>1, AwayIsNowhere
  <2>3. AgentTypeOK' /\ calls'[c] = Away /\ \A d \in Callers : d # c => calls'[d] = calls[d]
    BY <2>1 DEF AgentInv, AgentTypeOK
  <2>4. GateInv'
    BY <2>1, <2>2, <2>3 DEF AgentInv, GateInv, Fresh
  <2> QED
    BY <2>1, <2>3, <2>4 DEF AgentInv, StoredInv, RecordInv, Fresh
<1>8. CASE UNCHANGED agentVars
  BY <1>8, AgentFrame DEF agentVars
<1>9. \A r \in Requests : r[1] \in Operations /\ r[2] \in Keys /\ r[3] \in Contents
  BY RequestsAssumption DEF Operations, Contents
<1> QED
  BY <1>1, <1>2, <1>3, <1>4, <1>5, <1>6, <1>7, <1>8, <1>9, PassGateKeeps DEF AgentNext

(* However many executes wait at the gate, the agent is dispatched at most *)
(* once, and not at all once a cancellation was confirmed.                 *)
THEOREM AgentDispatchedOnce == AgentSpec => []DispatchedOnce
<1>1. ASSUME AgentInv PROVE DispatchedOnce
  <2>1. record.dispatches <= 1
    BY <1>1 DEF AgentInv, AgentTypeOK, RecordRec
  <2>2. ASSUME NEW k \in Keys, NEW a \in answers["cancel"][k], a.result.status = "cancelled"
        PROVE  record.dispatches = 0
    <3>1. a.result = replay["cancel"][k].result
      <4>1. "cancel" \in Operations
        BY DEF Operations
      <4> QED
        BY <1>1, <4>1 DEF AgentInv, StoredInv
    <3> QED
      BY <1>1, <2>2, <3>1 DEF AgentInv, RecordInv
  <2> QED
    BY <2>1, <2>2 DEF DispatchedOnce
<1> QED
  BY <1>1, AgentInitInv, AgentNextInv, PTL DEF AgentSpec

(* Every key of every operation has one answer, computed for a request     *)
(* that carried its own fingerprint and given only to those claiming it.   *)
THEOREM AgentAnswersStand == AgentSpec => []AnswersStand
<1>1. ASSUME AgentInv PROVE AnswersStand
  <2>1. SUFFICES ASSUME NEW o \in Operations, NEW k \in Keys, answers[o][k] # {}
                 PROVE  \E first \in answers[o][k] :
                           /\ first.content = first.claim
                           /\ \A a \in answers[o][k] :
                                 a.claim = first.claim /\ a.result = first.result
    BY DEF AnswersStand
  <2>2. PICK first \in answers[o][k] : first.content = replay[o][k].fingerprint
    BY <1>1, <2>1 DEF AgentInv, StoredInv
  <2>3. \A a \in answers[o][k] : /\ a.claim = replay[o][k].fingerprint
                                 /\ a.result = replay[o][k].result
    BY <1>1 DEF AgentInv, StoredInv
  <2> QED
    BY <2>2, <2>3
<1> QED
  BY <1>1, AgentInitInv, AgentNextInv, PTL DEF AgentSpec

(* The composition of the three does to each what that one does alone.     *)
THEOREM PartsOfRuntime ==
    RuntimeSpec => /\ Init /\ [][Next]_vars
                   /\ ProviderInit /\ [][ProviderNext]_providerVars
                   /\ AgentSpec
<1>1. RuntimeInit => Init /\ ProviderInit /\ AgentInit
  BY DEF RuntimeInit
<1>2. [RuntimeNext]_runtimeVars
        => [Next]_vars /\ [ProviderNext]_providerVars /\ [AgentNext]_agentVars
  BY DEF RuntimeNext, OfPool, OfProvider, OfAgent, runtimeVars
<1> QED
  BY <1>1, <1>2, PTL DEF RuntimeSpec, AgentSpec
=============================================================================
