--------------------------- MODULE FleetV1_proofs ---------------------------
(***************************************************************************)
(* For any manifests, any number of tasks and invocations: what pd         *)
(* fleet-run dispatches is behind no barrier, what a checkpoint has as     *)
(* completed stays as it was, and, if no manifest has a dependency on a    *)
(* later wave, "completed" means that every task is.                       *)
(***************************************************************************)
EXTENDS FleetV1, Induction_proofs, FiniteSetTheorems

-----------------------------------------------------------------------------
(* The lifecycles.                                                         *)
Life == [status : States, attempt : Nat, retryable : BOOLEAN]
LivesOfTasks == [Tasks -> Life]

(* What the methods of TaskLifecycle return.                               *)
LEMMA MovedIsLife ==
    ASSUME NEW l \in Life, NEW s \in States
    PROVE  Move(l, s) \in Life /\ Move(l, s).status = s
BY DEF Move, Life

LEMMA StartedIsLife ==
    ASSUME NEW l \in Life
    PROVE  /\ Start(l) \in Life /\ Start(l).status = "running"
           /\ MarkReady(l) \in Life /\ Retry(l) \in Life
           /\ \A r \in BOOLEAN : Fail(l, r) \in Life /\ Fail(l, r).status = "failed"
<1>1. "running" \in States /\ "ready" \in States /\ "failed" \in States
  BY DEF States
<1>2. Start(l) \in Life /\ Start(l).status = "running"
  BY <1>1 DEF Start, Life
<1>3. MarkReady(l) \in Life
  BY <1>1, MovedIsLife DEF MarkReady
<1>4. Retry(l) \in Life
  <2> DEFINE again == l.attempt + 1
  <2>1. again \in Nat
    BY DEF Life
  <2>2. Retry(l) = [l EXCEPT !.status = "ready", !.attempt = again]
    BY DEF Retry
  <2> HIDE DEF again
  <2> QED
    BY <1>1, <2>1, <2>2 DEF Life
<1>5. \A r \in BOOLEAN : Fail(l, r) \in Life /\ Fail(l, r).status = "failed"
  BY <1>1 DEF Fail, Life
<1> QED
  BY <1>2, <1>3, <1>4, <1>5

(* One pass of _block_unresolvable blocks tasks that are not over, and     *)
(* leaves none that is not over and has no agent.                          *)
LEMMA PassBlocks ==
    ASSUME NEW lives \in LivesOfTasks
    PROVE  /\ BlockUnresolvable(lives) \in LivesOfTasks
           /\ \A t \in Tasks :
                /\ \/ BlockUnresolvable(lives)[t] = lives[t]
                   \/ /\ BlockUnresolvable(lives)[t].status = "blocked"
                      /\ lives[t].status \notin Over
                /\ BlockUnresolvable(lives)[t].status \notin Over => Fit(t)
<1> DEFINE Hit(ls, i) == /\ ls[i].status \notin Over
                         /\ \/ ~Fit(i)
                            \/ \E d \in plan.deps[i] : ls[d].status \in {"failed", "blocked"}
           Passed(ls, i) == IF Hit(ls, i) THEN [ls EXCEPT ![i] = Move(@, "blocked")] ELSE ls
           g == [i \in 1 .. N |-> [ls \in LivesOfTasks |-> Passed(ls, i)]]
           Pass(f) == [i \in 0 .. N |-> IF i = 0 THEN lives ELSE Passed(f[i - 1], i)]
<1>1. N \in Nat /\ Tasks = 1 .. N
  BY BoundsAssumption DEF Tasks
<1>2. ASSUME NEW ls \in LivesOfTasks, NEW i \in Tasks
      PROVE  /\ Passed(ls, i) \in LivesOfTasks
             /\ \A t \in Tasks \ {i} : Passed(ls, i)[t] = ls[t]
             /\ \/ Passed(ls, i)[i] = ls[i]
                \/ Passed(ls, i)[i].status = "blocked" /\ ls[i].status \notin Over
             /\ Passed(ls, i)[i].status \notin Over => Fit(i)
  <2>1. ls[i] \in Life /\ Move(ls[i], "blocked") \in Life /\ Move(ls[i], "blocked").status = "blocked"
    BY MovedIsLife DEF LivesOfTasks, States
  <2>2. CASE Hit(ls, i)
    <3>1. Passed(ls, i) = [ls EXCEPT ![i] = Move(ls[i], "blocked")]
      BY <2>2
    <3>2. Passed(ls, i)[i] = Move(ls[i], "blocked")
      BY <3>1 DEF LivesOfTasks
    <3> QED
      BY <2>1, <2>2, <3>1, <3>2 DEF LivesOfTasks, Over
  <2>3. CASE ~Hit(ls, i)
    BY <2>3
  <2> QED
    BY <2>2, <2>3
<1>3. g \in [1 .. N -> [LivesOfTasks -> LivesOfTasks]]
  BY <1>1, <1>2
<1> HIDE DEF g
<1>4. PICK f \in [0 .. N -> LivesOfTasks] : f[0] = lives /\ \A i \in 1 .. N : f[i] = g[i][f[i - 1]]
  BY <1>1, <1>3, RecursionExists
<1>5. f = Pass(f)
  <2>1. ASSUME NEW i \in 1 .. N PROVE f[i] = Passed(f[i - 1], i)
    <3>1. f[i - 1] \in LivesOfTasks /\ f[i] = g[i][f[i - 1]]
      BY <1>1, <1>4
    <3> HIDE DEF Passed
    <3> QED
      BY <3>1 DEF g
  <2> HIDE DEF Passed
  <2>2. \A i \in 0 .. N : i # 0 => i \in 1 .. N
    BY <1>1
  <2> QED
    BY <1>4, <2>1, <2>2
<1> DEFINE pass == CHOOSE p : p = Pass(p)
<1>6. pass = Pass(pass)
  <2> HIDE DEF Pass
  <2> QED
    BY <1>5
<1>7. BlockUnresolvable(lives) = pass[N]
  BY DEF BlockUnresolvable
<1> HIDE DEF Passed, pass
<1>8. pass[0] = lives /\ \A i \in 1 .. N : pass[i] = Passed(pass[i - 1], i)
  BY <1>1, <1>6
<1> HIDE DEF Pass
<1> DEFINE Kept(k) ==
        /\ pass[k] \in LivesOfTasks
        /\ \A t \in Tasks :
              /\ \/ pass[k][t] = lives[t]
                 \/ pass[k][t].status = "blocked" /\ lives[t].status \notin Over
              /\ t > k => pass[k][t] = lives[t]
              /\ t <= k /\ pass[k][t].status \notin Over => Fit(t)
           T == {k \in Nat : k <= N => Kept(k)}
<1>9. 0 \in T
  BY <1>1, <1>8
<1>10. ASSUME NEW k \in T PROVE k + 1 \in T
  <2> SUFFICES ASSUME k + 1 <= N PROVE Kept(k + 1)
    OBVIOUS
  <2>1. Kept(k) /\ k + 1 \in Tasks /\ k + 1 \in 1 .. N /\ (k + 1) - 1 = k
    BY <1>1
  <2>2. pass[k + 1] = Passed(pass[k], k + 1)
    BY <1>8, <2>1
  <2>3. /\ pass[k + 1] \in LivesOfTasks
        /\ \A t \in Tasks \ {k + 1} : pass[k + 1][t] = pass[k][t]
        /\ \/ pass[k + 1][k + 1] = pass[k][k + 1]
           \/ pass[k + 1][k + 1].status = "blocked" /\ pass[k][k + 1].status \notin Over
        /\ pass[k + 1][k + 1].status \notin Over => Fit(k + 1)
    BY <1>2, <2>1, <2>2
  <2>4. pass[k][k + 1] = lives[k + 1]
    BY <2>1
  <2>5. ASSUME NEW t \in Tasks
        PROVE  /\ \/ pass[k + 1][t] = lives[t]
                  \/ pass[k + 1][t].status = "blocked" /\ lives[t].status \notin Over
               /\ t > k + 1 => pass[k + 1][t] = lives[t]
               /\ t <= k + 1 /\ pass[k + 1][t].status \notin Over => Fit(t)
    <3>1. CASE t = k + 1
      BY <2>3, <2>4, <3>1
    <3>2. CASE t # k + 1
      <4>1. pass[k + 1][t] = pass[k][t] /\ (t > k + 1 => t > k) /\ (t <= k + 1 => t <= k)
        BY <1>1, <2>3, <3>2
      <4> QED
        BY <2>1, <4>1
    <3> QED
      BY <3>1, <3>2
  <2> QED
    BY <2>3, <2>5
<1>11. Kept(N)
  <2> HIDE DEF Kept
  <2>1. T \in SUBSET Nat
    OBVIOUS
  <2>2. T = Nat
    <3> HIDE DEF T
    <3> QED
      BY <1>9, <1>10, <2>1, InductionOnSet
  <2> QED
    BY <1>1, <2>2
<1> QED
  BY <1>1, <1>7, <1>11

-----------------------------------------------------------------------------
(* Types.                                                                  *)
Checkpoints == {NoCheckpoint} \cup LivesOfTasks
Decisions ==
    [kind : {"human"}, run : RunIds, scope : Plans, verdict : Verdicts, updated : Nat]
        \cup [kind : {"automatic"}, verdict : Verdicts]
GateWaves == UNION {Waves(p) : p \in Plans}

Invocation ==
    [pc : {"idle", "wave", "task", "dispatched", "stall", "end"}, dry : BOOLEAN,
     id : RunIds \cup {""}, file : BOOLEAN, wave : Nat, batch : SUBSET Tasks, opened : Nat,
     seen : SUBSET Tasks, hook : Checkpoints, loaded : Checkpoints,
     outcome : {"none", "dry_run", "blocked", "failed", "completed"}]

V1Types ==
    /\ plan \in Plans /\ now \in Nat
    /\ gates \in [GateWaves -> {NoDecision} \cup Decisions]
    /\ disk \in Checkpoints /\ life \in LivesOfTasks
    /\ run \in Invocation

LEMMA IdleIsTyped ==
    /\ Idle \in Invocation /\ Idle.pc = "idle" /\ Idle.loaded = NoCheckpoint
    /\ Idle.hook = NoCheckpoint /\ Idle.outcome = "none"
BY DEF Idle, Invocation, Checkpoints

LEMMA PlanFacts ==
    ASSUME plan \in Plans
    PROVE  /\ plan.wave \in [Tasks -> Nat] /\ plan.deps \in [Tasks -> SUBSET Tasks]
           /\ plan.status \in [Tasks -> States] /\ plan.max \in [Tasks -> Nat \ {0}]
           /\ Waves(plan) \subseteq Nat /\ Waves(plan) # {} /\ Waves(plan) \subseteq GateWaves
<1>1. WellFormed(plan)
  BY PlansAssumption
<1>2. 1 \in Tasks
  BY BoundsAssumption DEF Tasks
<1> QED
  BY <1>1, <1>2 DEF WellFormed, Waves, GateWaves

(* New lifecycles, and those of a checkpoint.                              *)
LEMMA NewLivesTyped ==
    ASSUME V1Types
    PROVE  /\ [t \in Tasks |-> Declared(t)] \in LivesOfTasks
           /\ [t \in Tasks |-> NewLife("pending")] \in LivesOfTasks
<1>1. \A s \in States : NewLife(s) \in Life
  BY DEF NewLife, Life
<1>2. \A t \in Tasks : plan.status[t] \in States
  BY PlanFacts DEF V1Types
<1>3. "pending" \in States /\ "ready" \in States
  BY DEF States
<1>4. \A t \in Tasks : Declared(t) \in Life
  BY <1>1, <1>2, <1>3 DEF Declared
<1> QED
  BY <1>1, <1>3, <1>4 DEF LivesOfTasks

LEMMA ResumedTyped ==
    ASSUME V1Types, disk # NoCheckpoint
    PROVE  /\ [t \in Tasks |-> Resumed(t)] \in LivesOfTasks
           /\ \A t \in Tasks : disk[t].status \in Over => Resumed(t) = disk[t]
           /\ \A t \in Tasks : disk[t] \in Life
<1>1. \A t \in Tasks : disk[t] \in Life
  BY DEF V1Types, Checkpoints, LivesOfTasks
<1>2. "ready" \in States
  BY DEF States
<1>3. \A t \in Tasks : Resumed(t) \in Life
  BY <1>1, <1>2, MovedIsLife DEF Resumed
<1>4. \A t \in Tasks : disk[t].status \in Over => Resumed(t) = disk[t]
  BY DEF Resumed, Over
<1> QED
  BY <1>1, <1>3, <1>4 DEF LivesOfTasks

(* _block_wave_stalls blocks tasks that have not begun.                    *)
LEMMA StallsBlock ==
    ASSUME V1Types, NEW w
    PROVE  /\ BlockWaveStalls(w) \in LivesOfTasks
           /\ \A t \in Tasks :
                \/ BlockWaveStalls(w)[t] = life[t]
                \/ BlockWaveStalls(w)[t].status = "blocked" /\ life[t].status \notin Over
           /\ \A t \in Tasks :
                plan.wave[t] = w /\ life[t].status \in {"pending", "ready"}
                  /\ w \in plan.gated /\ ~GatePassed(w)
                => BlockWaveStalls(w)[t].status = "blocked"
<1>1. "blocked" \in States
  BY DEF States
<1>2. \A t \in Tasks : life[t] \in Life
  BY DEF V1Types, LivesOfTasks
<1>3. \A t \in Tasks : Move(life[t], "blocked") \in Life /\ Move(life[t], "blocked").status = "blocked"
  BY <1>1, <1>2, MovedIsLife
<1>4. \A t \in Tasks : life[t].status \in {"pending", "ready"} => life[t].status \notin Over
  BY DEF Over
<1> QED
  BY <1>2, <1>3, <1>4 DEF BlockWaveStalls, LivesOfTasks

-----------------------------------------------------------------------------
(* A batch in progress: none of its tasks is over, and all are cleared.    *)
NotOver(t) == life[t].status \notin Over

GateCleared(t) ==
    LET w == plan.wave[t]
    IN w \in plan.gated =>
          /\ run.file /\ gates[w] # NoDecision /\ gates[w].verdict = "approved"
          /\ gates[w].kind = "human" =>
                /\ run.id # "" /\ gates[w].run = run.id /\ gates[w].scope = plan
                /\ run.opened <= gates[w].updated + Window

Cleared(t) ==
    /\ plan.deps[t] \subseteq Terminal
    /\ \A u \in Tasks : plan.wave[u] < plan.wave[t] => u \in Terminal
    /\ GateCleared(t)

BatchInv ==
    run.pc \in {"task", "dispatched"} =>
        run.batch # {} /\ \A t \in run.batch : NotOver(t) /\ Cleared(t)

(* What is over stays as it is.                                            *)
OverStays == \A t \in Tasks : life[t].status \in Over => life'[t] = life[t]

LEMMA CurrentInBatch ==
    ASSUME V1Types, run.batch # {}
    PROVE  Current \in run.batch /\ Current \in Tasks
<1>0. run.batch \in SUBSET Tasks
  BY DEF V1Types, Invocation
<1>1. run.batch \subseteq Tasks /\ run.batch \in SUBSET Nat
  BY <1>0, BoundsAssumption DEF Tasks
<1>2. \E t \in run.batch : \A u \in run.batch : t <= u
  BY <1>1, LeastNumber
<1> QED
  BY <1>1, <1>2 DEF Current

LEMMA TerminalGrows ==
    ASSUME plan' = plan, OverStays
    PROVE  Terminal \subseteq Terminal'
BY DEF Terminal, OverStays, Over

LEMMA ClearedStays ==
    ASSUME UNCHANGED <<plan, gates>>, run'.id = run.id /\ run'.file = run.file, run'.opened = run.opened,
           Terminal \subseteq Terminal', NEW t \in Tasks, Cleared(t)
    PROVE  Cleared(t)'
BY DEF Cleared, GateCleared

(* The current task gets another lifecycle.                                *)
LEMMA CurrentChanges ==
    ASSUME V1Types, BatchInv, run.pc \in {"task", "dispatched"}, NEW l \in Life,
           NEW lives, lives = [life EXCEPT ![Current] = l]
    PROVE  /\ Current \in run.batch /\ Current \in Tasks /\ life[Current] \in Life
           /\ lives \in LivesOfTasks /\ lives[Current] = l
           /\ \A t \in Tasks \ {Current} : lives[t] = life[t]
           /\ \A t \in Tasks : life[t].status \in Over => lives[t] = life[t]
<1>1. Current \in run.batch /\ Current \in Tasks /\ NotOver(Current)
  BY CurrentInBatch DEF BatchInv
<1>2. life \in [Tasks -> Life]
  BY DEF V1Types, LivesOfTasks
<1>3. lives \in [Tasks -> Life] /\ lives[Current] = l
      /\ \A t \in Tasks \ {Current} : lives[t] = life[t]
  BY <1>1, <1>2
<1>4. life[Current] \in Life
  BY <1>1, <1>2
<1>5. \A t \in Tasks : life[t].status \in Over => lives[t] = life[t]
  BY <1>1, <1>3 DEF NotOver
<1> QED
  BY <1>1, <1>3, <1>4, <1>5 DEF LivesOfTasks

(* AfterTask: the rest of the batch goes on, or the batch ends with a pass *)
(* of _block_unresolvable.                                                 *)
LEMMA AfterTaskFacts ==
    ASSUME V1Types, NEW lives \in LivesOfTasks, AfterTask(lives)
    PROVE  /\ UNCHANGED <<plan, gates, now, disk>>
           /\ life' \in LivesOfTasks /\ run' \in Invocation
           /\ run'.dry = run.dry /\ run'.id = run.id /\ run'.wave = run.wave /\ run'.seen = run.seen
           /\ run'.loaded = run.loaded /\ run'.outcome = run.outcome /\ run'.file = run.file
           /\ run'.hook = life' /\ run'.batch = run.batch \ {Current}
           /\ \/ /\ run'.pc = "task" /\ run.batch # {Current}
                 /\ run'.opened = run.opened /\ life' = lives
              \/ run'.pc = "wave" /\ run.batch = {Current} /\ life' = BlockUnresolvable(lives)
           /\ \A t \in Tasks : \/ life'[t] = lives[t]
                               \/ life'[t].status = "blocked" /\ lives[t].status \notin Over
<1> DEFINE last == run.batch = {Current}
<1>1. /\ life' = IF last THEN BlockUnresolvable(lives) ELSE lives
      /\ UNCHANGED <<plan, gates, now, disk>>
  BY DEF AfterTask
<1>2. life' \in LivesOfTasks
  BY <1>1, PassBlocks
<1>3. run' = [run EXCEPT !.pc = IF last THEN "wave" ELSE "task",
                         !.opened = IF last THEN 0 ELSE run.opened,
                         !.batch = run.batch \ {Current}, !.hook = life']
  BY DEF AfterTask, V1Types, Invocation
<1>4. run \in Invocation /\ life' \in Checkpoints
  BY <1>2 DEF V1Types, Checkpoints
<1>5. run' \in Invocation
  BY <1>3, <1>4 DEF Invocation
<1>6. /\ run'.dry = run.dry /\ run'.id = run.id /\ run'.wave = run.wave /\ run'.seen = run.seen
      /\ run'.loaded = run.loaded /\ run'.outcome = run.outcome /\ run'.file = run.file
      /\ run'.hook = life' /\ run'.batch = run.batch \ {Current}
      /\ run'.pc = (IF last THEN "wave" ELSE "task")
      /\ run'.opened = (IF last THEN 0 ELSE run.opened)
  BY <1>3, <1>4 DEF Invocation
<1>7. \A t \in Tasks : \/ life'[t] = lives[t]
                       \/ life'[t].status = "blocked" /\ lives[t].status \notin Over
  BY <1>1, PassBlocks
<1> HIDE DEF last
<1>8. last <=> run.batch = {Current}
  BY DEF last
<1> QED
  BY <1>1, <1>2, <1>5, <1>6, <1>7, <1>8

(* What a step within an invocation leaves alone.                          *)
GoesOn ==
    /\ V1Types' /\ BatchInv' /\ OverStays
    /\ UNCHANGED <<plan, gates, now, disk>>
    /\ run'.loaded = run.loaded /\ run'.dry = run.dry /\ run'.outcome = run.outcome

(* The end of one task, whatever it is, and the batch goes on.             *)
LEMMA AfterTaskGoesOn ==
    ASSUME V1Types, BatchInv, run.pc \in {"task", "dispatched"}, NEW l \in Life,
           AfterTask([life EXCEPT ![Current] = l])
    PROVE  GoesOn
<1> DEFINE lives == [life EXCEPT ![Current] = l]
<1>1. /\ Current \in run.batch /\ Current \in Tasks
      /\ lives \in LivesOfTasks
      /\ \A t \in Tasks \ {Current} : lives[t] = life[t]
      /\ \A t \in Tasks : life[t].status \in Over => lives[t] = life[t]
  BY CurrentChanges
<1>2. AfterTask(lives)
  OBVIOUS
<1> HIDE DEF lives
<1>3. /\ UNCHANGED <<plan, gates, now, disk>>
      /\ life' \in LivesOfTasks /\ run' \in Invocation
      /\ run'.id = run.id /\ run'.file = run.file /\ run'.loaded = run.loaded /\ run'.dry = run.dry
      /\ run'.outcome = run.outcome /\ run'.batch = run.batch \ {Current}
      /\ \A t \in Tasks : \/ life'[t] = lives[t]
                          \/ life'[t].status = "blocked" /\ lives[t].status \notin Over
  BY <1>1, <1>2, AfterTaskFacts
<1>4. \/ run'.pc = "task" /\ run.batch # {Current} /\ run'.opened = run.opened /\ life' = lives
      \/ run'.pc = "wave"
  BY <1>1, <1>2, AfterTaskFacts
<1>5. OverStays
  BY <1>1, <1>3 DEF OverStays
<1>6. V1Types'
  BY <1>3 DEF V1Types
<1>7. BatchInv'
  <2> SUFFICES ASSUME run'.pc \in {"task", "dispatched"}
               PROVE  run'.batch # {} /\ \A t \in run'.batch : NotOver(t)' /\ Cleared(t)'
    BY DEF BatchInv
  <2>1. run.batch # {Current} /\ run'.opened = run.opened /\ life' = lives
    BY <1>4
  <2>2. run'.batch # {} /\ run'.batch \subseteq run.batch \ {Current}
    BY <1>1, <1>3, <2>1
  <2>3. Terminal \subseteq Terminal'
    BY <1>3, <1>5, TerminalGrows
  <2>4. ASSUME NEW t \in run'.batch PROVE NotOver(t)' /\ Cleared(t)'
    <3>1. t \in Tasks /\ t # Current /\ NotOver(t) /\ Cleared(t)
      BY <2>2, <2>4 DEF BatchInv, V1Types, Invocation
    <3> QED
      BY <1>1, <1>3, <2>1, <2>3, <3>1, ClearedStays DEF NotOver
  <2> QED
    BY <2>2, <2>4
<1> QED
  BY <1>3, <1>5, <1>6, <1>7 DEF GoesOn

(* What is ready is cleared, by a decision that is fresh or by a result    *)
(* that passes.                                                            *)
LEMMA PickedIsCleared ==
    ASSUME V1Types, UNCHANGED <<plan, gates, life>>, run'.id = run.id /\ run'.file = run.file, run'.opened = now,
           NEW t \in Tasks, Ready(t)
    PROVE  NotOver(t)' /\ Cleared(t)'
<1>1. Terminal' = Terminal
  BY DEF Terminal
<1>2. NotOver(t)'
  BY DEF NotOver, Ready, Over
<1>3. plan.deps[t] \subseteq Terminal /\ \A u \in Tasks : plan.wave[u] < plan.wave[t] => u \in Terminal
  BY DEF Ready
<1>4. ASSUME plan.wave[t] \in plan.gated
      PROVE  LET w == plan.wave[t]
             IN /\ run.file /\ gates[w] # NoDecision /\ gates[w].verdict = "approved"
                /\ gates[w].kind = "human" =>
                      /\ run.id # "" /\ gates[w].run = run.id /\ gates[w].scope = plan
                      /\ now <= gates[w].updated + Window
  <2> DEFINE entry == gates[plan.wave[t]]
  <2>1. /\ run.file
        /\ \/ /\ entry.kind = "human" /\ run.id # "" /\ entry.run = run.id /\ entry.scope = plan
              /\ entry.verdict = "approved" /\ now <= entry.updated + Window
           \/ entry.kind = "automatic" /\ entry.verdict = "approved"
    BY <1>4 DEF Ready, GatePassed, GateScope, DecisionAllows, PolicyAllows
  <2> HIDE DEF entry
  <2>2. entry # NoDecision
    <3>1. NoDecision.kind = "none"
      BY DEF NoDecision
    <3> QED
      BY <2>1, <3>1
  <2> QED
    BY <2>1, <2>2 DEF entry
<1>5. GateCleared(t)'
  BY <1>4 DEF GateCleared
<1> QED
  BY <1>1, <1>2, <1>3, <1>5 DEF Cleared

LEMMA PickBatchGoesOn ==
    ASSUME V1Types, BatchInv, PickBatch
    PROVE  GoesOn
<1> DEFINE ready == ReadyIds(run.wave)
           batch == {t \in ready : Cardinality({u \in ready : u < t}) < MaxParallel}
<1>1. /\ ready # {} /\ UNCHANGED <<plan, gates, now, disk, life>>
      /\ run' = [run EXCEPT !.pc = "task", !.opened = now, !.batch = batch]
  BY DEF PickBatch
<1>2. ready \in SUBSET Tasks /\ ready \in SUBSET Nat
  BY BoundsAssumption DEF ReadyIds, Tasks
<1>3. batch # {}
  <2> HIDE DEF ready
  <2>1. PICK t \in ready : \A u \in ready : t <= u
    BY <1>1, <1>2, LeastNumber
  <2>2. {u \in ready : u < t} = {}
    <3>1. \A a, b \in Nat : a <= b => ~(b < a)
      OBVIOUS
    <3>2. \A u \in ready : u \in Nat
      BY <1>2
    <3>3. \A u \in ready : ~(u < t)
      BY <2>1, <3>1, <3>2, Zenon
    <3> QED
      BY <3>3, Zenon
  <2>3. Cardinality({u \in ready : u < t}) < MaxParallel
    BY <2>2, FS_EmptySet, BoundsAssumption
  <2> QED
    BY <2>1, <2>3
<1>4. batch \in SUBSET Tasks /\ \A t \in batch : Ready(t)
  BY DEF ReadyIds
<1> HIDE DEF batch
<1>5. run \in Invocation /\ now \in Nat
  BY DEF V1Types
<1>6. /\ run' \in Invocation /\ run'.id = run.id /\ run'.file = run.file /\ run'.opened = now /\ run'.batch = batch
      /\ run'.loaded = run.loaded /\ run'.dry = run.dry /\ run'.outcome = run.outcome
  BY <1>1, <1>4, <1>5 DEF Invocation
<1>7. BatchInv'
  BY <1>1, <1>3, <1>4, <1>6, PickedIsCleared DEF BatchInv
<1> QED
  BY <1>1, <1>6, <1>7 DEF GoesOn, V1Types, OverStays

LEMMA StartGoesOn ==
    ASSUME V1Types, BatchInv, StartTask
    PROVE  GoesOn /\ run'.pc = "dispatched" /\ life'[Current].status = "running"
<1> DEFINE l == Start(MarkReady(life[Current]))
<1>1. /\ run.pc = "task" /\ run' = [run EXCEPT !.pc = "dispatched"]
      /\ UNCHANGED <<plan, gates, now, disk>> /\ run \in Invocation
  BY DEF StartTask, V1Types
<1>2. Current \in run.batch /\ Current \in Tasks /\ life[Current] \in Life
  BY <1>1, CurrentInBatch DEF BatchInv, V1Types, LivesOfTasks
<1>3. l \in Life /\ l.status = "running"
  BY <1>2, StartedIsLife
<1>4. life' = [life EXCEPT ![Current] = l]
  BY <1>2 DEF StartTask, V1Types, LivesOfTasks
<1> HIDE DEF l
<1>5. /\ life' \in LivesOfTasks /\ life'[Current] = l
      /\ \A t \in Tasks \ {Current} : life'[t] = life[t]
      /\ \A t \in Tasks : life[t].status \in Over => life'[t] = life[t]
  BY <1>1, <1>3, <1>4, CurrentChanges
<1>6. /\ run' \in Invocation /\ run'.pc = "dispatched" /\ run'.batch = run.batch /\ run'.id = run.id /\ run'.file = run.file
      /\ run'.opened = run.opened
      /\ run'.loaded = run.loaded /\ run'.dry = run.dry /\ run'.outcome = run.outcome
  BY <1>1 DEF Invocation
<1>7. OverStays /\ V1Types'
  BY <1>1, <1>5, <1>6 DEF OverStays, V1Types
<1>8. Terminal \subseteq Terminal'
  BY <1>1, <1>7, TerminalGrows
<1>9. ASSUME NEW t \in run.batch PROVE NotOver(t)' /\ Cleared(t)'
  <2>0. run.batch \in SUBSET Tasks
    BY <1>1 DEF Invocation
  <2>1. t \in Tasks /\ NotOver(t) /\ Cleared(t)
    BY <1>1, <2>0 DEF BatchInv
  <2>2. NotOver(t)'
    BY <1>3, <1>5, <2>1 DEF NotOver, Over
  <2> QED
    BY <1>1, <1>6, <1>8, <2>1, <2>2, ClearedStays
<1>10. BatchInv'
  BY <1>1, <1>6, <1>9 DEF BatchInv
<1> QED
  BY <1>1, <1>3, <1>5, <1>6, <1>7, <1>10 DEF GoesOn

LEMMA RetryGoesOn ==
    ASSUME V1Types, BatchInv, TaskRetried
    PROVE  GoesOn /\ life'[Current].status = "running"
<1> DEFINE failed == Fail(life[Current], TRUE)
           l == Start(Retry(failed))
<1>1. run.pc = "dispatched" /\ UNCHANGED <<plan, gates, now, disk, run>> /\ run \in Invocation
  BY DEF TaskRetried, V1Types
<1>2. Current \in run.batch /\ Current \in Tasks /\ life[Current] \in Life
  BY <1>1, CurrentInBatch DEF BatchInv, V1Types, LivesOfTasks
<1>3. l \in Life /\ l.status = "running"
  BY <1>2, StartedIsLife
<1>4. life' = [life EXCEPT ![Current] = l]
  BY <1>2 DEF TaskRetried
<1> HIDE DEF l
<1>5. /\ life' \in LivesOfTasks /\ life'[Current] = l
      /\ \A t \in Tasks \ {Current} : life'[t] = life[t]
      /\ \A t \in Tasks : life[t].status \in Over => life'[t] = life[t]
  BY <1>1, <1>3, <1>4, CurrentChanges
<1>6. OverStays /\ V1Types'
  BY <1>1, <1>5 DEF OverStays, V1Types
<1>7. Terminal \subseteq Terminal'
  BY <1>1, <1>6, TerminalGrows
<1>8. ASSUME NEW t \in run.batch PROVE NotOver(t)' /\ Cleared(t)'
  <2>0. run.batch \in SUBSET Tasks
    BY <1>1 DEF Invocation
  <2>1. t \in Tasks /\ NotOver(t) /\ Cleared(t)
    BY <1>1, <2>0 DEF BatchInv
  <2>2. NotOver(t)'
    BY <1>3, <1>5, <2>1 DEF NotOver, Over
  <2> QED
    BY <1>1, <1>7, <2>1, <2>2, ClearedStays
<1>9. BatchInv'
  BY <1>1, <1>8 DEF BatchInv
<1> QED
  BY <1>1, <1>3, <1>5, <1>6, <1>9 DEF GoesOn

(* A step with no batch: lifecycles change by blocking only.               *)
LEMMA BlockingGoesOn ==
    ASSUME V1Types, BatchInv, UNCHANGED <<plan, gates, now, disk>>,
           life' \in LivesOfTasks, run' \in Invocation, run'.pc \notin {"task", "dispatched"},
           \A t \in Tasks : \/ life'[t] = life[t]
                            \/ life'[t].status = "blocked" /\ life[t].status \notin Over,
           run'.loaded = run.loaded, run'.dry = run.dry, run'.outcome = run.outcome
    PROVE  GoesOn
BY DEF GoesOn, V1Types, BatchInv, OverStays

(* The hook is called with what changed.                                   *)
LEMMA HookedTyped ==
    ASSUME V1Types, NEW lives \in LivesOfTasks
    PROVE  Hooked(lives) \in Checkpoints
BY DEF Hooked, V1Types, Invocation, Checkpoints

LEMMA DryRunGoesOn ==
    ASSUME V1Types, BatchInv, MarkDryRun
    PROVE  GoesOn /\ run'.pc = "wave" /\ run.dry
<1>1. life' = BlockUnresolvable(life) /\ life \in LivesOfTasks /\ run \in Invocation
  BY DEF MarkDryRun, V1Types
<1>2. /\ life' \in LivesOfTasks
      /\ \A t \in Tasks : \/ life'[t] = life[t]
                          \/ life'[t].status = "blocked" /\ life[t].status \notin Over
  BY <1>1, PassBlocks
<1> DEFINE hook == Hooked(life')
           seen == run.seen \cup run.batch
<1>3. hook \in Checkpoints
  BY <1>2, HookedTyped
<1>4. seen \in SUBSET Tasks
  BY <1>1 DEF Invocation
<1>5. run' = [run EXCEPT !.pc = "wave", !.seen = seen, !.opened = 0, !.batch = {}, !.hook = hook]
  BY <1>1 DEF MarkDryRun, Invocation
<1> HIDE DEF hook, seen
<1>6. /\ run' \in Invocation /\ run'.pc = "wave"
      /\ run'.loaded = run.loaded /\ run'.dry = run.dry /\ run'.outcome = run.outcome
  BY <1>1, <1>3, <1>4, <1>5 DEF Invocation
<1> QED
  BY <1>2, <1>6, BlockingGoesOn DEF MarkDryRun

LEMMA DrainedGoesOn ==
    ASSUME V1Types, BatchInv, WaveDrained
    PROVE  GoesOn /\ run' = [run EXCEPT !.pc = "stall"] /\ life' = life
<1>1. run' = [run EXCEPT !.pc = "stall"] /\ UNCHANGED <<plan, gates, now, disk, life>> /\ run \in Invocation
  BY DEF WaveDrained, V1Types
<1>2. /\ run' \in Invocation /\ run'.pc = "stall"
      /\ run'.loaded = run.loaded /\ run'.dry = run.dry /\ run'.outcome = run.outcome
  BY <1>1 DEF Invocation
<1> QED
  BY <1>1, <1>2, BlockingGoesOn DEF V1Types

(* The end of a wave: either the next one, or the end of the run.          *)
LEMMA EndWaveGoesOn ==
    ASSUME V1Types, BatchInv, EndWave
    PROVE  /\ GoesOn /\ run.pc = "stall" /\ run'.seen = run.seen /\ run'.hook = Hooked(life')
           /\ \A t \in Tasks :
                \/ life'[t] = BlockWaveStalls(run.wave)[t]
                \/ life'[t].status = "blocked" /\ BlockWaveStalls(run.wave)[t].status \notin Over
           /\ \/ run'.pc = "end" /\ \A t \in Tasks : plan.wave[t] <= run.wave
              \/ run'.pc = "wave" /\ \A t \in Tasks : plan.wave[t] < run'.wave => plan.wave[t] <= run.wave
<1> DEFINE later == {w \in Waves(plan) : w > run.wave}
           stalled == BlockWaveStalls(run.wave)
           next == CHOOSE w \in later : \A x \in later : w <= x
           hook == Hooked(life')
<1>1. run.pc = "stall" /\ UNCHANGED <<plan, gates, now, disk>> /\ run \in Invocation /\ run.wave \in Nat
  BY DEF EndWave, V1Types, Invocation
<1>2. life' = IF later = {} THEN BlockUnresolvable(stalled) ELSE stalled
  BY DEF EndWave
<1>3. run' = IF later = {} THEN [run EXCEPT !.pc = "end", !.hook = hook]
             ELSE [run EXCEPT !.pc = "wave", !.hook = hook, !.wave = next]
  BY DEF EndWave
<1>4. /\ stalled \in LivesOfTasks
      /\ \A t \in Tasks : \/ stalled[t] = life[t]
                          \/ stalled[t].status = "blocked" /\ life[t].status \notin Over
  BY StallsBlock
<1>5. Waves(plan) \subseteq Nat /\ plan.wave \in [Tasks -> Nat] /\ \A t \in Tasks : plan.wave[t] \in Waves(plan)
  BY PlanFacts DEF V1Types, Waves
<1>6. later # {} => next \in later /\ \A x \in later : next <= x
  <2>1. later \in SUBSET Nat
    BY <1>5
  <2> QED
    BY <2>1, LeastNumber
<1> HIDE DEF stalled
<1>7. /\ life' \in LivesOfTasks
      /\ \A t \in Tasks : \/ life'[t] = stalled[t]
                          \/ life'[t].status = "blocked" /\ stalled[t].status \notin Over
  BY <1>2, <1>4, PassBlocks
<1>8. hook \in Checkpoints
  BY <1>7, HookedTyped
<1>9. \A t \in Tasks : \/ life'[t] = life[t]
                       \/ life'[t].status = "blocked" /\ life[t].status \notin Over
  BY <1>4, <1>7 DEF Over
<1> HIDE DEF hook
<1>10. CASE later = {}
  <2>1. run' = [run EXCEPT !.pc = "end", !.hook = hook]
    BY <1>3, <1>10
  <2>2. /\ run' \in Invocation /\ run'.pc = "end" /\ run'.hook = hook /\ run'.seen = run.seen
        /\ run'.loaded = run.loaded /\ run'.dry = run.dry /\ run'.outcome = run.outcome
    BY <1>1, <1>8, <2>1 DEF Invocation
  <2>3. GoesOn
    BY <1>1, <1>7, <1>9, <2>2, BlockingGoesOn
  <2>4. \A t \in Tasks : plan.wave[t] <= run.wave
    BY <1>1, <1>5, <1>10
  <2> QED
    BY <1>1, <1>7, <2>2, <2>3, <2>4 DEF hook, stalled
<1>11. CASE later # {}
  <2> HIDE DEF next
  <2>1. run' = [run EXCEPT !.pc = "wave", !.hook = hook, !.wave = next]
    BY <1>3, <1>11
  <2>2. next \in Nat /\ \A x \in later : next <= x
    BY <1>5, <1>6, <1>11
  <2>3. /\ run' \in Invocation /\ run'.pc = "wave" /\ run'.hook = hook /\ run'.seen = run.seen
        /\ run'.loaded = run.loaded /\ run'.dry = run.dry /\ run'.outcome = run.outcome
        /\ run'.wave = next
    BY <1>1, <1>8, <2>1, <2>2 DEF Invocation
  <2>4. GoesOn
    BY <1>1, <1>7, <1>9, <2>3, BlockingGoesOn
  <2>5. \A t \in Tasks : plan.wave[t] < next => plan.wave[t] <= run.wave
    BY <1>1, <1>5, <2>2
  <2> QED
    BY <1>1, <1>7, <2>3, <2>4, <2>5 DEF hook, stalled
<1> QED
  BY <1>10, <1>11

(* A step of an invocation other than its last one.                        *)
LEMMA StepGoesOn ==
    ASSUME V1Types, BatchInv, Step, ~Save
    PROVE  GoesOn
<1>0. \A t \in Tasks : life[t] \in Life
  BY DEF V1Types, LivesOfTasks
<1>1. CASE PickBatch
  BY <1>1, PickBatchGoesOn
<1>2. CASE MarkDryRun
  BY <1>2, DryRunGoesOn
<1>3. CASE BlockTask
  <2>1. Current \in Tasks
    BY <1>3, CurrentInBatch DEF BlockTask, BatchInv
  <2>2. Move(life[Current], "blocked") \in Life
    BY <1>0, <2>1, MovedIsLife DEF States
  <2>3. AfterTask([life EXCEPT ![Current] = Move(life[Current], "blocked")])
    BY <1>3 DEF BlockTask
  <2> QED
    BY <1>3, <2>2, <2>3, AfterTaskGoesOn DEF BlockTask
<1>4. CASE StartTask
  BY <1>4, StartGoesOn
<1>5. CASE TaskCompleted
  <2>1. Current \in Tasks
    BY <1>5, CurrentInBatch DEF TaskCompleted, BatchInv
  <2>2. Complete(life[Current]) \in Life
    BY <1>0, <2>1, MovedIsLife DEF Complete, States
  <2>3. AfterTask([life EXCEPT ![Current] = Complete(life[Current])])
    BY <1>5 DEF TaskCompleted
  <2> QED
    BY <1>5, <2>2, <2>3, AfterTaskGoesOn DEF TaskCompleted
<1>6. CASE TaskRetried
  BY <1>6, RetryGoesOn
<1>7. CASE TaskFailed
  <2>1. Current \in Tasks
    BY <1>7, CurrentInBatch DEF TaskFailed, BatchInv
  <2>2. PICK retryable \in BOOLEAN : AfterTask([life EXCEPT ![Current] = Fail(life[Current], retryable)])
    BY <1>7 DEF TaskFailed
  <2>3. Fail(life[Current], retryable) \in Life
    BY <1>0, <2>1, StartedIsLife
  <2> QED
    BY <1>7, <2>2, <2>3, AfterTaskGoesOn DEF TaskFailed
<1>8. CASE WaveDrained
  BY <1>8, DrainedGoesOn
<1>9. CASE EndWave
  BY <1>9, EndWaveGoesOn
<1> QED
  BY <1>1, <1>2, <1>3, <1>4, <1>5, <1>6, <1>7, <1>8, <1>9 DEF Step

(* The beginning of an invocation.                                         *)
NewLives == [t \in Tasks |-> Declared(t)]
ResumedLives == [t \in Tasks |-> Resumed(t)]

LEMMA BeginFacts ==
    ASSUME V1Types, Begin
    PROVE  \E lives \in LivesOfTasks :
             /\ UNCHANGED <<plan, gates, now, disk>>
             /\ life' = BlockUnresolvable(lives) /\ life' \in LivesOfTasks
             /\ run' \in Invocation /\ run'.pc = "wave" /\ run'.seen = {} /\ run'.outcome = "none"
             /\ run'.hook \in {NoCheckpoint, life'}
             /\ \A w \in Waves(plan) : run'.wave <= w
             /\ \/ lives = NewLives /\ run'.loaded = NoCheckpoint
                \/ lives = ResumedLives /\ run'.loaded = disk /\ disk # NoCheckpoint
<1>1. PICK resume \in BOOLEAN, dry \in BOOLEAN, file \in BOOLEAN, id \in RunIds \cup {""} :
        LET lives == IF resume /\ disk # NoCheckpoint THEN [t \in Tasks |-> Resumed(t)]
                     ELSE [t \in Tasks |-> Declared(t)]
        IN /\ life' = BlockUnresolvable(lives)
           /\ run' = [Idle EXCEPT !.pc = "wave", !.dry = dry, !.id = id, !.file = file,
                                  !.wave = CHOOSE w \in Waves(plan) : \A x \in Waves(plan) : w <= x,
                                  !.hook = IF life' = lives THEN NoCheckpoint ELSE life',
                                  !.loaded = IF resume THEN disk ELSE NoCheckpoint]
           /\ UNCHANGED <<plan, gates, now, disk>>
  BY DEF Begin
<1> DEFINE lives == IF resume /\ disk # NoCheckpoint THEN ResumedLives ELSE NewLives
           first == CHOOSE w \in Waves(plan) : \A x \in Waves(plan) : w <= x
           hook == IF life' = lives THEN NoCheckpoint ELSE life'
           loaded == IF resume THEN disk ELSE NoCheckpoint
<1>2. /\ life' = BlockUnresolvable(lives) /\ UNCHANGED <<plan, gates, now, disk>>
      /\ run' = [Idle EXCEPT !.pc = "wave", !.dry = dry, !.id = id, !.file = file, !.wave = first,
                             !.hook = hook, !.loaded = loaded]
  BY <1>1 DEF ResumedLives, NewLives
<1>3. lives \in LivesOfTasks
  BY NewLivesTyped, ResumedTyped DEF ResumedLives, NewLives
<1>4. first \in Nat /\ \A w \in Waves(plan) : first <= w
  <2>1. Waves(plan) \in SUBSET Nat /\ Waves(plan) # {}
    BY PlanFacts DEF V1Types
  <2> QED
    BY <2>1, LeastNumber
<1>5. \/ lives = NewLives /\ loaded = NoCheckpoint
      \/ lives = ResumedLives /\ loaded = disk /\ disk # NoCheckpoint
  OBVIOUS
<1>6. loaded \in Checkpoints
  BY DEF V1Types, Checkpoints
<1> HIDE DEF lives, first, loaded
<1>7. life' \in LivesOfTasks
  BY <1>2, <1>3, PassBlocks
<1>8. hook \in Checkpoints /\ hook \in {NoCheckpoint, life'}
  BY <1>7 DEF Checkpoints
<1> HIDE DEF hook
<1>9. /\ run' \in Invocation /\ run'.pc = "wave" /\ run'.seen = {} /\ run'.outcome = "none"
      /\ run'.hook = hook /\ run'.wave = first /\ run'.loaded = loaded
  BY <1>2, <1>4, <1>6, <1>8 DEF Idle, Invocation
<1> QED
  BY <1>2, <1>3, <1>4, <1>5, <1>7, <1>8, <1>9

-----------------------------------------------------------------------------
SafeInv == V1Types /\ BatchInv /\ CompletedNotReplayed

LEMMA InitSafeInv == Init => SafeInv
<1> SUFFICES ASSUME Init PROVE SafeInv
  OBVIOUS
<1>1. run = Idle /\ plan \in Plans
  BY DEF Init
<1>2. BatchInv /\ CompletedNotReplayed
  BY <1>1, IdleIsTyped DEF BatchInv, CompletedNotReplayed
<1>3. NewLife("pending") \in Life
  BY DEF NewLife, Life, States
<1>4. life \in LivesOfTasks
  BY <1>3 DEF Init, LivesOfTasks
<1>5. gates \in [GateWaves -> {NoDecision} \cup Decisions]
  BY DEF Init, GateWaves
<1> QED
  BY <1>1, <1>2, <1>4, <1>5, IdleIsTyped DEF Init, SafeInv, V1Types, Checkpoints

(* Every step of the operator and of the command keeps it.                 *)
LEMMA NextSafeInv ==
    ASSUME SafeInv, [Next]_v1Vars
    PROVE  SafeInv'
<1>0. V1Types /\ BatchInv /\ CompletedNotReplayed
  BY DEF SafeInv
<1>1. ASSUME V1Types', UNCHANGED <<plan, gates, life, run>> PROVE SafeInv'
  <2>1. Terminal' = Terminal
    BY <1>1 DEF Terminal
  <2>2. \A t \in Tasks : Cleared(t) => Cleared(t)'
    BY <1>1, <2>1 DEF Cleared, GateCleared
  <2>3. run.batch \in SUBSET Tasks
    BY <1>0 DEF V1Types, Invocation
  <2>4. BatchInv'
    BY <1>0, <1>1, <2>2, <2>3 DEF BatchInv, NotOver
  <2> QED
    BY <1>0, <1>1, <2>4 DEF SafeInv, CompletedNotReplayed
<1>2. CASE Decide
  <2>1. run.pc = "idle" /\ UNCHANGED <<plan, now, disk, life, run>>
    BY <1>2 DEF Decide
  <2>2. \A verdict \in Verdicts : /\ \A id \in RunIds : HumanDecision(id, verdict) \in Decisions
                                  /\ AutomaticResult(verdict) \in Decisions
    BY <1>0 DEF HumanDecision, AutomaticResult, Decisions, V1Types
  <2>3. \E w \in plan.gated \cap Waves(plan), entry \in Decisions : gates' = [gates EXCEPT ![w] = entry]
    BY <1>2, <2>2 DEF Decide
  <2>4. gates' \in [GateWaves -> {NoDecision} \cup Decisions]
    BY <1>0, <2>3 DEF V1Types
  <2> QED
    BY <1>0, <2>1, <2>4 DEF SafeInv, V1Types, BatchInv, CompletedNotReplayed
<1>3. CASE EditPlan
  <2>1. plan' \in Plans /\ run' = Idle /\ UNCHANGED <<gates, now, disk, life>>
    BY <1>3 DEF EditPlan
  <2>2. BatchInv' /\ CompletedNotReplayed'
    BY <2>1, IdleIsTyped DEF BatchInv, CompletedNotReplayed
  <2> QED
    BY <1>0, <2>1, <2>2, IdleIsTyped DEF SafeInv, V1Types
<1>4. CASE Tick
  BY <1>0, <1>1, <1>4 DEF Tick, V1Types
<1>5. CASE Begin
  <2>1. PICK lives \in LivesOfTasks :
            /\ UNCHANGED <<plan, gates, now, disk>>
            /\ life' = BlockUnresolvable(lives) /\ life' \in LivesOfTasks
            /\ run' \in Invocation /\ run'.pc = "wave"
            /\ \/ run'.loaded = NoCheckpoint
               \/ lives = ResumedLives /\ run'.loaded = disk /\ disk # NoCheckpoint
    BY <1>0, <1>5, BeginFacts
  <2>2. V1Types' /\ BatchInv'
    BY <1>0, <2>1 DEF V1Types, BatchInv
  <2>3. CompletedNotReplayed'
    <3> SUFFICES ASSUME run'.loaded # NoCheckpoint, NEW t \in Tasks, run'.loaded[t].status = "completed"
                 PROVE  life'[t] = run'.loaded[t]
      BY DEF CompletedNotReplayed
    <3>1. lives = ResumedLives /\ run'.loaded = disk /\ disk # NoCheckpoint
      BY <2>1
    <3>2. lives[t] = disk[t] /\ disk[t].status \in Over
      BY <1>0, <3>1, ResumedTyped DEF ResumedLives, Over
    <3>3. life'[t] = lives[t]
      BY <2>1, <3>2, PassBlocks
    <3> QED
      BY <3>1, <3>2, <3>3
  <2> QED
    BY <2>2, <2>3 DEF SafeInv
<1>6. CASE Refuse
  BY <1>0, <1>1, <1>6 DEF Refuse, V1Types
<1>7. CASE Step /\ ~Save
  <2>1. GoesOn
    BY <1>0, <1>7, StepGoesOn
  <2>2. CompletedNotReplayed'
    BY <1>0, <2>1 DEF GoesOn, OverStays, Over, CompletedNotReplayed
  <2> QED
    BY <2>1, <2>2 DEF GoesOn, SafeInv
<1>8. CASE Save
  <2> DEFINE end == IF run.dry THEN "dry_run" ELSE Outcome
  <2>1. /\ run' = [Idle EXCEPT !.outcome = end] /\ UNCHANGED <<plan, gates, now, life>>
        /\ disk' \in {disk, life, run.hook}
    BY <1>8 DEF Save
  <2>2. end \in {"none", "dry_run", "blocked", "failed", "completed"}
    BY DEF Outcome
  <2> HIDE DEF end
  <2>3. run' \in Invocation /\ run'.pc = "idle" /\ run'.loaded = NoCheckpoint
    BY <2>1, <2>2 DEF Idle, Invocation, Checkpoints
  <2>4. disk' \in Checkpoints
    BY <1>0, <2>1 DEF V1Types, Invocation, Checkpoints
  <2> QED
    BY <1>0, <2>1, <2>3, <2>4 DEF SafeInv, V1Types, BatchInv, CompletedNotReplayed
<1>9. CASE Crash
  <2>1. run' = Idle /\ UNCHANGED <<plan, gates, now, disk>> /\ life' \in LivesOfTasks
    BY <1>0, <1>9, NewLivesTyped DEF Crash
  <2> QED
    BY <1>0, <2>1, IdleIsTyped DEF SafeInv, V1Types, BatchInv, CompletedNotReplayed
<1>10. CASE UNCHANGED v1Vars
  BY <1>0, <1>1, <1>10 DEF v1Vars, V1Types
<1> QED
  BY <1>2, <1>3, <1>4, <1>5, <1>6, <1>7, <1>8, <1>9, <1>10 DEF Next

(* For any manifests, edits, decisions and kills: a task is dispatched     *)
(* only when its dependencies and all earlier waves are over, and in a     *)
(* gated wave only on a decision made for this run and this very manifest  *)
(* that was fresh when the batch was put together.                         *)
THEOREM DispatchCleared == Spec => []DispatchIsCleared
<1>1. SafeInv => DispatchIsCleared
  <2> SUFFICES ASSUME SafeInv, run.pc = "dispatched" PROVE Cleared(Current)
    BY DEF DispatchIsCleared, Cleared, GateCleared
  <2>1. run.batch # {} /\ \A t \in run.batch : Cleared(t)
    BY DEF SafeInv, BatchInv
  <2> QED
    BY <2>1, CurrentInBatch DEF SafeInv
<1> QED
  BY <1>1, InitSafeInv, NextSafeInv, PTL DEF Spec

(* What was completed in the checkpoint that an invocation resumed is left *)
(* as it was to the end, for any manifest it is resumed with.              *)
THEOREM CompletedStays == Spec => []CompletedNotReplayed
<1>1. SafeInv => CompletedNotReplayed
  BY DEF SafeInv
<1> QED
  BY <1>1, InitSafeInv, NextSafeInv, PTL DEF Spec

-----------------------------------------------------------------------------
(***************************************************************************)
(* The verdict.  Once a task failed or is blocked, the invocation, and any *)
(* that resumes it, will say so.  As long as none is, an invocation that   *)
(* is no dry run makes progress: all waves before the current one are      *)
(* over, and what is not over can still be started; a wave that has        *)
(* nothing ready is over or waits for a gate.                              *)
(***************************************************************************)
Bad(lives) == \E t \in Tasks : lives[t].status \in {"failed", "blocked"}

Startable(t) ==
    /\ plan.status[t] \in {"pending", "ready"} /\ Fit(t)
    /\ life[t].status \in {"pending", "ready"} \/ (run.pc = "dispatched" /\ t = Current)

EarlierOver == \A t \in Tasks : plan.wave[t] < run.wave => t \in Terminal
WaitsForGate == run.wave \in plan.gated /\ ~GatePassed(run.wave)

Progress ==
    /\ run.seen = {}
    /\ \A t \in Tasks : NotOver(t) => Startable(t)
    /\ run.pc \in {"wave", "task", "dispatched", "stall"} => EarlierOver
    /\ run.pc = "stall" => \A t \in Tasks : plan.wave[t] = run.wave /\ t \notin Terminal => WaitsForGate
    /\ run.pc = "end" => Tasks \subseteq Terminal

(* Between dispatches the hook has the lifecycles as they are.             *)
HookInv == run.hook = NoCheckpoint \/ run.pc = "dispatched" \/ run.hook = life

DiskInv == disk # NoCheckpoint => Bad(disk) \/ \A t \in Tasks : disk[t].status \in Over

VerdictInv ==
    /\ HookInv /\ DiskInv
    /\ run.pc # "idle" => run.outcome = "none"
    /\ run.pc # "idle" /\ ~run.dry => Bad(life) \/ Progress
    /\ VerdictHolds

LEMMA BadStays ==
    ASSUME OverStays, Bad(life)
    PROVE  Bad(life')
BY DEF OverStays, Bad, Over

(* A step within a wave.                                                   *)
LEMMA ProgressWithinWave ==
    ASSUME plan' = plan, OverStays, Progress,
           run'.seen = run.seen, run'.wave = run.wave,
           run.pc \in {"wave", "task", "dispatched"}, run'.pc \in {"wave", "task", "dispatched"},
           \A t \in Tasks : NotOver(t)' =>
               /\ NotOver(t)
               /\ life'[t].status \in {"pending", "ready"} \/ (run'.pc = "dispatched" /\ t = Current')
    PROVE  Progress'
<1>1. Terminal \subseteq Terminal'
  BY TerminalGrows
<1>2. EarlierOver'
  BY <1>1 DEF Progress, EarlierOver
<1>3. \A t \in Tasks : NotOver(t)' => Startable(t)'
  BY DEF Progress, Startable, Fit
<1> QED
  BY <1>2, <1>3 DEF Progress

(* A wave in which nothing is ready: since the manifest is acyclic and     *)
(* has no dependency on a later wave, only a gate can be the reason.       *)
LEMMA DrainedWaits ==
    ASSUME V1Types, Ordered(plan), Progress, ~Bad(life), run.pc = "wave", ReadyIds(run.wave) = {},
           NEW x \in Tasks, plan.wave[x] = run.wave, x \notin Terminal
    PROVE  run.wave \in plan.gated /\ ~GatePassed(run.wave)
<1> SUFFICES ASSUME run.wave \in plan.gated => GatePassed(run.wave) PROVE FALSE
  OBVIOUS
<1> DEFINE S == {t \in Tasks : plan.wave[t] = run.wave /\ t \notin Terminal}
<1>1. Acyclic(plan) /\ plan.wave \in [Tasks -> Nat] /\ plan.deps \in [Tasks -> SUBSET Tasks] /\ run.wave \in Nat
  BY PlansAssumption, PlanFacts DEF V1Types, Invocation
<1>2. S \in SUBSET Tasks /\ S # {}
  OBVIOUS
<1>3. PICK t \in S : plan.deps[t] \cap S = {}
  <2> HIDE DEF S
  <2> QED
    BY <1>1, <1>2 DEF Acyclic
<1>4. t \in Tasks /\ plan.wave[t] = run.wave /\ t \notin Terminal
  OBVIOUS
<1>5. EarlierOver
  BY DEF Progress
<1>6. plan.deps[t] \subseteq Terminal
  <2> SUFFICES ASSUME NEW d \in plan.deps[t] PROVE d \in Terminal
    OBVIOUS
  <2>1. d \in Tasks /\ plan.wave[d] \in Nat /\ plan.wave[d] <= run.wave
    BY <1>1, <1>4 DEF Ordered
  <2>2. CASE plan.wave[d] < run.wave
    BY <1>5, <2>1, <2>2 DEF EarlierOver
  <2>3. CASE plan.wave[d] = run.wave
    BY <1>3, <2>1, <2>3
  <2> QED
    BY <1>1, <2>1, <2>2, <2>3
<1>7. NotOver(t)
  <2>1. life[t].status \notin {"completed", "skipped"}
    BY <1>4 DEF Terminal
  <2>2. life[t].status \notin {"failed", "blocked"}
    BY <1>4 DEF Bad
  <2> QED
    BY <2>1, <2>2 DEF NotOver, Over
<1>8. Startable(t) /\ run.seen = {}
  BY <1>4, <1>7 DEF Progress
<1>9. Ready(t)
  BY <1>4, <1>5, <1>6, <1>8 DEF Ready, Startable, EarlierOver
<1> QED
  BY <1>4, <1>9 DEF ReadyIds

(* A gate that is not passed stays so while time goes by.                  *)
LEMMA GateStaysShut ==
    ASSUME V1Types, Tick, NEW t \in Tasks, ~GatePassed(plan.wave[t])
    PROVE  ~GatePassed(plan.wave[t])'
<1> DEFINE w == plan.wave[t]
<1>1. w \in GateWaves
  BY PlanFacts DEF V1Types, Waves
<1>2. gates[w] = NoDecision \/ gates[w] \in Decisions
  BY <1>1 DEF V1Types
<1>3. gates[w].kind = "human" => gates[w].updated \in Nat
  BY <1>2 DEF Decisions, NoDecision
<1>4. now \in Nat /\ now' = now + 1 /\ UNCHANGED <<plan, gates, run>> /\ Window \in Nat
  BY BoundsAssumption DEF Tick, V1Types
<1>5. \A u \in Nat : now + 1 <= u + Window => now <= u + Window
  BY <1>4
<1>6. w' = w
  BY <1>4
<1> HIDE DEF w
<1>7. GatePassed(w)' => GatePassed(w)
  BY <1>3, <1>4, <1>5, <1>6 DEF GatePassed, DecisionAllows, PolicyAllows, GateScope
<1> QED
  BY <1>4, <1>7 DEF w

(* The steps of an invocation, as long as nothing is bad.                  *)
LEMMA StepProgress ==
    ASSUME V1Types, BatchInv, Ordered(plan), Progress, ~Bad(life), ~run.dry,
           Step, ~Save, ~Bad(life')
    PROVE  Progress'
<1>0. GoesOn /\ OverStays /\ plan' = plan /\ run \in Invocation /\ life \in LivesOfTasks
  BY StepGoesOn DEF GoesOn, V1Types
<1>a. ASSUME NEW t \in Tasks, NotOver(t), run.pc # "dispatched" PROVE life[t].status \in {"pending", "ready"}
  BY <1>a DEF Progress, Startable
<1>1. CASE PickBatch
  <2>1. run.pc = "wave" /\ life' = life
    BY <1>1 DEF PickBatch
  <2>2. run'.seen = run.seen /\ run'.wave = run.wave /\ run'.pc = "task"
    BY <1>0, <1>1 DEF PickBatch, Invocation
  <2> QED
    BY <1>0, <1>a, <2>1, <2>2, ProgressWithinWave DEF NotOver
<1>2. CASE MarkDryRun
  BY <1>2 DEF MarkDryRun
<1>3. ASSUME NEW l \in Life, l.status \in {"failed", "blocked"}, run.pc \in {"task", "dispatched"},
             AfterTask([life EXCEPT ![Current] = l])
      PROVE  FALSE
  <2> DEFINE lives == [life EXCEPT ![Current] = l]
  <2>1. lives \in LivesOfTasks /\ lives[Current] = l /\ Current \in Tasks
    BY <1>3, CurrentChanges
  <2>2. AfterTask(lives)
    BY <1>3
  <2> HIDE DEF lives
  <2>3. life'[Current].status = "blocked" \/ life'[Current] = l
    BY <2>1, <2>2, AfterTaskFacts
  <2> QED
    BY <1>3, <2>1, <2>3 DEF Bad
<1>4. CASE BlockTask
  <2>1. Current \in Tasks
    BY <1>4, CurrentInBatch DEF BlockTask, BatchInv
  <2>2. Move(life[Current], "blocked") \in Life /\ Move(life[Current], "blocked").status = "blocked"
    BY <1>0, <2>1, MovedIsLife DEF States, LivesOfTasks
  <2>3. AfterTask([life EXCEPT ![Current] = Move(life[Current], "blocked")]) /\ run.pc = "task"
    BY <1>4 DEF BlockTask
  <2> QED
    BY <1>3, <2>2, <2>3
<1>5. CASE StartTask
  <2>1. run.pc = "task" /\ run' = [run EXCEPT !.pc = "dispatched"]
    BY <1>5 DEF StartTask
  <2>2. /\ run'.seen = run.seen /\ run'.wave = run.wave /\ run'.pc = "dispatched"
        /\ run'.batch = run.batch
    BY <1>0, <2>1 DEF Invocation
  <2>3. Current' = Current /\ Current \in run.batch /\ Current \in Tasks
    BY <2>1, <2>2, CurrentInBatch DEF Current, BatchInv
  <2>4. \A t \in Tasks \ {Current} : life'[t] = life[t]
    BY <1>0, <1>5 DEF StartTask, LivesOfTasks
  <2>5. ASSUME NEW t \in Tasks, NotOver(t)'
        PROVE  NotOver(t) /\ (life'[t].status \in {"pending", "ready"} \/ t = Current')
    <3>1. CASE t = Current
      BY <2>1, <2>3, <3>1 DEF BatchInv
    <3>2. CASE t # Current
      BY <1>a, <2>1, <2>4, <2>5, <3>2 DEF NotOver
    <3> QED
      BY <3>1, <3>2
  <2> QED
    BY <1>0, <2>1, <2>2, <2>5, ProgressWithinWave
<1>6. CASE TaskCompleted
  <2> DEFINE l == Complete(life[Current])
             lives == [life EXCEPT ![Current] = l]
  <2>1. run.pc = "dispatched" /\ Current \in Tasks
    BY <1>6, CurrentInBatch DEF TaskCompleted, BatchInv
  <2>2. l \in Life /\ l.status = "completed"
    BY <1>0, <2>1, MovedIsLife DEF Complete, States, LivesOfTasks
  <2>3. AfterTask(lives)
    BY <1>6 DEF TaskCompleted
  <2> HIDE DEF l
  <2>4. lives \in LivesOfTasks /\ lives[Current] = l /\ \A t \in Tasks \ {Current} : lives[t] = life[t]
    BY <2>1, <2>2, CurrentChanges
  <2> HIDE DEF lives
  <2>5. /\ run'.seen = run.seen /\ run'.wave = run.wave /\ run'.pc \in {"wave", "task"}
        /\ \A t \in Tasks : life'[t] = lives[t] \/ life'[t].status = "blocked"
    BY <2>3, <2>4, AfterTaskFacts
  <2>6. \A t \in Tasks : life'[t] = lives[t]
    BY <2>5 DEF Bad
  <2>7. ASSUME NEW t \in Tasks, NotOver(t)'
        PROVE  NotOver(t) /\ life'[t].status \in {"pending", "ready"}
    <3>1. t # Current
      BY <2>2, <2>4, <2>6, <2>7 DEF NotOver, Over
    <3>2. life'[t] = life[t] /\ NotOver(t)
      BY <2>4, <2>6, <2>7, <3>1 DEF NotOver
    <3> QED
      BY <3>1, <3>2 DEF Progress, Startable
  <2> QED
    BY <1>0, <2>1, <2>5, <2>7, ProgressWithinWave
<1>7. CASE TaskRetried
  <2>1. run.pc = "dispatched" /\ run' = run /\ Current \in Tasks
    BY <1>7, CurrentInBatch DEF TaskRetried, BatchInv
  <2>2. Current' = Current /\ Current \in run.batch
    BY <2>1, CurrentInBatch DEF Current, BatchInv
  <2>3. \A t \in Tasks \ {Current} : life'[t] = life[t]
    BY <1>0, <1>7 DEF TaskRetried, LivesOfTasks
  <2>4. ASSUME NEW t \in Tasks, NotOver(t)'
        PROVE  NotOver(t) /\ (life'[t].status \in {"pending", "ready"} \/ t = Current')
    <3>1. CASE t = Current
      BY <2>1, <2>2, <3>1 DEF BatchInv
    <3>2. CASE t # Current
      <4>1. life'[t] = life[t] /\ NotOver(t)
        BY <2>3, <2>4, <3>2 DEF NotOver
      <4> QED
        BY <3>2, <4>1 DEF Progress, Startable
    <3> QED
      BY <3>1, <3>2
  <2> QED
    BY <1>0, <2>1, <2>4, ProgressWithinWave
<1>8. CASE TaskFailed
  <2>1. Current \in Tasks /\ run.pc = "dispatched"
    BY <1>8, CurrentInBatch DEF TaskFailed, BatchInv
  <2>2. PICK retryable \in BOOLEAN : AfterTask([life EXCEPT ![Current] = Fail(life[Current], retryable)])
    BY <1>8 DEF TaskFailed
  <2>3. Fail(life[Current], retryable) \in Life /\ Fail(life[Current], retryable).status = "failed"
    BY <1>0, <2>1, StartedIsLife DEF LivesOfTasks
  <2> QED
    BY <1>3, <2>1, <2>2, <2>3
<1>9. CASE WaveDrained
  <2>1. run.pc = "wave" /\ ReadyIds(run.wave) = {} /\ UNCHANGED <<plan, gates, now, life>>
    BY <1>9 DEF WaveDrained
  <2>2. run'.seen = run.seen /\ run'.wave = run.wave /\ run'.pc = "stall" /\ run'.file = run.file /\ run'.id = run.id
    BY <1>0, <1>9 DEF WaveDrained, Invocation
  <2>3. Terminal' = Terminal
    BY <2>1 DEF Terminal
  <2>4. EarlierOver'
    BY <2>1, <2>2, <2>3 DEF Progress, EarlierOver
  <2>5. \A t \in Tasks : NotOver(t)' => Startable(t)'
    BY <2>1, <2>2 DEF Progress, NotOver, Startable, Fit
  <2>6. \A t \in Tasks : plan.wave[t] = run.wave /\ t \notin Terminal => WaitsForGate
    BY <2>1, DrainedWaits DEF WaitsForGate
  <2>7. WaitsForGate => WaitsForGate'
    BY <2>1, <2>2 DEF WaitsForGate, GatePassed, GateScope, DecisionAllows, PolicyAllows
  <2>8. \A t \in Tasks : plan'.wave[t] = run'.wave /\ t \notin Terminal' => WaitsForGate'
    BY <2>1, <2>2, <2>3, <2>6, <2>7
  <2> QED
    BY <2>2, <2>4, <2>5, <2>8 DEF Progress
<1>10. CASE EndWave
  <2> DEFINE stalled == BlockWaveStalls(run.wave)
  <2>1. /\ run.pc = "stall" /\ run'.seen = run.seen
        /\ \A t \in Tasks : life'[t] = stalled[t] \/ life'[t].status = "blocked"
        /\ \/ run'.pc = "end" /\ \A t \in Tasks : plan.wave[t] <= run.wave
           \/ run'.pc = "wave" /\ \A t \in Tasks : plan.wave[t] < run'.wave => plan.wave[t] <= run.wave
    BY <1>10, EndWaveGoesOn
  <2>2. /\ \A t \in Tasks : stalled[t] = life[t] \/ stalled[t].status = "blocked"
        /\ \A t \in Tasks :
             plan.wave[t] = run.wave /\ life[t].status \in {"pending", "ready"}
               /\ run.wave \in plan.gated /\ ~GatePassed(run.wave)
             => stalled[t].status = "blocked"
    BY StallsBlock
  <2> HIDE DEF stalled
  <2>3. \A t \in Tasks : life'[t] = stalled[t] /\ stalled[t].status # "blocked" /\ stalled[t] = life[t]
    BY <2>1, <2>2 DEF Bad
  <2>4. ASSUME NEW t \in Tasks, plan.wave[t] <= run.wave PROVE t \in Terminal
    <3>1. plan.wave[t] \in Nat /\ run.wave \in Nat
      BY <1>0, PlanFacts DEF V1Types, Invocation
    <3>2. CASE plan.wave[t] < run.wave
      BY <2>1, <3>2 DEF Progress, EarlierOver
    <3>3. CASE plan.wave[t] = run.wave /\ t \notin Terminal
      <4>1. run.wave \in plan.gated /\ ~GatePassed(run.wave)
        BY <2>1, <3>3 DEF Progress, WaitsForGate
      <4>2. NotOver(t)
        BY <3>3 DEF NotOver, Over, Terminal, Bad
      <4>3. life[t].status \in {"pending", "ready"}
        BY <1>a, <2>1, <4>2
      <4> QED
        BY <2>2, <2>3, <3>3, <4>1, <4>3
    <3> QED
      BY <2>4, <3>1, <3>2, <3>3
  <2>5. Terminal \subseteq Terminal'
    BY <1>0, TerminalGrows
  <2>6. \A t \in Tasks : NotOver(t)' => Startable(t)'
    BY <1>0, <2>1, <2>3 DEF Progress, NotOver, Startable, Fit
  <2>7. CASE run'.pc = "end" /\ \A t \in Tasks : plan.wave[t] <= run.wave
    BY <2>1, <2>4, <2>5, <2>6, <2>7 DEF Progress
  <2>8. CASE run'.pc = "wave" /\ \A t \in Tasks : plan.wave[t] < run'.wave => plan.wave[t] <= run.wave
    <3>1. EarlierOver'
      BY <1>0, <2>4, <2>5, <2>8 DEF EarlierOver
    <3> QED
      BY <2>1, <2>6, <2>8, <3>1 DEF Progress
  <2> QED
    BY <2>1, <2>7, <2>8
<1> QED
  BY <1>1, <1>2, <1>4, <1>5, <1>6, <1>7, <1>8, <1>9, <1>10 DEF Step

(* The hook, in a step of an invocation.                                   *)
LEMMA StepHook ==
    ASSUME V1Types, BatchInv, HookInv, Step, ~Save
    PROVE  HookInv' /\ run.pc # "idle"
<1>0. run \in Invocation
  BY DEF V1Types
<1>1. CASE PickBatch \/ WaveDrained
  <2>1. run.pc = "wave" /\ life' = life /\ run'.hook = run.hook
    BY <1>0, <1>1 DEF PickBatch, WaveDrained, Invocation
  <2> QED
    BY <2>1 DEF HookInv
<1>2. CASE MarkDryRun \/ EndWave
  <2>1. run.pc \in {"task", "stall"}
    BY <1>2 DEF MarkDryRun, EndWave
  <2>2. run'.hook = Hooked(life')
    <3>1. CASE EndWave
      BY <3>1, EndWaveGoesOn
    <3>2. CASE MarkDryRun
      <4> DEFINE hook == Hooked(life')
                 seen == run.seen \cup run.batch
      <4>1. run' = [run EXCEPT !.pc = "wave", !.seen = seen, !.opened = 0, !.batch = {}, !.hook = hook]
        BY <1>0, <3>2 DEF MarkDryRun, Invocation
      <4> HIDE DEF hook, seen
      <4>2. run'.hook = hook
        BY <1>0, <4>1 DEF Invocation
      <4> QED
        BY <4>2 DEF hook
    <3> QED
      BY <1>2, <3>1, <3>2
  <2> QED
    BY <2>1, <2>2 DEF HookInv, Hooked
<1>3. CASE StartTask \/ TaskRetried
  <2>1. run.pc \in {"task", "dispatched"} /\ run'.pc = "dispatched"
    BY <1>0, <1>3 DEF StartTask, TaskRetried, Invocation
  <2> QED
    BY <2>1 DEF HookInv
<1>4. ASSUME NEW l \in Life, run.pc \in {"task", "dispatched"}, AfterTask([life EXCEPT ![Current] = l])
      PROVE  HookInv'
  <2>1. [life EXCEPT ![Current] = l] \in LivesOfTasks
    BY <1>4, CurrentChanges
  <2> QED
    BY <1>4, <2>1, AfterTaskFacts DEF HookInv
<1>5. CASE BlockTask \/ TaskCompleted \/ TaskFailed
  <2>1. run.pc \in {"task", "dispatched"}
    BY <1>5 DEF BlockTask, TaskCompleted, TaskFailed
  <2>2. life[Current] \in Life
    BY <2>1, CurrentInBatch DEF BatchInv, V1Types, LivesOfTasks
  <2>3. Move(life[Current], "blocked") \in Life /\ Complete(life[Current]) \in Life
    BY <2>2, MovedIsLife DEF Complete, States
  <2>4. \A r \in BOOLEAN : Fail(life[Current], r) \in Life
    BY <2>2, StartedIsLife
  <2>5. \E l \in Life : AfterTask([life EXCEPT ![Current] = l])
    BY <1>5, <2>3, <2>4 DEF BlockTask, TaskCompleted, TaskFailed
  <2> QED
    BY <1>4, <2>1, <2>5
<1> QED
  BY <1>1, <1>2, <1>3, <1>5 DEF Step

(* Every step keeps it, if no manifest has a dependency on a later wave or *)
(* declares a task to be running.                                          *)
LEMMA NextVerdictInv ==
    ASSUME \A p \in Plans : Ordered(p), SafeInv, VerdictInv, [Next]_v1Vars
    PROVE  VerdictInv'
<1>0. V1Types /\ BatchInv /\ Ordered(plan)
  BY DEF SafeInv, V1Types
<1>1. HookInv /\ DiskInv /\ VerdictHolds
  BY DEF VerdictInv
<1>2. ASSUME UNCHANGED <<plan, disk, life, run>>, run.pc = "idle" PROVE VerdictInv'
  <2>1. Terminal' = Terminal
    BY <1>2 DEF Terminal
  <2> QED
    BY <1>1, <1>2, <2>1 DEF VerdictInv, HookInv, DiskInv, Bad, VerdictHolds
<1>3. ASSUME run' = Idle, disk' = disk PROVE VerdictInv'
  BY <1>1, <1>3, IdleIsTyped DEF VerdictInv, HookInv, DiskInv, Bad, VerdictHolds
<1>4. CASE Decide \/ Refuse
  BY <1>2, <1>4 DEF Decide, Refuse
<1>5. CASE EditPlan \/ Crash
  BY <1>3, <1>5 DEF EditPlan, Crash
<1>6. CASE Tick
  <2>1. UNCHANGED <<plan, gates, disk, life, run>>
    BY <1>6 DEF Tick
  <2>2. Terminal' = Terminal /\ Current' = Current
    BY <2>1 DEF Terminal, Current
  <2>3. HookInv' /\ DiskInv' /\ VerdictHolds'
    BY <1>1, <2>1, <2>2 DEF HookInv, DiskInv, Bad, VerdictHolds
  <2>4. ASSUME Progress PROVE Progress'
    <3>1. \A t \in Tasks : NotOver(t)' => Startable(t)'
      BY <2>1, <2>2, <2>4 DEF Progress, NotOver, Startable, Fit
    <3>2. ASSUME NEW t \in Tasks, plan.wave[t] = run.wave, WaitsForGate PROVE WaitsForGate'
      <4>1. ~GatePassed(plan.wave[t])'
        BY <1>0, <1>6, <3>2, GateStaysShut DEF WaitsForGate
      <4>2. (plan.wave[t])' = run'.wave
        BY <2>1, <3>2
      <4>3. ~GatePassed(run.wave)'
        BY <4>1, <4>2
      <4> QED
        BY <2>1, <3>2, <4>3 DEF WaitsForGate
    <3>3. EarlierOver => EarlierOver'
      BY <2>1, <2>2 DEF EarlierOver
    <3> QED
      BY <2>1, <2>2, <2>4, <3>1, <3>2, <3>3 DEF Progress
  <2> QED
    BY <2>1, <2>3, <2>4 DEF VerdictInv, Bad
<1>7. CASE Begin
  <2>1. PICK lives \in LivesOfTasks :
            /\ UNCHANGED <<plan, gates, now, disk>>
            /\ life' = BlockUnresolvable(lives) /\ life' \in LivesOfTasks
            /\ run' \in Invocation /\ run'.pc = "wave" /\ run'.seen = {} /\ run'.outcome = "none"
            /\ run'.hook \in {NoCheckpoint, life'}
            /\ \A w \in Waves(plan) : run'.wave <= w
            /\ \/ lives = NewLives /\ run'.loaded = NoCheckpoint
               \/ lives = ResumedLives /\ run'.loaded = disk /\ disk # NoCheckpoint
    BY <1>0, <1>7, BeginFacts
  <2>2. \A t \in Tasks : /\ life'[t] = lives[t] \/ (life'[t].status = "blocked" /\ lives[t].status \notin Over)
                         /\ life'[t].status \notin Over => Fit(t)
    BY <2>1, PassBlocks
  <2>3. HookInv' /\ DiskInv' /\ VerdictHolds'
    BY <1>1, <2>1 DEF HookInv, DiskInv, Bad, VerdictHolds
  <2>4. EarlierOver'
    <3>1. plan.wave \in [Tasks -> Nat] /\ \A t \in Tasks : plan.wave[t] \in Waves(plan)
      BY <1>0, PlanFacts DEF V1Types, Waves
    <3>2. run'.wave \in Nat
      BY <2>1 DEF Invocation
    <3>3. \A t \in Tasks : ~(plan.wave[t] < run'.wave)
      BY <2>1, <3>1, <3>2
    <3> QED
      BY <2>1, <3>3 DEF EarlierOver
  <2>5. ASSUME ~Bad(life'), NEW t \in Tasks, NotOver(t)' PROVE Startable(t)'
    <3>1. life'[t] = lives[t] /\ Fit(t) /\ lives[t].status \notin Over
      BY <2>2, <2>5 DEF NotOver, Over
    <3>2. CASE lives = NewLives
      <4>1. lives[t].status = plan.status[t] /\ plan.status[t] \in States /\ plan.status[t] # "running"
        BY <1>0, <3>2, PlanFacts DEF NewLives, NewLife, Declared, Ordered, V1Types
      <4>2. plan.status[t] \in {"pending", "ready"}
        BY <3>1, <4>1 DEF States, Over
      <4> QED
        BY <2>1, <3>1, <4>1, <4>2 DEF Startable, Fit
    <3>3. CASE lives = ResumedLives /\ disk # NoCheckpoint
      <4>1. \A u \in Tasks : disk[u].status \in Over => lives[u] = disk[u]
        BY <1>0, <3>3, ResumedTyped DEF ResumedLives
      <4>2. CASE Bad(disk)
        BY <2>2, <2>5, <4>1, <4>2 DEF Bad, Over
      <4>3. CASE disk[t].status \in Over
        BY <3>1, <4>1, <4>3
      <4> QED
        BY <1>1, <3>3, <4>2, <4>3 DEF DiskInv
    <3> QED
      BY <2>1, <3>2, <3>3
  <2>6. Bad(life') \/ Progress'
    BY <2>1, <2>4, <2>5 DEF Progress
  <2> QED
    BY <2>1, <2>3, <2>6 DEF VerdictInv, Bad
<1>8. CASE Step /\ ~Save
  <2>1. GoesOn
    BY <1>0, <1>8, StepGoesOn
  <2>2. HookInv' /\ run.pc # "idle" /\ run.outcome = "none"
    BY <1>0, <1>1, <1>8, StepHook DEF VerdictInv
  <2>3. run'.outcome = "none" /\ DiskInv'
    BY <1>1, <2>1, <2>2 DEF GoesOn, DiskInv, Bad
  <2>4. ASSUME ~run'.dry PROVE Bad(life') \/ Progress'
    <3>1. ~run.dry /\ OverStays
      BY <2>1, <2>4 DEF GoesOn
    <3>2. Bad(life) \/ Progress
      BY <2>2, <3>1 DEF VerdictInv
    <3> QED
      BY <1>0, <1>8, <3>1, <3>2, BadStays, StepProgress
  <2> QED
    BY <2>2, <2>3, <2>4 DEF VerdictInv, VerdictHolds, Bad
<1>9. CASE Save
  <2> DEFINE end == IF run.dry THEN "dry_run" ELSE Outcome
  <2>1. /\ run.pc = "end" /\ run' = [Idle EXCEPT !.outcome = end] /\ UNCHANGED <<plan, life>>
        /\ disk' = IF run.dry THEN disk ELSE IF run.hook = NoCheckpoint THEN life ELSE run.hook
    BY <1>9 DEF Save
  <2>2. end = "completed" => ~run.dry /\ ~Bad(life)
    BY DEF Outcome, Bad
  <2> HIDE DEF end
  <2>3. run'.pc = "idle" /\ run'.hook = NoCheckpoint /\ run'.outcome = end
    BY <2>1 DEF Idle
  <2>4. Terminal' = Terminal
    BY <2>1 DEF Terminal
  <2>5. ~run.dry /\ ~Bad(life) => Progress /\ Tasks \subseteq Terminal
    BY <2>1 DEF VerdictInv, Progress
  <2>6. VerdictHolds'
    <3>1. Terminal \subseteq Tasks
      BY DEF Terminal
    <3> QED
      BY <2>2, <2>3, <2>4, <2>5, <3>1 DEF VerdictHolds
  <2>7. DiskInv'
    <3>1. CASE run.dry
      BY <1>1, <2>1, <3>1 DEF DiskInv, Bad
    <3>2. CASE ~run.dry /\ Bad(life)
      BY <1>1, <2>1, <3>2 DEF HookInv, DiskInv, Bad
    <3>3. CASE ~run.dry /\ ~Bad(life)
      <4>1. disk' = life
        BY <1>1, <2>1, <3>3 DEF HookInv
      <4>2. ASSUME NEW t \in Tasks PROVE life[t].status \in Over
        <5> SUFFICES ASSUME NotOver(t) PROVE FALSE
          BY DEF NotOver
        <5>1. plan.status[t] \in {"pending", "ready"} /\ t \in Terminal
          BY <2>5, <3>3 DEF Progress, Startable
        <5> QED
          BY <5>1 DEF Terminal, NotOver, Over
      <4> QED
        BY <4>1, <4>2 DEF DiskInv
    <3> QED
      BY <3>1, <3>2, <3>3
  <2> QED
    BY <2>3, <2>6, <2>7 DEF VerdictInv, HookInv
<1>10. CASE UNCHANGED v1Vars
  <2>1. UNCHANGED <<plan, gates, now, disk, life, run>>
    BY <1>10 DEF v1Vars
  <2>2. Terminal' = Terminal /\ Current' = Current
    BY <2>1 DEF Terminal, Current
  <2>3. HookInv' /\ DiskInv' /\ VerdictHolds'
    BY <1>1, <2>1, <2>2 DEF HookInv, DiskInv, Bad, VerdictHolds
  <2>4. ASSUME Progress PROVE Progress'
    <3>1. \A t \in Tasks : NotOver(t)' => Startable(t)'
      BY <2>1, <2>2, <2>4 DEF Progress, NotOver, Startable, Fit
    <3>2. WaitsForGate' <=> WaitsForGate
      BY <2>1 DEF WaitsForGate, GatePassed, GateScope, DecisionAllows, PolicyAllows
    <3>3. EarlierOver => EarlierOver'
      BY <2>1, <2>2 DEF EarlierOver
    <3> QED
      BY <2>1, <2>2, <2>4, <3>1, <3>2, <3>3 DEF Progress
  <2> QED
    BY <2>1, <2>3, <2>4 DEF VerdictInv, Bad
<1> QED
  BY <1>4, <1>5, <1>6, <1>7, <1>8, <1>9, <1>10 DEF Next

(* When no manifest has a dependency on a later wave or a task that is     *)
(* declared to be running: the command prints "completed" only when every  *)
(* task is completed or skipped, for any edits, decisions, resumptions and *)
(* kills.                                                                  *)
THEOREM OrderedVerdict == Spec => []OrderedVerdictHolds
<1> DEFINE AllOrdered == \A p \in Plans : Ordered(p)
<1>1. Init => (AllOrdered => VerdictInv)
  BY IdleIsTyped DEF Init, VerdictInv, HookInv, DiskInv, VerdictHolds
<1>2. (AllOrdered => VerdictInv) => OrderedVerdictHolds
  BY DEF VerdictInv, OrderedVerdictHolds
<1>3. SafeInv /\ (AllOrdered => VerdictInv) /\ [Next]_v1Vars => (AllOrdered => VerdictInv)'
  BY NextVerdictInv
<1> HIDE DEF AllOrdered
<1> QED
  BY <1>1, <1>2, <1>3, InitSafeInv, NextSafeInv, PTL DEF Spec
=============================================================================
