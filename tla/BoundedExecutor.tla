--------------------------- MODULE BoundedExecutor ---------------------------
(***************************************************************************)
(* BoundedParallelExecutor (parallel.py): one pool of max_workers threads, *)
(* and the calls of run() that feed it, one after the other.               *)
(*                                                                         *)
(* The caller's thread, the threads of the pool, the clock and whoever     *)
(* sets the cancellation event take their steps in any order.  A runner    *)
(* may never return: nothing can stop a thread.  A work item is the number *)
(* of the run that submitted it and its task.  Every run is given the same *)
(* tasks; ids are submitted in any order.                                  *)
(***************************************************************************)
EXTENDS Integers, FiniteSets, FiniteSetsExt

CONSTANTS
    Tasks,       \* tasks of each run
    MaxWorkers,  \* max_workers
    MaxRuns      \* bound on the number of runs

ASSUME WorkersAssumption == MaxWorkers \in Nat \ {0}
ASSUME TasksAssumption == IsFiniteSet(Tasks) /\ Tasks # {}
ASSUME RunsAssumption == MaxRuns \in Nat

VARIABLES
    pc,            \* where the caller is in run()
    runs,          \* number of runs so far
    pending,       \* pending_ids
    futures,       \* tasks of the dictionary futures
    batch,         \* what wait() returned and is not handled yet
    results,       \* results, "none" where there is none
    verdict,       \* the status given to what is abandoned
    nonCooperative,\* non_cooperative
    poisoned, closed,
    cancelEvent,   \* cancel_event.is_set()
    hasDeadline,   \* timeout was given
    late,          \* the deadline has passed
    queued, live,  \* work items submitted, and running in a thread
    ended          \* tasks of this run whose runner returned, or raised

caller == <<pc, runs, pending, futures, batch, results, verdict, nonCooperative, poisoned, closed>>
pool == <<queued, live, ended>>
world == <<cancelEvent, hasDeadline, late>>
vars == <<pc, runs, pending, futures, batch, results, verdict, nonCooperative, poisoned, closed,
          cancelEvent, hasDeadline, late, queued, live, ended>>

Statuses == {"completed", "failed", "timeout", "cancelled"}
NoResults == [t \in Tasks |-> "none"]

Init ==
    /\ pc = "idle" /\ runs = 0
    /\ pending = {} /\ futures = {} /\ batch = {} /\ results = NoResults
    /\ verdict = "none" /\ nonCooperative = FALSE
    /\ poisoned = FALSE /\ closed = FALSE
    /\ cancelEvent = FALSE /\ hasDeadline = FALSE /\ late = FALSE
    /\ queued = {} /\ live = {} /\ ended = {}

-----------------------------------------------------------------------------
(* run(): refused when closed, or poisoned and not cancelled already; an   *)
(* event that is set answers without the pool; else the first tasks are    *)
(* submitted.  A task of bad cannot be copied, and has failed.             *)
Run(cancelled, timeout, bad) ==
    /\ pc = "idle" /\ ~closed /\ runs < MaxRuns
    /\ poisoned => cancelled
    /\ runs' = runs + 1
    /\ cancelEvent' = cancelled /\ hasDeadline' = timeout /\ late' = FALSE
    /\ results' = [t \in Tasks |-> IF t \in bad THEN "failed" ELSE "none"]
    /\ ended' = {} /\ batch' = {}
    /\ verdict' = "none" /\ nonCooperative' = FALSE
    /\ IF cancelled
       THEN pc' = "return" /\ pending' = {} /\ futures' = {} /\ UNCHANGED queued
       ELSE \E first \in SUBSET (Tasks \ bad) :
              /\ Cardinality(first) = Min({MaxWorkers, Cardinality(Tasks \ bad)})
              /\ pending' = (Tasks \ bad) \ first
              /\ futures' = first
              /\ queued' = queued \cup ({runs + 1} \X first)
              /\ pc' = "head"
    /\ UNCHANGED <<poisoned, closed, live>>

(* Mutant: the deadline is checked between batches of results only.        *)
OverdueBetween == hasDeadline /\ late /\ batch # {}

(* clock() has reached the deadline.                                       *)
Overdue == hasDeadline /\ late

(* The head of the loop: done, cancelled, overdue, or on to wait().        *)
LoopHead ==
    /\ pc = "head"
    /\ \/ futures = {} /\ pc' = "return" /\ UNCHANGED verdict
       \/ futures # {} /\ cancelEvent /\ pc' = "abandon" /\ verdict' = "cancelled"
       \/ futures # {} /\ ~cancelEvent /\ Overdue /\ pc' = "abandon" /\ verdict' = "timeout"
       \/ futures # {} /\ ~cancelEvent /\ ~Overdue /\ pc' = "wait" /\ UNCHANGED verdict
    /\ UNCHANGED <<runs, pending, futures, batch, results, nonCooperative, poisoned, closed, pool, world>>

(* wait() returns what is done; after an empty poll the deadline decides.  *)
Wait ==
    LET done == futures \cap ended IN
    /\ pc = "wait"
    /\ \/ done # {} /\ pc' = "collect" /\ batch' = done /\ UNCHANGED verdict
       \/ /\ done = {} /\ UNCHANGED batch
          /\ IF Overdue THEN pc' = "abandon" /\ verdict' = "timeout"
                        ELSE pc' = "head" /\ UNCHANGED verdict
    /\ UNCHANGED <<runs, pending, futures, results, nonCooperative, poisoned, closed, pool, world>>

(* submit_one(), in place of the future of t.                              *)
SubmitOne(t) ==
    \E u \in pending :
        /\ pending' = pending \ {u}
        /\ futures' = (futures \ {t}) \cup {u}
        /\ queued' = queued \cup {<<runs, u>>}

(* One done future: its result, and one more submission unless it is late. *)
Collect ==
    /\ pc = "collect"
    /\ IF batch = {} THEN pc' = "head" /\ UNCHANGED <<pending, futures, batch, results, queued>>
       ELSE \E t \in batch, s \in {"completed", "failed", "timeout"} :
              /\ UNCHANGED pc
              /\ batch' = batch \ {t}
              /\ results' = [results EXCEPT ![t] = s]
              /\ \/ ~Overdue /\ SubmitOne(t)
                 \/ /\ Overdue \/ pending = {}
                    /\ futures' = futures \ {t}
                    /\ UNCHANGED <<pending, queued>>
    /\ UNCHANGED <<runs, verdict, nonCooperative, poisoned, closed, live, ended, world>>

(* Cancelled or overdue: each future is cancelled, which only removes what *)
(* no thread has started, and a thread still running is remembered.        *)
AbandonOne ==
    /\ pc = "abandon"
    /\ \E t \in futures :
           /\ futures' = futures \ {t}
           /\ results' = [results EXCEPT ![t] = verdict]
           /\ queued' = queued \ {<<runs, t>>}
           /\ nonCooperative' = (nonCooperative \/ <<runs, t>> \in live)
    /\ UNCHANGED <<pc, runs, pending, batch, verdict, poisoned, closed, live, ended, world>>

(* Mutant: only a timeout poisons the pool.                                *)
AbandonTimeout ==
    /\ pc = "abandon" /\ futures = {}
    /\ poisoned' = (poisoned \/ verdict = "timeout")
    /\ pc' = "return"
    /\ UNCHANGED <<runs, pending, futures, batch, results, verdict, nonCooperative, closed, pool, world>>

(* The pool is poisoned by a timeout, and by a cancellation that left a    *)
(* thread running; shutdown empties its queue.                             *)
AbandonEnd ==
    LET fence == verdict = "timeout" \/ nonCooperative IN
    /\ pc = "abandon" /\ futures = {}
    /\ poisoned' = (poisoned \/ fence)
    /\ queued' = IF fence THEN {} ELSE queued
    /\ pc' = "return"
    /\ UNCHANGED <<runs, pending, futures, batch, results, verdict, nonCooperative, closed, live, ended, world>>

(* What has no result is reported cancelled.                               *)
Return ==
    /\ pc = "return"
    /\ results' = [t \in Tasks |-> IF results[t] = "none" THEN "cancelled" ELSE results[t]]
    /\ pc' = "idle"
    /\ UNCHANGED <<runs, pending, futures, batch, verdict, nonCooperative, poisoned, closed, pool, world>>

(* close(wait=False)                                                       *)
Close ==
    /\ pc = "idle" /\ ~closed
    /\ closed' = TRUE
    /\ queued' = {}
    /\ UNCHANGED <<pc, runs, pending, futures, batch, results, verdict, nonCooperative, poisoned, live, ended, world>>

-----------------------------------------------------------------------------
(* ThreadPoolExecutor: a free thread takes an item; a runner ends.         *)
ThreadStarts(i) ==
    /\ i \in queued /\ Cardinality(live) < MaxWorkers
    /\ queued' = queued \ {i} /\ live' = live \cup {i}
    /\ UNCHANGED <<caller, ended, world>>

ThreadEnds(i) ==
    /\ i \in live
    /\ live' = live \ {i}
    /\ ended' = IF i[1] = runs THEN ended \cup {i[2]} ELSE ended
    /\ UNCHANGED <<caller, queued, world>>

(* Somebody sets the event; time passes.                                   *)
SetCancel ==
    /\ pc # "idle" /\ ~cancelEvent
    /\ cancelEvent' = TRUE
    /\ UNCHANGED <<caller, pool, hasDeadline, late>>

DeadlinePasses ==
    /\ pc # "idle" /\ hasDeadline /\ ~late
    /\ late' = TRUE
    /\ UNCHANGED <<caller, pool, cancelEvent, hasDeadline>>

Caller == LoopHead \/ Wait \/ Collect \/ AbandonOne \/ AbandonEnd \/ Return

Next ==
    \/ \E cancelled, timeout \in BOOLEAN, bad \in SUBSET Tasks : Run(cancelled, timeout, bad)
    \/ Caller \/ Close
    \/ \E i \in queued : ThreadStarts(i)
    \/ \E i \in live : ThreadEnds(i)
    \/ SetCancel \/ DeadlinePasses

(* The caller's thread runs and time passes; no runner need ever return.   *)
Spec == Init /\ [][Next]_vars /\ WF_vars(Caller) /\ WF_vars(DeadlinePasses)

-----------------------------------------------------------------------------
(* The executor's bookkeeping has the shape the code gives it, and only    *)
(* futures of the run in progress are ever waited for.                     *)
TypeOK ==
    /\ pc \in {"idle", "head", "wait", "collect", "abandon", "return"}
    /\ pending \subseteq Tasks /\ futures \subseteq Tasks \ pending /\ batch \subseteq futures
    /\ results \in [Tasks -> Statuses \cup {"none"}]
    /\ queued \subseteq (1..MaxRuns) \X Tasks /\ live \subseteq (1..MaxRuns) \X Tasks
    /\ ended \subseteq Tasks

(* At most max_workers submissions are live (class docstring), counting    *)
(* the threads that earlier runs gave up on: the pool is never fed again   *)
(* while one of them may still be running.                                 *)
SubmissionsBounded == Cardinality(queued) + Cardinality(live) <= MaxWorkers

(* A run with a timeout returns even if no runner ever does.               *)
RunReturns == (pc # "idle" /\ hasDeadline) ~> (pc = "idle")
=============================================================================
