---------------------------- MODULE AgentRuntime ----------------------------
(***************************************************************************)
(* The agent runtime of fake_adapter.py: one record behind a lock, whose   *)
(* mutating operations are idempotent under a key.  execute reserves its   *)
(* key under the lock, waits at a gate outside it, and looks at the record *)
(* again before it dispatches; the others hold the lock throughout.        *)
(*                                                                         *)
(* Requests with the wrong lineage, owner, generation or handle, and the   *)
(* ones whose envelope is malformed, raise without an effect and are not   *)
(* enumerated.  A request carries its content, which stands here for the   *)
(* fingerprint derived from its redacted body, and the fingerprint that it *)
(* claims.  The two are compared only while the key has no stored answer.  *)
(***************************************************************************)
EXTENDS Naturals, FiniteSets

CONSTANTS Callers,      \* threads that may call execute
          Keys,         \* idempotency keys
          Requests      \* <<operation, key, content, claimed fingerprint>>

VARIABLES record,       \* status, dispatches, events, how the cleanup stands
          replay,       \* the stored answer of each operation and key
          inflight,     \* keys reserved by an execute
          calls,        \* each caller: where in execute, with which request
          answers       \* history: every answer returned, and to which request

ASSUME RequestsAssumption ==
    \A r \in Requests : /\ r[1] \in {"prepare", "execute", "cancel", "handoff", "cleanup"}
                        /\ r[2] \in Keys

agentVars == <<record, replay, inflight, calls, answers>>

Operations == {"prepare", "execute", "cancel", "handoff", "cleanup"}
Terminal == {"succeeded", "failed", "timed_out", "cancelled"}
NoAnswer == [fingerprint |-> "", result |-> [status |-> "", sequence |-> 0]]
Away == [at |-> "away", key |-> "", content |-> ""]

AgentInit ==
    /\ record = [status |-> "absent", dispatches |-> 0, sequence |-> 0, cleanup |-> "not_cleaned"]
    /\ replay = [o \in Operations |-> [k \in Keys |-> NoAnswer]]
    /\ inflight = {}
    /\ calls = [c \in Callers |-> Away]
    /\ answers = [o \in Operations |-> [k \in Keys |-> {}]]

Fresh(o, k) == replay[o][k] = NoAnswer

Answer(o, k, content, claim, result) ==
    answers' = [answers EXCEPT
        ![o][k] = @ \cup {[content |-> content, claim |-> claim, result |-> result]}]

\* A request under a key without an answer raises unless it claims its own
\* fingerprint.
Genuine(content, claim) == claim = content

\* Stores the answer to a genuine request under its key and returns it.
Reserve(o, k, content, result) ==
    /\ replay' = [replay EXCEPT ![o][k] = [fingerprint |-> content, result |-> result]]
    /\ Answer(o, k, content, content, result)

Result(status, sequence) == [status |-> status, sequence |-> sequence]

\* A request that claims the stored fingerprint gets the stored answer, its
\* content is not looked at; one that claims another is a conflict and raises.
AnswerAgain(o, k, content, claim) ==
    /\ ~Fresh(o, k) /\ replay[o][k].fingerprint = claim
    /\ Answer(o, k, content, claim, replay[o][k].result)
    /\ UNCHANGED <<record, replay, inflight, calls>>

Prepare(k, content) ==
    /\ record.status = "absent"
    /\ record' = [record EXCEPT !.status = "ready", !.sequence = 2]
    /\ Reserve("prepare", k, content, Result("ready", 2))
    /\ UNCHANGED <<inflight, calls>>

BeginExecute(c, k, content) ==
    /\ calls[c] = Away
    /\ Fresh("execute", k) /\ k \notin inflight /\ record.status = "ready"
    /\ inflight' = inflight \cup {k}
    /\ calls' = [calls EXCEPT ![c] = [at |-> "gate", key |-> k, content |-> content]]
    /\ UNCHANGED <<record, replay, answers>>

\* Mutant: the record is not looked at again behind the gate.
StillThere == record.status # "absent"

\* Behind the gate: dispatches when the record is still ready, raises if not.
StillReady == record.status = "ready"

PassGate(c) ==
    /\ calls[c].at = "gate"
    /\ calls' = [calls EXCEPT ![c].at = "leaving"]
    /\ \/ /\ StillReady
          /\ \E outcome \in {"succeeded", "failed", "timed_out"} :
                /\ record' = [record EXCEPT !.status = outcome, !.dispatches = @ + 1,
                                            !.sequence = @ + 2]
                /\ Reserve("execute", calls[c].key, calls[c].content,
                           Result(outcome, record.sequence + 2))
       \/ ~StillReady /\ UNCHANGED <<record, replay, answers>>
    /\ UNCHANGED inflight

LeaveExecute(c) ==
    /\ calls[c].at = "leaving"
    /\ inflight' = inflight \ {calls[c].key}
    /\ calls' = [calls EXCEPT ![c] = Away]
    /\ UNCHANGED <<record, replay, answers>>

\* An execute that has ended well is not cancelled; one that failed says so.
Cancel(k, content) ==
    /\ record.status \notin {"absent", "succeeded"} /\ Fresh("cancel", k)
    /\ \/ /\ record.status \in Terminal
          /\ Reserve("cancel", k, content, Result(record.status, record.sequence))
          /\ UNCHANGED record
       \/ /\ record.status \notin Terminal
          /\ \E confirmed \in BOOLEAN :
                LET status == IF confirmed THEN "cancelled" ELSE "failed"
                    sequence == record.sequence + IF confirmed THEN 2 ELSE 1
                IN  /\ record' = [record EXCEPT !.status = status, !.sequence = @ + 2]
                    /\ Reserve("cancel", k, content, Result(status, sequence))
    /\ UNCHANGED <<inflight, calls>>

Handoff(k, content) ==
    /\ record.status # "absent" /\ Fresh("handoff", k) /\ inflight = {}
    /\ Reserve("handoff", k, content, Result(record.status, record.sequence + 1))
    /\ UNCHANGED <<record, inflight, calls>>

\* Mutant: a cleanup does not look for its stored answer.
CleanupGuardUnkeyed(k) == record.status \in Terminal

\* A cleanup that succeeded is answered once for all keys; a failed one may be
\* tried again under another key.
CleanupGuard(k) == record.status \in Terminal /\ Fresh("cleanup", k)

Cleanup(k, content) ==
    /\ CleanupGuard(k)
    /\ \E marker \in (IF record.cleanup = "cleaned" THEN {"cleaned"} ELSE {"cleaned", "not_cleaned"}) :
          /\ record' = [record EXCEPT !.cleanup = marker]
          /\ Reserve("cleanup", k, content, Result(marker, record.sequence))
    /\ UNCHANGED <<inflight, calls>>

AgentNext ==
    \/ \E r \in Requests :
          \/ /\ Genuine(r[3], r[4])
             /\ \/ r[1] = "prepare" /\ Prepare(r[2], r[3])
                \/ r[1] = "execute" /\ \E c \in Callers : BeginExecute(c, r[2], r[3])
                \/ r[1] = "cancel" /\ Cancel(r[2], r[3])
                \/ r[1] = "handoff" /\ Handoff(r[2], r[3])
                \/ r[1] = "cleanup" /\ Cleanup(r[2], r[3])
          \/ AnswerAgain(r[1], r[2], r[3], r[4])
    \/ \E c \in Callers : PassGate(c) \/ LeaveExecute(c)

AgentSpec == AgentInit /\ [][AgentNext]_agentVars

-----------------------------------------------------------------------------
(* Properties.                                                             *)

\* The agent is dispatched at most once, however many executes wait at the
\* gate under different keys, and never after a cancellation was confirmed.
DispatchedOnce ==
    /\ record.dispatches <= 1
    /\ \A k \in Keys : \A a \in answers["cancel"][k] :
          a.result.status = "cancelled" => record.dispatches = 0

\* Across retries, failed cleanups and executes that overtake each other, a
\* key has one answer: every request that got it claimed one and the same
\* fingerprint, which was the true one of the request that the answer was
\* computed for.  (That the others had this content too is not promised: a
\* stored answer is given for the claim alone.)
AnswersStand ==
    \A o \in Operations : \A k \in Keys :
        answers[o][k] # {} =>
            \E first \in answers[o][k] :
                /\ first.content = first.claim
                /\ \A a \in answers[o][k] : a.claim = first.claim /\ a.result = first.result
=============================================================================
