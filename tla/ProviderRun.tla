----------------------------- MODULE ProviderRun -----------------------------
(***************************************************************************)
(* One call of a local runtime provider.  Three callers reach the sandbox  *)
(* runner: the dispatch adapter of a Fleet task (orchestrator_provider.py, *)
(* provider_routing.py, provider_dispatch.py, runtime_adapter(s).py), the  *)
(* readiness probe (provider_readiness.py) and the validation executor     *)
(* (validation_executor.py).  The runner (sandbox.py) starts a process in  *)
(* a session of its own, reads its pipes up to a deadline, kills the group *)
(* when the deadline passes and maps how the process ended to a status.    *)
(*                                                                         *)
(* A setup is the immutable configuration a call starts from.  The process *)
(* is free: it may fork a child that keeps the pipes or leaves the group,  *)
(* close its pipes and go on, exit or never exit.                          *)
(***************************************************************************)
EXTENDS Naturals, Sequences, FiniteSets

CONSTANTS Providers,    \* the identities in the catalog
          Setups,       \* the configurations a call may start from
          Timeout       \* the runner's timeout, in ticks of the clock

VARIABLES setup,        \* the configuration of this call
          job,          \* the call: phase, provider started, status, verdict
          proc,         \* the started process, its child, the pipes' holders
          elapsed       \* time since the process was started

providerVars == <<setup, job, proc, elapsed>>

Network == "provider_network"
Conflicts == {"write", "execute", "shell", "network", "nested_agents"}
Forbidden == {"shell", "network", "nested_agents"}
Nobody == "nobody"

\* What RuntimeProviderProfile and RuntimePolicy let through.
WellFormedProfile(f) ==
    /\ f.network => Network \in f.allowed /\ f.allowed \cap Conflicts = {}
    /\ Network \in f.caps => f.caps \cap Conflicts = {}

\* What ProviderRoutePolicy lets through: no identity is in both lists.
WellFormedPolicy(s) ==
    /\ s.preferred \in Seq(Providers) /\ s.fallback \in Seq(Providers)
    /\ \A i \in DOMAIN s.preferred, j \in DOMAIN s.fallback : s.preferred[i] # s.fallback[j]

\* What ProviderDispatchRequest lets through.
WellFormedRequest(s) == s.request \cap Forbidden = {}

\* The runner a provider is given: none, or one its constructor accepted.
Runners == {"missing", "plain", "network"}

\* The adapter registered for a provider: none, that of another provider, a
\* template, one of a named runtime, one that has no command line, or one of
\* a named runtime whose request names no model.
Adapters == {"missing", "foreign", "template", "named", "no_command", "no_model"}

ASSUME SetupsAssumption ==
    \A s \in Setups :
        /\ s.runner \in [Providers -> Runners] /\ s.adapter \in [Providers -> Adapters]
        /\ s.kind \in {"task", "probe", "validation"}
        /\ s.kind # "task" => Len(s.preferred) = 1
        /\ WellFormedPolicy(s) /\ WellFormedRequest(s)
        /\ \A p \in Providers : WellFormedProfile(s.profile[p])

-----------------------------------------------------------------------------
(* Declared readiness and routing.                                         *)

Readiness(f) ==
    IF \/ ~f.enabled \/ ~f.subagents
       \/ ~(f.caps \subseteq f.allowed)
       \/ Network \in f.caps /\ ~f.network
    THEN "blocked"
    ELSE IF f.auth /\ f.command THEN "ready" ELSE "not_ready"

Ordered(s) == s.preferred \o (IF s.allowFallback THEN s.fallback ELSE <<>>)

Eligible(s, p) ==
    LET f == s.profile[p]
    IN  f.enabled /\ Readiness(f) = "ready" /\ f.auth /\ s.required \subseteq f.caps

Candidates(s) == SelectSeq(Ordered(s), LAMBDA p : Eligible(s, p))

Outcome(verdict) == [run |-> FALSE, verdict |-> verdict, provider |-> Nobody]
StartOn(p) == [run |-> TRUE, verdict |-> "", provider |-> p]

\* execute of the adapter before it calls the runner: the network of request
\* and runner differ, no command line can be built or the paths have no root.
AdapterRefuses(s, p) ==
    \/ (Network \in s.request) # (s.runner[p] = "network")
    \/ s.adapter[p] \in {"no_command", "no_model"}
    \/ ~s.rooted

\* What RuntimeTaskEnvelope raises on, of what came through the boundary.
EnvelopeRaises(s, p) ==
    Network \in s.request /\ (~s.profile[p].network \/ "write" \in s.request)

\* What the boundary and the adapter refuse before they call the runner: the
\* boundary blocks or raises, the adapter's refusals are failed attempts.
Preflight(s, p) ==
    LET f == s.profile[p]
        adapter == s.adapter[p]
    IN  CASE adapter = "missing" -> Outcome("blocked")
          [] adapter = "foreign" -> Outcome("raised")
          [] ~(s.request \subseteq f.caps \cap f.allowed) -> Outcome("blocked")
          [] s.runner[p] = "missing" -> Outcome("blocked")
          [] EnvelopeRaises(s, p) -> Outcome("raised")
          [] AdapterRefuses(s, p) -> Outcome("failed")
          [] OTHER -> StartOn(p)

Dispatch(s) ==
    LET eligible == Candidates(s)
    IN  CASE \E i \in DOMAIN eligible : s.profile[eligible[i]].caps \cap Forbidden # {} ->
               Outcome("raised")
          [] eligible = <<>> -> Outcome("blocked")
          [] OTHER -> Preflight(s, eligible[1])

Probe(s) ==
    LET p == s.preferred[1]
    IN  CASE s.runner[p] = "missing" -> Outcome("raised")
          [] Readiness(s.profile[p]) # "ready" -> Outcome("not_ready")
          [] s.adapter[p] \in {"missing", "no_command"} -> Outcome("raised")
          [] OTHER -> StartOn(p)

Validation(s) ==
    LET p == s.preferred[1]
    IN  IF s.runner[p] = "missing" \/ ~s.rooted THEN Outcome("denied") ELSE StartOn(p)

Decision(s) ==
    CASE s.kind = "task" -> Dispatch(s)
      [] s.kind = "probe" -> Probe(s)
      [] OTHER -> Validation(s)

\* The caller's reading of the runner's status; `usable` says whether the
\* output has a result an adapter of a named runtime recognises.
Verdict(s, p, status, usable) ==
    CASE s.kind = "task" ->
           IF status = "passed" /\ (s.adapter[p] = "named" => usable)
           THEN "completed" ELSE "failed"
      [] s.kind = "probe" ->
           IF status = "passed" THEN "present" ELSE status
      [] OTHER ->
           IF status = "denied" THEN "failed" ELSE status

-----------------------------------------------------------------------------
(* The sandbox runner.                                                     *)

NoSetup == [kind |-> "none"]
NoProcess == [leader |-> "none", child |-> "none", held |-> {}]

ProviderInit ==
    /\ setup = NoSetup
    /\ job = [phase |-> "idle", provider |-> Nobody, status |-> "", verdict |-> "",
              drained |-> FALSE]
    /\ proc = NoProcess
    /\ elapsed = 0

\* The group dies at once; a child that left the session does not.
Killed(p) ==
    [leader |-> IF p.leader = "running" THEN "killed" ELSE p.leader,
     child |-> IF p.child = "group" THEN "gone" ELSE p.child,
     held |-> IF p.child = "away" THEN p.held \ {"leader"} ELSE {}]

Finish(status) ==
    \E usable \in BOOLEAN :
        job' = [job EXCEPT !.phase = "done", !.status = status,
                           !.verdict = Verdict(setup, job.provider, status, usable)]

Call ==
    /\ job.phase = "idle"
    /\ setup' \in Setups
    /\ job' = [job EXCEPT !.phase = "called"]
    /\ UNCHANGED <<proc, elapsed>>

RefuseLease ==
    /\ job.phase = "called" /\ setup.kind = "task"
    /\ job' = [job EXCEPT !.phase = "done", !.verdict = "raised"]
    /\ UNCHANGED <<setup, proc, elapsed>>

Settle ==
    /\ job.phase = "called" /\ ~Decision(setup).run
    /\ job' = [job EXCEPT !.phase = "done", !.verdict = Decision(setup).verdict]
    /\ UNCHANGED <<setup, proc, elapsed>>

\* Any check of the command line, the directory or the executable.
Deny ==
    /\ job.phase = "called" /\ Decision(setup).run
    /\ job' = [job EXCEPT !.phase = "done", !.status = "denied",
                 !.verdict = Verdict(setup, Decision(setup).provider, "denied", FALSE)]
    /\ UNCHANGED <<setup, proc, elapsed>>

Spawn ==
    /\ job.phase = "called" /\ Decision(setup).run
    /\ job' = [job EXCEPT !.phase = "reading", !.provider = Decision(setup).provider]
    /\ proc' = [leader |-> "running", child |-> "none", held |-> {"leader"}]
    /\ UNCHANGED <<setup, elapsed>>

\* The process cannot be started.
SpawnFails ==
    /\ job.phase = "called" /\ Decision(setup).run
    /\ job' = [job EXCEPT !.phase = "done", !.status = "failed",
                 !.verdict = Verdict(setup, Decision(setup).provider, "failed", FALSE)]
    /\ UNCHANGED <<setup, proc, elapsed>>

PastDeadline == elapsed = Timeout

ReadToEnd ==
    /\ job.phase = "reading" /\ proc.held = {}
    /\ job' = [job EXCEPT !.phase = "waiting", !.drained = TRUE]
    /\ UNCHANGED <<setup, proc, elapsed>>

\* Mutant: an exit code of 0 outweighs the deadline.
StopReadingByCode ==
    /\ job.phase = "reading" /\ PastDeadline
    /\ proc' = Killed(proc)
    /\ Finish(IF proc.leader = "exit0" THEN "passed" ELSE "timeout")
    /\ UNCHANGED <<setup, elapsed>>

\* Mutant: the deadline is for a process that still runs.
StopReadingOfLeader ==
    /\ job.phase = "reading" /\ PastDeadline /\ proc.leader = "running"
    /\ proc' = Killed(proc)
    /\ Finish("timeout")
    /\ UNCHANGED <<setup, elapsed>>

\* The process that was killed may take longer to go than the runner waits,
\* which raises: the status is then that of a failure.
StopReading ==
    /\ job.phase = "reading" /\ PastDeadline
    /\ proc' = Killed(proc)
    /\ Finish("timeout") \/ (proc.leader = "running" /\ Finish("failed"))
    /\ UNCHANGED <<setup, elapsed>>

Reap ==
    /\ job.phase = "waiting" /\ proc.leader \in {"exit0", "exit1"}
    /\ Finish(IF proc.leader = "exit0" THEN "passed" ELSE "failed")
    /\ UNCHANGED <<setup, proc, elapsed>>

StopWaiting ==
    /\ job.phase = "waiting" /\ proc.leader = "running" /\ PastDeadline
    /\ proc' = Killed(proc)
    /\ Finish("failed")
    /\ UNCHANGED <<setup, elapsed>>

ReaderFails ==
    /\ job.phase = "reading"
    /\ proc' = Killed(proc)
    /\ Finish("failed")
    /\ UNCHANGED <<setup, elapsed>>

-----------------------------------------------------------------------------
(* The process and the clock.                                              *)

Running(who) ==
    IF who = "leader" THEN proc.leader = "running" ELSE proc.child \in {"group", "away"}

Fork ==
    /\ proc.leader = "running" /\ proc.child = "none"
    /\ \E keeps \in BOOLEAN :
          proc' = [proc EXCEPT !.child = "group",
                               !.held = IF keeps /\ "leader" \in @ THEN @ \cup {"child"} ELSE @]
    /\ UNCHANGED <<setup, job, elapsed>>

LeaveGroup ==
    /\ proc.child = "group"
    /\ proc' = [proc EXCEPT !.child = "away"]
    /\ UNCHANGED <<setup, job, elapsed>>

ClosePipes(who) ==
    /\ who \in proc.held
    /\ proc' = [proc EXCEPT !.held = @ \ {who}]
    /\ UNCHANGED <<setup, job, elapsed>>

Exit(who) ==
    /\ Running(who)
    /\ \E code \in {"exit0", "exit1"} :
          proc' = IF who = "leader"
                  THEN [proc EXCEPT !.leader = code, !.held = @ \ {who}]
                  ELSE [proc EXCEPT !.child = "gone", !.held = @ \ {who}]
    /\ UNCHANGED <<setup, job, elapsed>>

ClockMoves ==
    /\ job.phase \in {"reading", "waiting"} /\ elapsed < Timeout
    /\ elapsed' = elapsed + 1
    /\ UNCHANGED <<setup, job, proc>>

RunnerStep ==
    RefuseLease \/ Settle \/ Deny \/ Spawn \/ SpawnFails \/ ReadToEnd \/ StopReading \/ Reap \/ StopWaiting

ProviderNext ==
    \/ Call \/ RunnerStep \/ ReaderFails
    \/ Fork \/ LeaveGroup \/ ClockMoves
    \/ \E who \in {"leader", "child"} : ClosePipes(who) \/ Exit(who)

\* The runner's thread and the clock go on; the process need not.
ProviderSpec ==
    /\ ProviderInit /\ [][ProviderNext]_providerVars
    /\ WF_providerVars(RunnerStep) /\ WF_providerVars(ClockMoves)

-----------------------------------------------------------------------------
(* Properties.                                                             *)

\* A caller reads success only from a process that ended by itself with code
\* 0, after all of its output was read: a deadline that finds the pipes open
\* is no success, whatever the process's code.
SuccessIsComplete ==
    job.verdict \in {"completed", "present", "passed"} =>
        proc.leader = "exit0" /\ job.drained

\* Every call returns, whatever the process it started does.
CallReturns == job.phase \in {"called", "reading", "waiting"} ~> job.phase = "done"
=============================================================================
