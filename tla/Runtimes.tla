------------------------------ MODULE Runtimes ------------------------------
(***************************************************************************)
(* The three ways work is carried out: a pool of threads that runs tasks   *)
(* in parallel, a provider's process started by the sandbox runner, and    *)
(* the agent runtime with its idempotent calls.  They share no state; a    *)
(* property of one needs only the behaviours in which the others rest in   *)
(* their initial states.                                                   *)
(***************************************************************************)
EXTENDS BoundedExecutor, ProviderRun, AgentRuntime

runtimeVars == <<vars, providerVars, agentVars>>

RuntimeInit == Init /\ ProviderInit /\ AgentInit

OfPool(A) == ProviderInit /\ AgentInit /\ A /\ UNCHANGED <<providerVars, agentVars>>
OfProvider(A) == Init /\ AgentInit /\ A /\ UNCHANGED <<vars, agentVars>>
OfAgent(A) == Init /\ ProviderInit /\ A /\ UNCHANGED <<vars, providerVars>>

RuntimeNext == OfPool(Next) \/ OfProvider(ProviderNext) \/ OfAgent(AgentNext)

RuntimeSpec ==
    /\ RuntimeInit /\ [][RuntimeNext]_runtimeVars
    /\ WF_runtimeVars(OfPool(Caller)) /\ WF_runtimeVars(OfPool(DeadlinePasses))
    /\ WF_runtimeVars(OfProvider(RunnerStep)) /\ WF_runtimeVars(OfProvider(ClockMoves))
=============================================================================
