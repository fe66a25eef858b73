---------------------------- MODULE MCWorkspace ----------------------------
(* Small instance: one task and two phases of a feature; two names and four  *)
(* directories, enough to archive the same name twice and be refused the     *)
(* third time; two sessions of one agent, a gateway and two emitters.        *)
EXTENDS Workspace, TLC

CONSTANTS t, n1, n2, s1, s2, g1, e1, e2

OneTask == {t}
TwoNames == {n1, n2}
TwoSessions == {s1, s2}
OneGateway == {g1}
TwoEmitters == {e1, e2}
\* Bound: heartbeats or sessions, which are different agents and different
\* watermarks.
OneKind == \A g \in Gateways, s \in Sessions : db[g].began = 0 \/ db[s].began = 0
Interchangeable ==
    Permutations(TwoNames) \cup Permutations(TwoSessions) \cup Permutations(TwoEmitters)
=============================================================================
