--------------------------- MODULE D1Registration ---------------------------
(***************************************************************************)
(* FleetD1RegistrationBridge (fleet_d1_registration_bridge.py): the bridge *)
(* publishes its four methods at a registrar of the host in one batch, and *)
(* from then on the host's threads call them.  Only deactivate has an      *)
(* effect: it detaches the association the bridge was given, and forgets   *)
(* it.  No lock is held, so two of them may use the same association; its  *)
(* detach may raise.                                                       *)
(***************************************************************************)
CONSTANT Threads     \* threads of the host that call handlers

VARIABLES
    bridge,          \* what the bridge was constructed with, or None
    published,       \* the registrar has the four methods
    association,     \* _local_association is set
    detached,        \* a detach of the association returned
    handler          \* each thread: where it is, and its last answer

d1Vars == <<bridge, published, association, detached, handler>>

Methods == {"activate", "status", "deactivate", "replay"}
None == [enabled |-> FALSE, authority |-> FALSE, registrar |-> FALSE, injected |-> FALSE]

D1Init ==
    /\ bridge = None /\ published = FALSE
    /\ association = FALSE /\ detached = FALSE
    /\ handler = [t \in Threads |-> [at |-> "idle", answer |-> "none"]]

\* Only an enabled bridge gets further than this.
Construct ==
    /\ bridge = None
    /\ \E authority, registrar, injected \in BOOLEAN :
          /\ bridge' = [enabled |-> TRUE, authority |-> authority, registrar |-> registrar,
                        injected |-> injected]
          /\ association' = injected
    /\ UNCHANGED <<published, detached, handler>>

\* The port publishes all of them or raises; without one, register raises.
Register ==
    /\ bridge.enabled /\ bridge.registrar /\ ~published
    /\ published' = TRUE
    /\ UNCHANGED <<bridge, association, detached, handler>>

Respond(t, answer) ==
    handler' = [handler EXCEPT ![t] = [at |-> "idle", answer |-> answer]]

\* What every handler answers before, or instead of, an effect: to an id that
\* is none, to a request with anything but its own fields, to all when there
\* is no authority, and else that it is not ready.
Reply(t, method) ==
    /\ published /\ handler[t].at = "idle"
    /\ \/ Respond(t, "error")
       \/ Respond(t, "denied")
       \/ /\ bridge.authority
          /\ method = "deactivate" => ~association
          /\ Respond(t, "not_ready")
    /\ UNCHANGED <<bridge, published, association, detached>>

\* Mutant: the association is given up before it is detached.
DeactivateForgets(t) ==
    /\ published /\ handler[t].at = "idle"
    /\ bridge.authority /\ association
    /\ association' = FALSE
    /\ handler' = [handler EXCEPT ![t].at = "detach"]
    /\ UNCHANGED <<bridge, published, detached>>

\* deactivate has got hold of the association's detach ...
Deactivate(t) ==
    /\ published /\ handler[t].at = "idle"
    /\ bridge.authority /\ association
    /\ handler' = [handler EXCEPT ![t].at = "detach"]
    /\ UNCHANGED <<bridge, published, association, detached>>

\* ... calls it, and answers not_ready when it raises ...
CallDetach(t) ==
    /\ handler[t].at = "detach"
    /\ \/ detached' = TRUE /\ handler' = [handler EXCEPT ![t].at = "forget"]
       \/ UNCHANGED detached /\ Respond(t, "not_ready")
    /\ UNCHANGED <<bridge, published, association>>

\* ... and forgets the association.
ForgetAssociation(t) ==
    /\ handler[t].at = "forget"
    /\ association' = FALSE
    /\ Respond(t, "deactivated")
    /\ UNCHANGED <<bridge, published, detached>>

D1Next ==
    \/ Construct \/ Register
    \/ \E t \in Threads :
          \/ \E method \in Methods : Reply(t, method)
          \/ Deactivate(t) \/ CallDetach(t) \/ ForgetAssociation(t)

D1Spec == D1Init /\ [][D1Next]_d1Vars

-----------------------------------------------------------------------------
\* Whatever calls of deactivate run into each other and whichever detach
\* raises, an association is let go, or said to be deactivated, only after it
\* was detached; until then it is there for the next attempt.
ReleasedOnlyDetached ==
    /\ bridge.injected /\ ~association => detached
    /\ (\E t \in Threads : handler[t].answer = "deactivated") => detached /\ ~association
=============================================================================
