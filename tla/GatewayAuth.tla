----------------------------- MODULE GatewayAuth -----------------------------
(***************************************************************************)
(* Activation tickets and the associations they open                       *)
(* (scripts/pd_fleet/gateway_auth.py).                                     *)
(*                                                                         *)
(* Every operation of SingleWriterTicketStore runs under one lock, so each *)
(* is one step.  The time of a call is read by the caller before it gets   *)
(* the lock: two calls can be served in the other order (Sampled).         *)
(* References, nonces and audit texts are left out.                        *)
(***************************************************************************)
EXTENDS Naturals, FiniteSets

CONSTANTS Activations,    \* activation_ref of the tickets that can be minted
          Associations,   \* association_ref
          ActivationTTL,  \* ACTIVATION_TTL_S
          IdleTTL, Grace, \* IDLE_TTL_S, GRACE_S
          Lag,            \* how long a call may wait for the lock
          MaxClock        \* bound: clock ticks

ASSUME AuthAssumption ==
    {ActivationTTL, IdleTTL, Grace, Lag, MaxClock} \subseteq Nat

VARIABLES
    clock,         \* the callers' clock
    activations,   \* _tickets: activation_ref -> NoActivation or its record
    associations,  \* _associations: association_ref -> NoAssociation or its record
    remembered,    \* _idempotency: tickets whose committed result is stored
    answers,       \* ticket -> the final answers given for it (history)
    commits        \* ticket -> times it opened an association (history)

authVars == <<clock, activations, associations, remembered, answers, commits>>

NoActivation == [status |-> "unknown"]
NoAssociation == [state |-> "unknown"]

\* _TRANSITIONS.
AssociationMoves ==
    [pending_activation |-> {"observing", "rejected"},
     observing          |-> {"reconnecting", "ended", "detached"},
     reconnecting       |-> {"stale", "detached"},
     stale              |-> {"pending_activation"},
     ended              |-> {},
     detached           |-> {},
     rejected           |-> {}]

\* What a caller presents, as far as the checks of a known ticket tell it apart.
Presentations == {"exact", "other_purpose", "other_observer", "other_binding"}

Sampled == {t \in 0..clock : t + Lag >= clock}

-----------------------------------------------------------------------------

AuthInit ==
    /\ clock = 0
    /\ activations = [t \in Activations |-> NoActivation]
    /\ associations = [a \in Associations |-> NoAssociation]
    /\ remembered = {}
    /\ answers = [t \in Activations |-> {}]
    /\ commits = [t \in Activations |-> 0]

\* issue_ticket: a fresh ticket for an association, whatever other tickets
\* that association has and whatever state it is in.
IssueTicket(t, a, at) ==
    /\ activations[t] = NoActivation
    /\ activations' = [activations EXCEPT ![t] =
           [status |-> "issued", association |-> a, expires |-> at + ActivationTTL]]
    /\ UNCHANGED <<clock, associations, remembered, answers, commits>>

RevokeTicket(t) ==
    /\ activations[t].status = "issued"
    /\ activations' = [activations EXCEPT ![t].status = "revoked"]
    /\ answers' = [answers EXCEPT ![t] = @ \cup {"revoked"}]
    /\ UNCHANGED <<clock, associations, remembered, commits>>

Overdue(t, at) == activations[t].status = "issued" /\ at > activations[t].expires

\* A denial that leaves the ticket as it is.
Deny(t, reason) ==
    /\ answers' = [answers EXCEPT ![t] = @ \cup {reason}]
    /\ UNCHANGED <<clock, activations, associations, remembered, commits>>

\* Mutant: the ticket is refused but stays issued.
ExpireTicketSoftly(t) == Deny(t, "expired")

\* The first presentation after the expiry makes it final.
ExpireTicket(t) ==
    /\ activations' = [activations EXCEPT ![t].status = "expired"]
    /\ answers' = [answers EXCEPT ![t] = @ \cup {"expired"}]
    /\ UNCHANGED <<clock, associations, remembered, commits>>

\* The commit: ticket, association and idempotency record in one step.  The
\* association record is written anew.
OpenAssociation(t, at) ==
    /\ associations' = [associations EXCEPT ![activations[t].association] =
                           [state |-> "observing", beat |-> at]]
    /\ activations' = [activations EXCEPT ![t].status = "consumed"]
    /\ remembered' = remembered \cup {t}
    /\ answers' = [answers EXCEPT ![t] = @ \cup {"activated"}]
    /\ commits' = [commits EXCEPT ![t] = @ + 1]
    /\ UNCHANGED clock

\* Mutant: a retry whose stored result is gone is served as a first use.
RepeatPresentationAnew(t, at) ==
    IF t \in remembered THEN Deny(t, "activated") ELSE OpenAssociation(t, at)

\* A consumed ticket presented again by the operation that consumed it: the
\* stored result, or activation_replayed once that is no longer kept.
RepeatPresentation(t, at) ==
    Deny(t, IF t \in remembered THEN "activated" ELSE "replayed")

\* consume_transaction, checks in the order of the code.  The operation key
\* consists of values the binding checks have already compared, so a consumed
\* ticket that gets that far is always presented with its own key.
ConsumeTicket(t, p, at) ==
    /\ activations[t] # NoActivation
    /\ LET status == activations[t].status
       IN  \/ p = "other_purpose" /\ Deny(t, "denied")
           \/ p # "other_purpose" /\ status = "revoked" /\ Deny(t, "revoked")
           \/ p # "other_purpose" /\ status = "expired" /\ Deny(t, "expired")
           \/ p # "other_purpose" /\ Overdue(t, at) /\ ExpireTicket(t)
           \/ /\ status \in {"issued", "consumed"} /\ ~Overdue(t, at)
              /\ \/ p \in {"other_observer", "other_binding"} /\ Deny(t, "denied")
                 \/ p = "exact" /\ status = "consumed" /\ RepeatPresentation(t, at)
                 \/ p = "exact" /\ status = "issued" /\ OpenAssociation(t, at)

\* touch: the heartbeat of an association that is observing or reconnecting;
\* it does not change the state.
Touch(a, at) ==
    /\ associations[a].state \in {"observing", "reconnecting"}
    /\ associations' = [associations EXCEPT ![a].beat = at]
    /\ UNCHANGED <<clock, activations, remembered, answers, commits>>

IdleFor(a, d, at) == at > associations[a].beat + d

\* evaluate: at most one transition per call, by the age of the heartbeat.
Evaluate(a, at) ==
    /\ \/ /\ associations[a].state = "observing" /\ IdleFor(a, IdleTTL, at)
          /\ associations' = [associations EXCEPT ![a].state = "reconnecting"]
       \/ /\ associations[a].state = "reconnecting" /\ IdleFor(a, IdleTTL + Grace, at)
          /\ associations' = [associations EXCEPT ![a].state = "stale"]
    /\ UNCHANGED <<clock, activations, remembered, answers, commits>>

\* Association.transition, called by reassociate (stale to pending_activation)
\* and by whoever got the record from get_association; illegal moves raise.
Transition(a, target) ==
    /\ associations[a] # NoAssociation
    /\ target \in AssociationMoves[associations[a].state]
    /\ associations' = [associations EXCEPT ![a].state = target]
    /\ UNCHANGED <<clock, activations, remembered, answers, commits>>

\* The retention of idempotency records, outside the store.
Forget(t) ==
    /\ t \in remembered
    /\ remembered' = remembered \ {t}
    /\ UNCHANGED <<clock, activations, associations, answers, commits>>

ClockTick ==
    /\ clock < MaxClock
    /\ clock' = clock + 1
    /\ UNCHANGED <<activations, associations, remembered, answers, commits>>

AuthNext ==
    \/ \E t \in Activations :
          \/ RevokeTicket(t) \/ Forget(t)
          \/ \E at \in Sampled : \/ \E a \in Associations : IssueTicket(t, a, at)
                                 \/ \E p \in Presentations : ConsumeTicket(t, p, at)
    \/ \E a \in Associations :
          \/ \E at \in Sampled : Touch(a, at) \/ Evaluate(a, at)
          \/ \E target \in DOMAIN AssociationMoves : Transition(a, target)
    \/ ClockTick

AuthSpec == AuthInit /\ [][AuthNext]_authVars

-----------------------------------------------------------------------------
(* Properties.                                                             *)

\* A ticket opens an association at most once, whatever is presented again,
\* concurrently, late or after its stored result is gone
\* (consume_transaction).
OpensOnce == \A t \in Activations : commits[t] <= 1

\* The first final word about a ticket is the last: one that was refused as
\* expired or revoked never activates later, not even by a call whose clock
\* was read before the expiry, and one that activated is never expired or
\* revoked (consume_transaction, revoke_ticket).
FinalAnswer ==
    \A t \in Activations :
        Cardinality(answers[t] \cap {"activated", "expired", "revoked"}) <= 1

\* "Legal transitions exactly as drawn in G4 3 (no invented edges)"
\* (_TRANSITIONS): an association only moves along that table.
AssociationFollowsTable ==
    [][\A a \in Associations :
         associations[a] # NoAssociation =>
            associations'[a].state \in
               {associations[a].state} \cup AssociationMoves[associations[a].state]]_authVars
=============================================================================
