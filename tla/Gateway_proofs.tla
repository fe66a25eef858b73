--------------------------- MODULE Gateway_proofs ---------------------------
(***************************************************************************)
(* The gateway's parts, for any number of host threads, tickets,           *)
(* associations and subscribers, any limits and any length of stream.      *)
(***************************************************************************)
EXTENDS Gateway, Induction_proofs, FiniteSetTheorems, SequenceTheorems

-----------------------------------------------------------------------------
(* Registration at the host.                                               *)

D1TypeOK ==
    /\ bridge \in [enabled : BOOLEAN, authority : BOOLEAN, registrar : BOOLEAN, injected : BOOLEAN]
    /\ published \in BOOLEAN /\ association \in BOOLEAN /\ detached \in BOOLEAN
    /\ handler \in [Threads -> [at : {"idle", "detach", "forget"},
                                answer : {"none", "error", "denied", "not_ready", "deactivated"}]]

(* Handlers run only behind a bridge that was constructed, and a thread    *)
(* that is about to forget the association has detached it.                *)
D1Inv ==
    /\ D1TypeOK
    /\ bridge.enabled \/ (~published /\ ~bridge.injected)
    /\ ~published => \A t \in Threads : handler[t].at = "idle" /\ handler[t].answer = "none"
    /\ \A t \in Threads : handler[t].at = "forget" => detached
    /\ ReleasedOnlyDetached

LEMMA D1InitInv == D1Init => D1Inv
<1> SUFFICES ASSUME D1Init PROVE D1Inv
  OBVIOUS
<1>1. D1TypeOK
  BY DEF D1Init, D1TypeOK, None
<1>2. \A t \in Threads : handler[t].at = "idle" /\ handler[t].answer = "none"
  BY DEF D1Init
<1>3. ~bridge.injected /\ ~published
  BY DEF D1Init, None
<1> QED
  BY <1>1, <1>2, <1>3 DEF D1Inv, ReleasedOnlyDetached

LEMMA D1NextInv == D1Inv /\ [D1Next]_d1Vars => D1Inv'
<1> SUFFICES ASSUME D1Inv, [D1Next]_d1Vars PROVE D1Inv'
  OBVIOUS
<1> USE DEF D1Inv, D1TypeOK, ReleasedOnlyDetached
<1>1. CASE Construct
  BY <1>1 DEF Construct, None
<1>2. CASE Register
  BY <1>2 DEF Register
<1>3. ASSUME NEW t \in Threads, NEW method \in Methods, Reply(t, method) PROVE D1Inv'
  BY <1>3 DEF Reply, Respond
<1>4. ASSUME NEW t \in Threads, Deactivate(t) PROVE D1Inv'
  BY <1>4 DEF Deactivate
<1>5. ASSUME NEW t \in Threads, CallDetach(t) PROVE D1Inv'
  <2>1. CASE detached' = TRUE /\ handler' = [handler EXCEPT ![t].at = "forget"]
    <3>1. D1TypeOK'
      BY <1>5, <2>1 DEF CallDetach
    <3>2. \A u \in Threads : handler'[u].answer = handler[u].answer
      BY <2>1
    <3> QED
      BY <1>5, <2>1, <3>1, <3>2 DEF CallDetach
  <2>2. CASE UNCHANGED detached /\ Respond(t, "not_ready")
    BY <1>5, <2>2 DEF CallDetach, Respond
  <2> QED
    BY <1>5, <2>1, <2>2 DEF CallDetach
<1>6. ASSUME NEW t \in Threads, ForgetAssociation(t) PROVE D1Inv'
  BY <1>6 DEF ForgetAssociation, Respond
<1>7. CASE UNCHANGED d1Vars
  BY <1>7 DEF d1Vars
<1> QED
  BY <1>1, <1>2, <1>3, <1>4, <1>5, <1>6, <1>7 DEF D1Next

(* An association is let go, or said to be deactivated, only after it was  *)
(* detached, for any number of threads in deactivate.                      *)
THEOREM AssociationReleased == D1Spec => []ReleasedOnlyDetached
<1>1. D1Inv => ReleasedOnlyDetached
  BY DEF D1Inv
<1> QED
  BY <1>1, D1InitInv, D1NextInv, PTL DEF D1Spec

-----------------------------------------------------------------------------
(* Activation tickets.                                                     *)

AuthTypeOK ==
    /\ activations \in [Activations ->
           {NoActivation} \cup [status : {"issued", "revoked", "expired", "consumed"},
                               association : Associations, expires : Nat]]
    /\ answers \in [Activations -> SUBSET {"activated", "expired", "revoked", "replayed", "denied"}]
    /\ commits \in [Activations -> Nat]

Final(t) == answers[t] \cap {"activated", "expired", "revoked"}

(* What was said about a ticket and what it opened agree with its status.  *)
TicketInv(t) ==
    LET status == activations[t].status
    IN  /\ status \in {"unknown", "issued"} => Final(t) = {} /\ commits[t] = 0
        /\ status = "revoked" => Final(t) = {"revoked"} /\ commits[t] = 0
        /\ status = "expired" => Final(t) = {"expired"} /\ commits[t] = 0
        /\ status = "consumed" => Final(t) = {"activated"} /\ commits[t] = 1

AuthInv ==
    /\ AuthTypeOK
    /\ \A t \in Activations : TicketInv(t)
    /\ \A t \in Activations \cap remembered : activations[t].status = "consumed"

LEMMA AuthInitInv == AuthInit => AuthInv
BY DEF AuthInit, AuthInv, AuthTypeOK, TicketInv, Final, NoActivation

(* A denial that says of a ticket what its status says, or nothing final.  *)
LEMMA DenyKeeps ==
    ASSUME AuthInv, NEW t \in Activations,
           NEW reason \in {"activated", "expired", "revoked", "replayed", "denied"},
           reason \in {"activated", "expired", "revoked"} => reason \in Final(t),
           Deny(t, reason)
    PROVE  AuthInv'
<1>1. AuthTypeOK'
  BY DEF AuthInv, AuthTypeOK, Deny
<1>2. \A u \in Activations : Final(u)' = Final(u)
  BY DEF AuthInv, AuthTypeOK, Deny, Final
<1> QED
  BY <1>1, <1>2 DEF AuthInv, Deny, TicketInv

LEMMA ConsumeKeeps ==
    ASSUME AuthInv, NEW t \in Activations, NEW p \in Presentations, NEW at \in Nat,
           ConsumeTicket(t, p, at)
    PROVE  AuthInv'
<1> DEFINE status == activations[t].status
<1>0. status \in {"issued", "revoked", "expired", "consumed"} /\ TicketInv(t)
  BY DEF ConsumeTicket, AuthInv, AuthTypeOK
<1>1. CASE Deny(t, "denied")
  BY <1>1, DenyKeeps
<1>2. CASE status = "revoked" /\ Deny(t, "revoked")
  BY <1>0, <1>2, DenyKeeps DEF TicketInv
<1>3. CASE status = "expired" /\ Deny(t, "expired")
  BY <1>0, <1>3, DenyKeeps DEF TicketInv
<1>4. CASE Overdue(t, at) /\ ExpireTicket(t)
  <2>1. AuthTypeOK' /\ activations'[t].status = "expired"
    BY <1>4 DEF AuthInv, AuthTypeOK, ExpireTicket, Overdue, NoActivation
  <2>2. Final(t)' = {"expired"} /\ commits'[t] = 0
    BY <1>4 DEF AuthInv, AuthTypeOK, TicketInv, ExpireTicket, Overdue, Final
  <2>3. \A u \in Activations \ {t} : TicketInv(u)'
    BY <1>4 DEF AuthInv, AuthTypeOK, TicketInv, ExpireTicket, Final
  <2>4. status # "consumed"
    BY <1>4 DEF Overdue
  <2>5. \A u \in Activations \cap remembered' : activations'[u].status = "consumed"
    BY <1>4, <2>4 DEF AuthInv, AuthTypeOK, ExpireTicket
  <2> QED
    BY <2>1, <2>2, <2>3, <2>5 DEF AuthInv, TicketInv
<1>5. CASE status = "consumed" /\ RepeatPresentation(t, at)
  BY <1>0, <1>5, DenyKeeps DEF TicketInv, RepeatPresentation
<1>6. CASE status = "issued" /\ OpenAssociation(t, at)
  <2>1. AuthTypeOK' /\ activations'[t].status = "consumed"
    BY <1>6 DEF AuthInv, AuthTypeOK, OpenAssociation, NoActivation
  <2>2. Final(t)' = {"activated"} /\ commits'[t] = 1
    BY <1>6 DEF AuthInv, AuthTypeOK, TicketInv, OpenAssociation, Final
  <2>3. \A u \in Activations \ {t} : TicketInv(u)'
    BY <1>6 DEF AuthInv, AuthTypeOK, TicketInv, OpenAssociation, Final
  <2>4. \A u \in Activations \cap remembered' : activations'[u].status = "consumed"
    BY <1>6, <2>1 DEF AuthInv, AuthTypeOK, OpenAssociation
  <2> QED
    BY <2>1, <2>2, <2>3, <2>4 DEF AuthInv, TicketInv
<1> QED
  BY <1>1, <1>2, <1>3, <1>4, <1>5, <1>6 DEF ConsumeTicket

LEMMA AuthNextInv == AuthInv /\ [AuthNext]_authVars => AuthInv'
<1> SUFFICES ASSUME AuthInv, [AuthNext]_authVars PROVE AuthInv'
  OBVIOUS
<1>0. Sampled \subseteq Nat
  BY DEF Sampled
<1>1. ASSUME NEW t \in Activations, RevokeTicket(t) PROVE AuthInv'
  <2>1. AuthTypeOK' /\ activations'[t].status = "revoked"
    BY <1>1 DEF AuthInv, AuthTypeOK, RevokeTicket, NoActivation
  <2>2. Final(t)' = {"revoked"} /\ commits'[t] = 0
    BY <1>1 DEF AuthInv, AuthTypeOK, TicketInv, RevokeTicket, Final
  <2>3. \A u \in Activations \ {t} : TicketInv(u)'
    BY <1>1 DEF AuthInv, AuthTypeOK, TicketInv, RevokeTicket, Final
  <2>4. \A u \in Activations \cap remembered' : activations'[u].status = "consumed"
    BY <1>1 DEF AuthInv, AuthTypeOK, RevokeTicket
  <2> QED
    BY <2>1, <2>2, <2>3, <2>4 DEF AuthInv, TicketInv
<1>2. ASSUME NEW t \in Activations, Forget(t) PROVE AuthInv'
  BY <1>2 DEF Forget, AuthInv, AuthTypeOK, TicketInv, Final
<1>3. ASSUME NEW t \in Activations, NEW a \in Associations, NEW at \in Sampled,
             IssueTicket(t, a, at)
      PROVE  AuthInv'
  <2>1. at + ActivationTTL \in Nat
    BY <1>0, AuthAssumption
  <2>2. AuthTypeOK' /\ activations'[t].status = "issued"
    BY <1>3, <2>1 DEF AuthInv, AuthTypeOK, IssueTicket
  <2>3. \A u \in Activations : TicketInv(u)'
    BY <1>3, <2>2 DEF AuthInv, AuthTypeOK, TicketInv, IssueTicket, Final, NoActivation
  <2>4. \A u \in Activations \cap remembered' : activations'[u].status = "consumed"
    BY <1>3 DEF AuthInv, AuthTypeOK, IssueTicket, NoActivation
  <2> QED
    BY <2>2, <2>3, <2>4 DEF AuthInv
<1>4. ASSUME NEW t \in Activations, NEW p \in Presentations, NEW at \in Sampled,
             ConsumeTicket(t, p, at)
      PROVE  AuthInv'
  BY <1>0, <1>4, ConsumeKeeps
<1>5. CASE UNCHANGED <<activations, remembered, answers, commits>>
  BY <1>5 DEF AuthInv, AuthTypeOK, TicketInv, Final
<1>6. ASSUME NEW a \in Associations, NEW at \in Sampled, Touch(a, at) \/ Evaluate(a, at)
      PROVE  AuthInv'
  BY <1>5, <1>6 DEF Touch, Evaluate
<1>7. ASSUME NEW a \in Associations, NEW target \in DOMAIN AssociationMoves,
             Transition(a, target)
      PROVE  AuthInv'
  BY <1>5, <1>7 DEF Transition
<1> QED
  BY <1>1, <1>2, <1>3, <1>4, <1>5, <1>6, <1>7 DEF AuthNext, ClockTick, authVars

(* What was answered about a ticket, and what it opened, agree with its    *)
(* status, and only operations on consumed tickets are remembered.         *)
THEOREM TicketsSettled == AuthSpec => []AuthInv
BY AuthInitInv, AuthNextInv, PTL DEF AuthSpec

(* A ticket opens an association at most once, whatever is presented.      *)
THEOREM TicketOpensOnce == AuthSpec => []OpensOnce
<1>1. AuthInv => OpensOnce
  BY DEF AuthInv, AuthTypeOK, TicketInv, OpensOnce, NoActivation
<1> QED
  BY <1>1, TicketsSettled, PTL

(* The first final answer about a ticket is the only one.                  *)
THEOREM TicketAnswerFinal == AuthSpec => []FinalAnswer
<1>1. ASSUME AuthInv, NEW t \in Activations PROVE Cardinality(Final(t)) <= 1
  <2>1. Final(t) = {} \/ \E x : Final(t) = {x}
    BY <1>1 DEF AuthInv, AuthTypeOK, TicketInv, NoActivation
  <2> QED
    BY <2>1, FS_EmptySet, FS_Singleton
<1>2. AuthInv => FinalAnswer
  BY <1>1 DEF FinalAnswer, Final
<1> QED
  BY <1>2, TicketsSettled, PTL

-----------------------------------------------------------------------------
(* Subscriptions.                                                          *)

(* Min of a set of natural numbers that is not empty is one of its members *)
(* and below the others.                                                   *)
LEMMA MinOfNat ==
    ASSUME NEW T \in SUBSET Nat, T # {}
    PROVE  Min(T) \in T /\ \A m \in T : Min(T) <= m
BY LeastNumber DEF Min

Subscription ==
    [state : {"observing", "reconnecting", "stale", "detached"}, snapshot : Nat, cursor : Nat,
     issued : Nat, beat : Nat, beatSeq : Nat, upto : Nat]

SubTypeOK ==
    /\ ingested \in Nat /\ floor \in Nat
    /\ subs \in [Subscribers -> {NoSubscription} \cup Subscription]
    /\ outbox \in [Subscribers -> SUBSET Nat]
    /\ seen \in [Subscribers -> SUBSET Nat]

(* What was delivered beyond the cursor is acknowledged or still waits in  *)
(* the outbox, which only a detach empties.                                *)
PendingInv(s) ==
    subs[s] # NoSubscription /\ s \notin tombs =>
        (subs[s].cursor + 1)..subs[s].upto \subseteq outbox[s] \cup seen[s]

EarnedInv(s) ==
    subs[s] # NoSubscription => (subs[s].snapshot + 1)..subs[s].cursor \subseteq seen[s]

SubInv == SubTypeOK /\ \A s \in Subscribers : PendingInv(s) /\ EarnedInv(s)

(* A subscription is a record of its own kind.                             *)
LEMMA SubscriptionIsKnown == \A r \in Subscription : r # NoSubscription
BY DEF Subscription, NoSubscription

(* The state that the silence of a subscriber leads to.                    *)
LEMMA DerivedType ==
    ASSUME NEW r \in Subscription, NEW at \in Nat
    PROVE  Derived(r, at) \in {"observing", "reconnecting", "stale", "detached"}
BY DEF Derived, Subscription

(* A step that leaves what the invariant is about as it is for s.          *)
LEMMA SameSubscriber ==
    ASSUME NEW s \in Subscribers, PendingInv(s), EarnedInv(s),
           subs'[s].cursor = subs[s].cursor, subs'[s].upto = subs[s].upto,
           subs'[s].snapshot = subs[s].snapshot,
           subs'[s] = NoSubscription <=> subs[s] = NoSubscription,
           outbox'[s] = outbox[s], seen'[s] = seen[s], s \in tombs => s \in tombs'
    PROVE  PendingInv(s)' /\ EarnedInv(s)'
BY DEF PendingInv, EarnedInv

(* The cursor never moves over what is in the outbox.                      *)
LEMMA AdvancedPasses ==
    ASSUME NEW r \in Subscription, NEW box \in SUBSET Nat
    PROVE  /\ Advanced(r, box) \in Nat
           /\ Advanced(r, box) >= r.cursor
           /\ Advanced(r, box) > r.cursor => Advanced(r, box) <= r.upto
           /\ \A n \in (r.cursor + 1)..Advanced(r, box) : n \notin box
<1>1. r.cursor \in Nat /\ r.upto \in Nat
  BY DEF Subscription
<1>2. CASE r.cursor >= r.upto
  BY <1>1, <1>2 DEF Advanced
<1>3. CASE r.cursor < r.upto
  <2> DEFINE T == {n \in r.cursor..r.upto : n = r.upto \/ n + 1 \in box}
  <2>1. T \in SUBSET Nat /\ r.upto \in T
    BY <1>1, <1>3
  <2>2. Advanced(r, box) = Min(T)
    BY <1>1, <1>3 DEF Advanced
  <2> HIDE DEF T
  <2>3. Min(T) \in T /\ \A m \in T : Min(T) <= m
    BY <2>1, MinOfNat
  <2>4. \A n \in r.cursor..r.upto : n < Min(T) => n + 1 \notin box
    BY <1>1, <2>1, <2>3 DEF T
  <2>5. Min(T) \in r.cursor..r.upto
    BY <2>3 DEF T
  <2>6. ASSUME NEW n \in (r.cursor + 1)..Min(T) PROVE n \notin box
    BY <1>1, <2>4, <2>5, n - 1 \in r.cursor..r.upto, n - 1 < Min(T), (n - 1) + 1 = n
  <2> QED
    BY <1>1, <2>2, <2>5, <2>6
<1> QED
  BY <1>1, <1>2, <1>3

LEMMA SubInitInv == SubInit => SubInv
BY DEF SubInit, SubInv, SubTypeOK, PendingInv, EarnedInv

(* subscribe: nothing is delivered yet, and the cursor is at the snapshot. *)
LEMMA SubscribeKeeps ==
    ASSUME SubInv, NEW s \in Subscribers, NEW snapshot \in Nat, NEW at \in Nat,
           SubscribeFrom(s, snapshot, at)
    PROVE  SubInv'
<1>1. SubTypeOK'
  BY DEF SubInv, SubTypeOK, SubscribeFrom, Subscription
<1>2. ASSUME NEW u \in Subscribers PROVE PendingInv(u)' /\ EarnedInv(u)'
  <2>1. CASE u = s
    <3>1. subs'[s].cursor = snapshot /\ subs'[s].snapshot = snapshot /\ subs'[s].upto = 0
      BY DEF SubInv, SubTypeOK, SubscribeFrom
    <3>2. (snapshot + 1)..0 = {} /\ (snapshot + 1)..snapshot = {}
      OBVIOUS
    <3> QED
      BY <2>1, <3>1, <3>2 DEF PendingInv, EarnedInv
  <2>2. CASE u # s
    BY <2>2, SameSubscriber DEF SubInv, SubTypeOK, SubscribeFrom
  <2> QED
    BY <2>1, <2>2
<1> QED
  BY <1>1, <1>2 DEF SubInv

(* A step that changes at most the state and the heartbeat of s.           *)
LEMMA StateKeeps ==
    ASSUME SubInv, NEW s \in Subscribers, subs[s] # NoSubscription, NEW r \in Subscription,
           r.cursor = subs[s].cursor, r.upto = subs[s].upto, r.snapshot = subs[s].snapshot,
           subs' = [subs EXCEPT ![s] = r],
           UNCHANGED <<ingested, floor, outbox, tombs, seen>>
    PROVE  SubInv'
<1>1. SubTypeOK'
  BY DEF SubInv, SubTypeOK
<1>2. ASSUME NEW u \in Subscribers PROVE PendingInv(u)' /\ EarnedInv(u)'
  BY SameSubscriber, SubscriptionIsKnown DEF SubInv, SubTypeOK
<1> QED
  BY <1>1, <1>2 DEF SubInv

(* read: what is served is everything between the cursor and the end of    *)
(* the stream, because the floor is not beyond the cursor.                 *)
LEMMA ReadKeeps ==
    ASSUME SubInv, NEW s \in Subscribers, NEW at \in Nat, Read(s, at)
    PROVE  SubInv'
<1> DEFINE r == subs[s]
           state == Derived(r, at)
           events == {n \in History : n > r.cursor}
           served == Servable(s, state, at) /\ events # {}
<1>0. r \in Subscription /\ r # NoSubscription /\ s \notin tombs
  BY DEF Read, Known, SubInv, SubTypeOK
<1>1. state \in {"observing", "reconnecting", "stale", "detached"}
  BY <1>0, DerivedType
<1>2. /\ subs' = [subs EXCEPT ![s].state = state,
                              ![s].upto = IF served THEN Max({@} \cup events) ELSE @]
      /\ outbox' = [outbox EXCEPT ![s] = IF served THEN @ \cup events ELSE @]
      /\ UNCHANGED <<ingested, floor, tombs, seen>>
  BY DEF Read
<1>3. ingested \in Nat /\ floor \in Nat /\ r.cursor \in Nat /\ r.upto \in Nat
  BY <1>0 DEF SubInv, SubTypeOK, Subscription
<1>4. CASE served
  <2>1. r.cursor >= floor
    BY <1>4 DEF Servable
  <2>2. events = (r.cursor + 1)..ingested
    BY <1>3, <2>1 DEF History
  <2>3. ingested \in events
    BY <1>3, <1>4, <2>2
  <2> DEFINE top == Max({r.upto} \cup events)
  <2>4. top \in {r.upto} \cup events
    <3>1. \E x \in {r.upto} \cup events : \A y \in {r.upto} \cup events : x >= y
      <4>1. CASE r.upto >= ingested
        BY <1>3, <2>2, <4>1
      <4>2. CASE ingested >= r.upto
        BY <1>3, <2>2, <2>3, <4>2
      <4> QED
        BY <1>3, <4>1, <4>2
    <3> QED
      BY <3>1 DEF Max
  <2> HIDE DEF top, events, state
  <2>5. top \in Nat /\ events \in SUBSET Nat
    BY <1>3, <2>2, <2>4
  <2>6. subs' = [subs EXCEPT ![s] = [r EXCEPT !.state = state, !.upto = top]]
    BY <1>2, <1>4, <1>0 DEF SubInv, SubTypeOK, top, events, state
  <2>7. [r EXCEPT !.state = state, !.upto = top] \in Subscription
    BY <1>0, <1>1, <2>5 DEF Subscription
  <2>8. outbox' = [outbox EXCEPT ![s] = outbox[s] \cup events]
    BY <1>2, <1>4 DEF SubInv, SubTypeOK, events, state
  <2> HIDE DEF served
  <2> DEFINE new == [r EXCEPT !.state = state, !.upto = top]
  <2>a. /\ new \in Subscription /\ subs' = [subs EXCEPT ![s] = new]
        /\ new.cursor = r.cursor /\ new.upto = top /\ new.snapshot = r.snapshot
    BY <1>0, <2>6, <2>7 DEF Subscription
  <2>b. UNCHANGED <<ingested, floor, tombs, seen>>
    BY <1>2
  <2> HIDE DEF new
  <2>9. SubTypeOK'
    BY <2>5, <2>8, <2>a, <2>b DEF SubInv, SubTypeOK
  <2>10. ASSUME NEW u \in Subscribers PROVE PendingInv(u)' /\ EarnedInv(u)'
    <3>1. CASE u = s
      <4>1. /\ subs'[s].cursor = r.cursor /\ subs'[s].upto = top /\ subs'[s].snapshot = r.snapshot
            /\ outbox'[s] = outbox[s] \cup events /\ seen'[s] = seen[s]
        BY <2>8, <2>a, <2>b DEF SubInv, SubTypeOK
      <4>2. (r.cursor + 1)..r.upto \subseteq outbox[s] \cup seen[s]
        BY <1>0 DEF SubInv, PendingInv
      <4>3. (r.cursor + 1)..top \subseteq outbox[s] \cup events \cup seen[s]
        <5>1. CASE top = r.upto
          BY <4>2, <5>1
        <5>2. CASE top \in events
          BY <1>3, <2>2, <5>2
        <5> QED
          BY <2>4, <5>1, <5>2
      <4> QED
        BY <1>0, <2>b, <3>1, <4>1, <4>3 DEF SubInv, PendingInv, EarnedInv
    <3>2. CASE u # s
      BY <2>8, <2>a, <2>b, <3>2, SameSubscriber DEF SubInv, SubTypeOK
    <3> QED
      BY <3>1, <3>2
  <2> QED
    BY <2>9, <2>10 DEF SubInv
<1>5. CASE ~served
  <2> HIDE DEF state, served
  <2>1. subs' = [subs EXCEPT ![s] = [r EXCEPT !.state = state]]
    BY <1>0, <1>2, <1>5 DEF SubInv, SubTypeOK, Subscription
  <2>2. outbox' = outbox
    BY <1>2, <1>5 DEF SubInv, SubTypeOK
  <2>3. [r EXCEPT !.state = state] \in Subscription
    BY <1>0, <1>1 DEF Subscription
  <2> QED
    BY <1>0, <1>2, <2>1, <2>2, <2>3, StateKeeps DEF Subscription
<1> QED
  BY <1>4, <1>5

(* ack: the cursor moves on over what is acknowledged only.                *)
LEMMA AckKeeps ==
    ASSUME SubInv, NEW s \in Subscribers, NEW n \in Nat, AckDelivered(s, n)
    PROVE  SubInv'
<1> DEFINE r == subs[s]
           box == outbox[s] \ {n}
           to == Advanced(r, box)
<1>0. r \in Subscription /\ r # NoSubscription /\ s \notin tombs
  BY DEF AckDelivered, Known, SubInv, SubTypeOK
<1>1. box \in SUBSET Nat
  BY DEF SubInv, SubTypeOK
<1>2. /\ to \in Nat /\ to >= r.cursor /\ (to > r.cursor => to <= r.upto)
      /\ \A m \in (r.cursor + 1)..to : m \notin box
  BY <1>0, <1>1, AdvancedPasses
<1>3. /\ outbox' = [outbox EXCEPT ![s] = box]
      /\ outbox'[s] = box
      /\ seen' = [seen EXCEPT ![s] = seen[s] \cup {n}]
      /\ UNCHANGED <<ingested, floor, tombs>>
  BY DEF AckDelivered, SubInv, SubTypeOK
<1>4. subs' = [subs EXCEPT ![s] = [r EXCEPT !.cursor = to]]
  BY <1>3 DEF AckDelivered, SubInv, SubTypeOK
<1> HIDE DEF to
<1>5. [r EXCEPT !.cursor = to] \in Subscription
  BY <1>0, <1>2 DEF Subscription
<1>6. SubTypeOK'
  BY <1>1, <1>3, <1>4, <1>5 DEF SubInv, SubTypeOK
<1>7. ASSUME NEW u \in Subscribers PROVE PendingInv(u)' /\ EarnedInv(u)'
  <2>1. CASE u = s
    <3>1. /\ subs'[s].cursor = to /\ subs'[s].upto = r.upto /\ subs'[s].snapshot = r.snapshot
          /\ seen'[s] = seen[s] \cup {n}
      BY <1>0, <1>3, <1>4 DEF SubInv, SubTypeOK, Subscription
    <3>2. r.cursor \in Nat /\ r.upto \in Nat /\ r.snapshot \in Nat
      BY <1>0 DEF Subscription
    <3>3. (r.cursor + 1)..r.upto \subseteq outbox[s] \cup seen[s]
      BY <1>0 DEF SubInv, PendingInv
    <3>4. (r.cursor + 1)..to \subseteq seen[s] \cup {n}
      BY <1>2, <3>2, <3>3
    <3>5. (r.snapshot + 1)..r.cursor \subseteq seen[s]
      BY <1>0 DEF SubInv, EarnedInv
    <3>6. (r.snapshot + 1)..to \subseteq seen[s] \cup {n}
      BY <1>2, <3>2, <3>4, <3>5
    <3>7. (to + 1)..r.upto \subseteq box \cup (seen[s] \cup {n})
      BY <1>2, <3>2, <3>3
    <3> QED
      BY <1>3, <2>1, <3>1, <3>6, <3>7 DEF PendingInv, EarnedInv
  <2>2. CASE u # s
    BY <1>3, <1>4, <2>2, SameSubscriber DEF SubInv, SubTypeOK
  <2> QED
    BY <2>1, <2>2
<1> QED
  BY <1>6, <1>7 DEF SubInv

(* detach: what was earned stays, what was pending no longer matters.      *)
LEMMA DetachKeeps ==
    ASSUME SubInv, NEW s \in Subscribers, DetachSubscriber(s)
    PROVE  SubInv'
<1>0. subs[s] \in Subscription
  BY DEF DetachSubscriber, SubInv, SubTypeOK
<1>1. subs' = [subs EXCEPT ![s] = [subs[s] EXCEPT !.state = "detached"]]
  BY <1>0 DEF DetachSubscriber, SubInv, SubTypeOK
<1>2. [subs[s] EXCEPT !.state = "detached"] \in Subscription
  BY <1>0 DEF Subscription
<1>3. SubTypeOK'
  BY <1>1, <1>2 DEF DetachSubscriber, SubInv, SubTypeOK
<1>4. ASSUME NEW u \in Subscribers PROVE PendingInv(u)' /\ EarnedInv(u)'
  <2>1. CASE u = s
    BY <1>0, <1>1, <2>1, SubscriptionIsKnown
       DEF DetachSubscriber, SubInv, SubTypeOK, PendingInv, EarnedInv, Subscription
  <2>2. CASE u # s
    BY <1>1, <2>2, SameSubscriber DEF DetachSubscriber, SubInv, SubTypeOK
  <2> QED
    BY <2>1, <2>2
<1> QED
  BY <1>3, <1>4 DEF SubInv

LEMMA SubNextInv == SubInv /\ [SubNext]_subVars => SubInv'
<1> SUFFICES ASSUME SubInv, [SubNext]_subVars PROVE SubInv'
  OBVIOUS
<1>0. SampledTime \subseteq Nat /\ ingested \in Nat /\ floor \in Nat
  BY DEF SampledTime, SubInv, SubTypeOK
<1>1. ASSUME NEW s \in Subscribers, DetachSubscriber(s) PROVE SubInv'
  BY <1>1, DetachKeeps
<1>2. ASSUME NEW s \in Subscribers, NEW n \in 1..MaxIngested, AckDelivered(s, n) PROVE SubInv'
  BY <1>2, AckKeeps
<1>3. ASSUME NEW s \in Subscribers, NEW at \in SampledTime, NEW n \in 0..ingested,
             SubscribeFrom(s, n, at)
      PROVE  SubInv'
  BY <1>0, <1>3, SubscribeKeeps
<1>4. ASSUME NEW s \in Subscribers, NEW at \in SampledTime, NEW n \in 1..MaxBeats,
             HeartbeatOf(s, n, at)
      PROVE  SubInv'
  <2> DEFINE state == Derived(subs[s], at)
             r == IF state \in {"observing", "reconnecting"} /\ n > subs[s].beatSeq
                  THEN [subs[s] EXCEPT !.state = "observing", !.beat = at, !.beatSeq = n]
                  ELSE [subs[s] EXCEPT !.state = state]
  <2>0. subs[s] \in Subscription /\ at \in Nat /\ n \in Nat
    BY <1>0, <1>4, SubscriptionAssumption DEF HeartbeatOf, Known, SubInv, SubTypeOK
  <2>1. state \in {"observing", "reconnecting", "stale", "detached"}
    BY <2>0, DerivedType
  <2>2. subs' = [subs EXCEPT ![s] = r] /\ UNCHANGED <<ingested, floor, outbox, tombs, seen>>
    BY <1>4, <2>0 DEF HeartbeatOf, SubInv, SubTypeOK
  <2> HIDE DEF state
  <2>3. /\ r \in Subscription
        /\ r.cursor = subs[s].cursor /\ r.upto = subs[s].upto /\ r.snapshot = subs[s].snapshot
    <3>1. CASE state \in {"observing", "reconnecting"} /\ n > subs[s].beatSeq
      BY <2>0, <3>1 DEF Subscription
    <3>2. CASE ~(state \in {"observing", "reconnecting"} /\ n > subs[s].beatSeq)
      BY <2>0, <2>1, <3>2 DEF Subscription
    <3> QED
      BY <3>1, <3>2
  <2> QED
    BY <1>4, <2>2, <2>3, StateKeeps DEF HeartbeatOf, Known
<1>5. ASSUME NEW s \in Subscribers, NEW at \in SampledTime, EvaluateState(s, at) PROVE SubInv'
  <2> DEFINE r == [subs[s] EXCEPT !.state = Derived(subs[s], at)]
  <2>0. subs[s] \in Subscription /\ at \in Nat
    BY <1>0, <1>5 DEF EvaluateState, SubInv, SubTypeOK
  <2>1. /\ r \in Subscription
        /\ r.cursor = subs[s].cursor /\ r.upto = subs[s].upto /\ r.snapshot = subs[s].snapshot
    BY <2>0, DerivedType DEF Subscription
  <2>2. subs' = [subs EXCEPT ![s] = r] /\ UNCHANGED <<ingested, floor, outbox, tombs, seen>>
    BY <1>5, <2>0 DEF EvaluateState, SubInv, SubTypeOK
  <2> QED
    BY <1>5, <2>1, <2>2, StateKeeps DEF EvaluateState
<1>6. ASSUME NEW s \in Subscribers, NEW at \in SampledTime, Read(s, at) PROVE SubInv'
  BY <1>0, <1>6, ReadKeeps
<1>7. CASE AppendNext
  BY <1>7 DEF AppendNext, SubInv, SubTypeOK, PendingInv, EarnedInv
<1>8. ASSUME NEW n \in 1..MaxIngested, Prune(n) PROVE SubInv'
  <2>1. Max({floor, n}) \in Nat
    BY <1>0 DEF Max
  <2> QED
    BY <1>8, <2>1 DEF Prune, SubInv, SubTypeOK, PendingInv, EarnedInv
<1>9. CASE TimeTick \/ UNCHANGED subVars
  BY <1>9 DEF TimeTick, subVars, SubInv, SubTypeOK, PendingInv, EarnedInv
<1> QED
  BY <1>1, <1>2, <1>3, <1>4, <1>5, <1>6, <1>7, <1>8, <1>9 DEF SubNext

(* Whatever a cursor has passed since its snapshot was delivered to that   *)
(* subscriber and acknowledged by it.                                      *)
THEOREM NoSilentGap == SubSpec => []CursorIsEarned
<1>1. SubInv => CursorIsEarned
  BY DEF SubInv, EarnedInv, CursorIsEarned
<1> QED
  BY <1>1, SubInitInv, SubNextInv, PTL DEF SubSpec

-----------------------------------------------------------------------------
(* The bridge and its journal.                                             *)

EventTypes == {"registered", "heartbeat", "detached", "ended"}
SessionStatuses == {"unknown", "observing", "detached", "ended"}
EventRec == [epoch : Nat \ {0}, seq : Nat \ {0}, type : EventTypes]
SnapRec == [epoch : Nat \ {0}, seq : Nat \ {0}, status : SessionStatuses]
SessionRec == [epoch : Nat, log : Seq(EventTypes), status : SessionStatuses, seen : Nat]
CursorRec == [last : Nat, at : Nat]
StreamRec == [kind : {"stream"}, snap : SnapRec, events : Seq(EventRec), expected : Nat,
              cursor : CursorRec]
TerminalRec == [kind : {"terminal"}, event : EventRec]
AttachedRec == [kind : {"attached"}]

BridgeTypeOK ==
    /\ now \in Nat /\ epochs \in Nat
    /\ gw \in SessionRec
    /\ reply \in [Observers -> {Idle} \cup AttachedRec \cup StreamRec \cup TerminalRec]
    /\ jr \in [row : {NoRow} \cup SnapRec, events : SUBSET EventRec, acked : SUBSET EventRec,
               cursor : CursorRec]
    /\ IsFiniteSet(jr.events)
    /\ lost \in BOOLEAN /\ skipped \in BOOLEAN

(* The last event that an observer was told of; the one that revokes the   *)
(* session comes after it.                                                 *)
Target == IF Revoked THEN Len(gw.log) - 1 ELSE Len(gw.log)

(* The gateway numbers its streams; the one it has is the latest.          *)
SessionInv ==
    \/ gw = NoSession
    \/ gw.epoch = epochs /\ epochs > 0 /\ Target >= 1 /\ Len(gw.log) <= MaxSeq + 1

(* An event is as the gateway appended it, if the gateway still has its    *)
(* stream.                                                                 *)
Genuine(e) ==
    e.epoch = gw.epoch => e.seq <= Len(gw.log) /\ gw.log[e.seq] = e.type

Seqs == {e.seq : e \in jr.events}

(* What an answer in flight says of a live session.                        *)
StreamInv(r) ==
    /\ r.snap.epoch <= epochs
    /\ r.snap.status \notin TerminalStatuses
    /\ r.snap.epoch = gw.epoch => r.snap.seq <= Target
    /\ \A i \in DOMAIN r.events :
          /\ r.events[i].epoch = r.snap.epoch /\ r.events[i].seq <= r.snap.seq
          /\ Genuine(r.events[i])
    /\ r.cursor # NoCursor /\ ~skipped => 1..r.expected \subseteq Seqs

TerminalInv(r) ==
    /\ r.event.epoch <= epochs /\ Genuine(r.event)
    /\ r.event.epoch = gw.epoch => r.event.seq = Len(gw.log) /\ gw.status = "detached"

ReplyInv(r) ==
    /\ r.kind = "stream" => StreamInv(r)
    /\ r.kind = "terminal" => TerminalInv(r)

(* The journal follows one stream, of which it has genuine events.         *)
JournalInv ==
    /\ jr.row.epoch <= epochs
    /\ jr.row = NoRow => jr.events = {} /\ jr.cursor = NoCursor
    /\ \A e \in jr.events : e.epoch = jr.row.epoch /\ Genuine(e)
    /\ ~skipped => 1..jr.cursor.last \subseteq Seqs

(* It follows the stream the gateway has, and has the event that ended it. *)
Current == jr.row # NoRow /\ jr.row.epoch = gw.epoch
Recorded == gw.status = "detached" /\ Event(gw, Len(gw.log)) \in jr.events

(* Until that event is there the journal knows of nothing beyond Target,   *)
(* and of Target itself, unless the answer that says so is in flight or    *)
(* was lost.                                                               *)
Behind ==
    /\ jr.row.status \notin TerminalStatuses
    /\ jr.row.seq <= Target /\ jr.cursor.last <= Target
    /\ \A e \in jr.events : e.seq <= Target

InFlight(r) ==
    /\ r.kind = "stream" /\ r.cursor = NoCursor /\ ValidStream(r)
    /\ r.snap.epoch = gw.epoch /\ r.snap.seq = Target

ProgressInv ==
    /\ jr.row = NoRow /\ gw # NoSession => Target = 1
    /\ Current => Recorded \/ Behind
    /\ Current /\ ~lost => \/ Recorded \/ jr.row.seq >= Target
                           \/ \E o \in Observers : InFlight(reply[o])

BridgeInv ==
    /\ BridgeTypeOK /\ SessionInv /\ JournalInv /\ ProgressInv
    /\ \A o \in Observers : ReplyInv(reply[o])

LEMMA BridgeInitInv == Init => BridgeInv
<1> SUFFICES ASSUME Init PROVE BridgeInv
  OBVIOUS
<1>1. BridgeTypeOK
  <2>1. gw \in SessionRec
    BY EmptySeq DEF Init, NoSession, SessionRec, SessionStatuses
  <2>2. jr \in [row : {NoRow} \cup SnapRec, events : SUBSET EventRec, acked : SUBSET EventRec,
               cursor : CursorRec] /\ jr.events = {}
    BY DEF Init, NoCursor, CursorRec
  <2> QED
    BY <2>1, <2>2, FS_EmptySet DEF Init, BridgeTypeOK
<1>2. SessionInv /\ ProgressInv
  BY DEF Init, SessionInv, ProgressInv, Current
<1>3. JournalInv
  BY DEF Init, JournalInv, NoRow, NoCursor, Seqs
<1>4. \A o \in Observers : ReplyInv(reply[o])
  BY DEF Init, ReplyInv, Idle
<1> QED
  BY <1>1, <1>2, <1>3, <1>4 DEF BridgeInv

LEMMA MaxIs ==
    ASSUME NEW S, NEW k \in Nat, k \in S, \A n \in S : n \in Nat /\ n <= k
    PROVE  Max(S) = k
<1>1. PICK m \in S : m = Max(S) /\ m >= k
  BY DEF Max
<1>2. m \in Nat /\ m <= k
  OBVIOUS
<1> QED
  BY <1>1, <1>2

LEMMA PositivePredecessor ==
    ASSUME NEW n \in Nat, NEW k, k = n - 1, k >= 1
    PROVE  k \in Nat \ {0} /\ n >= 1
  OBVIOUS

(* The session while it can be observed.                                   *)
LEMMA LiveSession ==
    ASSUME BridgeInv, gw # NoSession
    PROVE  /\ gw.epoch = epochs /\ epochs \in Nat \ {0} /\ Len(gw.log) \in Nat
           /\ Len(gw.log) >= 1 /\ Len(gw.log) <= MaxSeq + 1 /\ Target \in Nat \ {0}
           /\ ~Revoked => Target = Len(gw.log)
           /\ Revoked => Target = Len(gw.log) - 1
           /\ \A n \in 1..Len(gw.log) : gw.log[n] \in EventTypes /\ Event(gw, n) \in EventRec
<1>0. gw \in SessionRec
  BY DEF BridgeInv, BridgeTypeOK
<1>1. gw.log \in Seq(EventTypes) /\ Len(gw.log) \in Nat
  BY <1>0 DEF SessionRec
<1>2. /\ gw.epoch = epochs /\ epochs \in Nat \ {0} /\ Target >= 1 /\ Len(gw.log) <= MaxSeq + 1
  BY DEF BridgeInv, BridgeTypeOK, SessionInv
<1>3. Target \in Nat \ {0} /\ Len(gw.log) >= 1
  <2>0. Len(gw.log) \in Nat
    BY <1>1
  <2>1. CASE Revoked
    <3>1. Target = Len(gw.log) - 1
      BY <2>1 DEF Target
    <3>2. Target >= 1
      BY <1>2
    <3> HIDE DEF Target
    <3> QED
      BY <2>0, <3>1, <3>2, PositivePredecessor
  <2>2. CASE ~Revoked
    BY <1>2, <2>0, <2>2 DEF Target
  <2> QED
    BY <2>1, <2>2
<1>4. \A n \in 1..Len(gw.log) : gw.log[n] \in EventTypes
  BY <1>1
<1>5. \A n \in 1..Len(gw.log) : Event(gw, n) \in EventRec
  BY <1>1, <1>2, <1>4 DEF Event, EventRec
<1> QED
  BY <1>1, <1>2, <1>3, <1>4, <1>5 DEF Target

(* What the gateway has after a sequence that is not its last.             *)
LEMMA EventsAfterProps ==
    ASSUME BridgeInv, gw # NoSession, NEW after \in 0..(Len(gw.log) - 1), NEW limit \in Nat \ {0}
    PROVE  LET events == EventsAfter(gw, after, limit)
           IN  /\ events \in Seq(EventRec) /\ Len(events) \in Nat \ {0}
               /\ \A i \in 1..Len(events) : \E n \in 1..Len(gw.log) : events[i] = Event(gw, n)
<1> DEFINE first == Max({after, Floor(gw)}) + 1
           last == Min({Len(gw.log), first + limit - 1})
           m == IF last < first THEN 0 ELSE last - first + 1
           events == EventsAfter(gw, after, limit)
<1>1. Len(gw.log) \in Nat /\ Len(gw.log) >= 1
  BY LiveSession
<1>2. Floor(gw) \in 0..(Len(gw.log) - 1)
  BY <1>1, BridgeAssumption DEF Floor
<1>3. first \in 1..Len(gw.log)
  BY <1>1, <1>2 DEF Max
<1> HIDE DEF first
<1>4. last \in first..Len(gw.log)
  BY <1>1, <1>3 DEF Min
<1> HIDE DEF last
<1>5. m \in Nat \ {0} /\ first + m - 1 <= Len(gw.log)
  BY <1>1, <1>3, <1>4
<1>6. events = [i \in 1..m |-> Event(gw, first + i - 1)]
  BY DEF EventsAfter, first, last
<1> HIDE DEF m, events
<1>7. \A i \in 1..m : first + i - 1 \in 1..Len(gw.log)
  BY <1>1, <1>3, <1>5
<1>8. \A i \in 1..m : Event(gw, first + i - 1) \in EventRec
  BY <1>7, LiveSession
<1>9. events \in Seq(EventRec) /\ Len(events) = m
  BY <1>5, <1>6, <1>8
<1> QED
  BY <1>5, <1>6, <1>7, <1>9 DEF events

(* A step that only gives one bridge another answer.                       *)
LEMMA ReplyKeeps ==
    ASSUME BridgeInv, NEW o \in Observers,
           NEW r \in {Idle} \cup AttachedRec \cup StreamRec \cup TerminalRec,
           reply' = [reply EXCEPT ![o] = r], ReplyInv(reply[o])',
           UNCHANGED <<now, epochs, gw, jr>>,
           lost' \in BOOLEAN, skipped' \in BOOLEAN, lost => lost', skipped => skipped',
           InFlight(reply[o]) /\ Current => lost'
    PROVE  BridgeInv'
<1>1. BridgeTypeOK'
  BY DEF BridgeInv, BridgeTypeOK
<1>2. SessionInv' /\ JournalInv'
  BY DEF BridgeInv, SessionInv, JournalInv, Target, Revoked, Genuine, Seqs
<1>3. ASSUME NEW u \in Observers PROVE ReplyInv(reply[u])'
  <2>1. CASE u = o
    BY <2>1
  <2>2. CASE u # o
    <3>1. reply'[u] = reply[u]
      BY <2>2 DEF BridgeInv, BridgeTypeOK
    <3> QED
      BY <3>1 DEF BridgeInv, ReplyInv, StreamInv, TerminalInv, Target, Revoked, Genuine, Seqs
  <2> QED
    BY <2>1, <2>2
<1>4. ProgressInv'
  <2>1. Current' = Current /\ Recorded' = Recorded /\ Behind' = Behind /\ Target' = Target
    BY DEF Current, Recorded, Behind, Target, Revoked, Event
  <2>2. ASSUME NEW u \in Observers, InFlight(reply[u]), Current, ~lost' PROVE InFlight(reply[u])'
    <3>1. reply'[u] = reply[u]
      BY <2>2 DEF BridgeInv, BridgeTypeOK
    <3> QED
      BY <2>1, <2>2, <3>1 DEF InFlight, ValidStream
  <2> QED
    BY <2>1, <2>2 DEF BridgeInv, ProgressInv
<1> QED
  BY <1>1, <1>2, <1>3, <1>4 DEF BridgeInv

(* The gateway has another stream, or none: nothing in flight and nothing  *)
(* in the journal is about it.                                             *)
LEMMA NewEpochKeeps ==
    ASSUME BridgeInv, gw' \in SessionRec, epochs' \in Nat, epochs' >= epochs,
           gw'.epoch = 0 \/ gw'.epoch > epochs,
           SessionInv', gw' # NoSession => Target' = 1,
           reply' \in [Observers -> {Idle} \cup AttachedRec \cup StreamRec \cup TerminalRec],
           \A o \in Observers : reply'[o] = reply[o] \/ reply'[o].kind = "attached",
           UNCHANGED <<now, jr, lost, skipped>>
    PROVE  BridgeInv'
<1>1. BridgeTypeOK'
  BY DEF BridgeInv, BridgeTypeOK
<1>2. ASSUME NEW n \in Nat \ {0}, n <= epochs PROVE n # gw'.epoch
  BY <1>2 DEF BridgeInv, BridgeTypeOK, SessionRec
<1>3. JournalInv'
  <2>1. ASSUME NEW e \in jr.events PROVE e.epoch # gw'.epoch
    <3>1. e \in EventRec /\ e.epoch = jr.row.epoch /\ jr.row.epoch <= epochs
      BY DEF BridgeInv, BridgeTypeOK, JournalInv
    <3> QED
      BY <1>2, <3>1 DEF EventRec
  <2>2. jr'.row.epoch <= epochs'
    <3>1. jr.row \in {NoRow} \cup SnapRec /\ jr.row.epoch <= epochs /\ epochs \in Nat
      BY DEF BridgeInv, BridgeTypeOK, JournalInv
    <3> QED
      BY <3>1 DEF SnapRec, NoRow
  <2> QED
    BY <2>1, <2>2 DEF BridgeInv, JournalInv, Genuine, Seqs
<1>4. ~Current'
  <2>1. jr.row \in {NoRow} \cup SnapRec /\ jr.row.epoch <= epochs
    BY DEF BridgeInv, BridgeTypeOK, JournalInv
  <2> QED
    BY <1>2, <2>1 DEF Current, SnapRec
<1>5. ProgressInv'
  BY <1>4 DEF ProgressInv
<1>6. ASSUME NEW o \in Observers PROVE ReplyInv(reply[o])'
  <2>1. CASE reply'[o].kind = "attached"
    BY <2>1 DEF ReplyInv
  <2>2. CASE reply[o].kind = "stream" /\ reply'[o] = reply[o]
    <3> DEFINE r == reply[o]
    <3>1. r \in StreamRec
      BY <2>2 DEF BridgeInv, BridgeTypeOK, Idle, AttachedRec, TerminalRec
    <3>2. StreamInv(r)
      BY <2>2 DEF BridgeInv, ReplyInv
    <3>3. r.snap.epoch \in Nat \ {0} /\ r.snap.epoch <= epochs /\ epochs \in Nat
      BY <3>1, <3>2 DEF StreamRec, SnapRec, StreamInv, BridgeInv, BridgeTypeOK
    <3>4. r.snap.epoch # gw'.epoch /\ r.snap.epoch <= epochs'
      BY <1>2, <3>3
    <3>5. \A i \in DOMAIN r.events : r.events[i].epoch # gw'.epoch
      BY <3>2, <3>4 DEF StreamInv
    <3> QED
      BY <2>2, <3>2, <3>4, <3>5 DEF ReplyInv, StreamInv, Genuine, Seqs
  <2>3. CASE reply[o].kind = "terminal" /\ reply'[o] = reply[o]
    <3> DEFINE r == reply[o]
    <3>1. r \in TerminalRec
      BY <2>3 DEF BridgeInv, BridgeTypeOK, Idle, AttachedRec, StreamRec
    <3>2. TerminalInv(r)
      BY <2>3 DEF BridgeInv, ReplyInv
    <3>3. r.event.epoch \in Nat \ {0} /\ r.event.epoch <= epochs /\ epochs \in Nat
      BY <3>1, <3>2 DEF TerminalRec, EventRec, TerminalInv, BridgeInv, BridgeTypeOK
    <3>4. r.event.epoch # gw'.epoch /\ r.event.epoch <= epochs'
      BY <1>2, <3>3
    <3> QED
      BY <2>3, <3>2, <3>4 DEF ReplyInv, TerminalInv, Genuine
  <2>4. CASE reply[o].kind \notin {"stream", "terminal"} /\ reply'[o] = reply[o]
    BY <2>4 DEF ReplyInv
  <2> QED
    BY <2>1, <2>2, <2>3, <2>4
<1> QED
  BY <1>1, <1>3, <1>5, <1>6 DEF BridgeInv

LEMMA BridgeConsumeKeeps ==
    ASSUME BridgeInv, NEW o \in Observers, NEW t \in Tickets, Consume(o, t)
    PROVE  BridgeInv'
<1>0. PICK r \in AttachedRec : r = [kind |-> "attached"]
  BY DEF AttachedRec
<1>1. reply' = [reply EXCEPT ![o] = r] /\ UNCHANGED <<now, jr, lost, skipped>> /\ reply[o] = Idle
  BY <1>0 DEF Consume, Reachable
<1>2. reply'[o] = r /\ r.kind = "attached"
  BY <1>0, <1>1 DEF AttachedRec, BridgeInv, BridgeTypeOK
<1>3. CASE gw # NoSession
  <2>1. ReplyInv(reply[o])' /\ ~InFlight(reply[o])
    BY <1>1, <1>2 DEF ReplyInv, InFlight, Idle
  <2>2. lost' \in BOOLEAN /\ skipped' \in BOOLEAN /\ UNCHANGED <<epochs, gw>>
    BY <1>1, <1>3 DEF Consume, BridgeInv, BridgeTypeOK
  <2> QED
    BY <1>1, <1>2, <2>1, <2>2, ReplyKeeps
<1>4. CASE gw = NoSession
  <2>1. /\ epochs' = epochs + 1
        /\ gw' = [epoch |-> epochs + 1, log |-> <<"registered">>, status |-> "observing",
                  seen |-> now]
        /\ epochs \in Nat /\ now \in Nat
    BY <1>4 DEF Consume, BridgeInv, BridgeTypeOK
  <2>2. gw' \in SessionRec
    BY <2>1 DEF SessionRec, SessionStatuses, EventTypes
  <2>3. gw'.epoch = epochs + 1 /\ Len(gw'.log) = 1 /\ ~Revoked' /\ Target' = 1
    BY <2>1 DEF Revoked, TerminalStatuses, Target
  <2>4. SessionInv'
    BY <2>1, <2>3, BridgeAssumption DEF SessionInv
  <2>5. reply' \in [Observers -> {Idle} \cup AttachedRec \cup StreamRec \cup TerminalRec]
    BY <1>1, <1>2 DEF BridgeInv, BridgeTypeOK
  <2>6. \A u \in Observers : reply'[u] = reply[u] \/ reply'[u].kind = "attached"
    BY <1>1, <1>2 DEF BridgeInv, BridgeTypeOK
  <2> QED
    BY <1>1, <2>1, <2>2, <2>3, <2>4, <2>5, <2>6, NewEpochKeeps
<1> QED
  BY <1>3, <1>4

LEMMA BridgeResetKeeps == ASSUME BridgeInv, Reset PROVE BridgeInv'
<1>1. gw' = NoSession /\ UNCHANGED <<now, epochs, reply, jr, lost, skipped>>
  BY DEF Reset
<1>2. gw' \in SessionRec /\ gw'.epoch = 0
  BY <1>1, EmptySeq DEF NoSession, SessionRec, SessionStatuses
<1>3. epochs' \in Nat /\ epochs' >= epochs /\ SessionInv'
  BY <1>1 DEF SessionInv, BridgeInv, BridgeTypeOK
<1>4. reply' \in [Observers -> {Idle} \cup AttachedRec \cup StreamRec \cup TerminalRec]
  BY <1>1 DEF BridgeInv, BridgeTypeOK
<1> QED
  BY <1>1, <1>2, <1>3, <1>4, NewEpochKeeps

(* The gateway appends an event to a live session.  Events that are known  *)
(* stay genuine and no answer can be about its end yet.                    *)
LEMMA AppendKeeps ==
    ASSUME BridgeInv, gw # NoSession, ~Revoked, NEW type \in EventTypes, Len(gw.log) <= MaxSeq,
           gw' \in SessionRec, gw'.epoch = gw.epoch, gw'.log = Append(gw.log, type),
           Target' \in {Target, Target + 1}, Target' <= Len(gw'.log),
           reply' \in [Observers -> {Idle} \cup AttachedRec \cup StreamRec \cup TerminalRec],
           \A o \in Observers :
               reply'[o] = reply[o] \/ (reply[o] = Idle /\ ReplyInv(reply[o])'),
           \/ Target' = Target
           \/ jr.row # NoRow /\ \E o \in Observers : InFlight(reply[o])',
           UNCHANGED <<now, epochs, jr, lost, skipped>>
    PROVE  BridgeInv'
<1>1. BridgeTypeOK'
  BY DEF BridgeInv, BridgeTypeOK
<1>2. /\ gw.epoch = epochs /\ epochs \in Nat \ {0} /\ Len(gw.log) \in Nat
      /\ Target \in Nat \ {0} /\ Target = Len(gw.log)
  BY LiveSession
<1>3. gw.log \in Seq(EventTypes) /\ Len(gw'.log) = Len(gw.log) + 1
  <2>1. gw \in SessionRec
    BY DEF BridgeInv, BridgeTypeOK
  <2> QED
    BY <2>1 DEF SessionRec
<1>4. SessionInv'
  BY <1>2, <1>3, BridgeAssumption DEF SessionInv
<1>5. \A n \in 1..Len(gw.log) : gw'.log[n] = gw.log[n]
  BY <1>2, <1>3
<1>6. ASSUME NEW e \in EventRec, Genuine(e) PROVE Genuine(e)'
  <2>1. e.seq \in Nat \ {0}
    BY DEF EventRec
  <2> QED
    BY <1>2, <1>3, <1>5, <1>6, <2>1 DEF Genuine
<1>7. JournalInv'
  <2>1. jr.events \subseteq EventRec
    BY DEF BridgeInv, BridgeTypeOK
  <2> QED
    BY <1>6, <2>1 DEF BridgeInv, JournalInv, Seqs
<1>8. ~Recorded /\ gw.status # "detached"
  BY DEF Revoked, TerminalStatuses, Recorded
<1>9. ASSUME NEW o \in Observers PROVE ReplyInv(reply[o])'
  <2>1. CASE reply[o].kind = "stream" /\ reply'[o] = reply[o]
    <3> DEFINE r == reply[o]
    <3>1. r \in StreamRec
      BY <2>1 DEF BridgeInv, BridgeTypeOK, Idle, AttachedRec, TerminalRec
    <3>2. StreamInv(r)
      BY <2>1 DEF BridgeInv, ReplyInv
    <3>3. \A i \in DOMAIN r.events : r.events[i] \in EventRec
      BY <3>1 DEF StreamRec
    <3>4. \A i \in DOMAIN r.events : Genuine(r.events[i])'
      <4>1. SUFFICES ASSUME NEW i \in DOMAIN r.events PROVE Genuine(r.events[i])'
        BY <2>1
      <4>2. Genuine(r.events[i])
        BY <3>2 DEF StreamInv
      <4> QED
        BY <1>6, <2>1, <3>3, <4>2 DEF Genuine
    <3>5. r.snap.epoch = gw'.epoch => r.snap.seq <= Target'
      <4>1. r.snap.seq \in Nat
        BY <3>1 DEF StreamRec, SnapRec
      <4> QED
        BY <1>2, <3>2, <4>1 DEF StreamInv
    <3> QED
      BY <2>1, <3>2, <3>4, <3>5 DEF ReplyInv, StreamInv, Seqs
  <2>2. CASE reply[o].kind = "terminal" /\ reply'[o] = reply[o]
    <3> DEFINE r == reply[o]
    <3>1. TerminalInv(r) /\ r.event.epoch # gw.epoch
      BY <1>8, <2>2 DEF BridgeInv, ReplyInv, TerminalInv
    <3> QED
      BY <2>2, <3>1 DEF ReplyInv, TerminalInv, Genuine
  <2>3. CASE reply[o].kind \notin {"stream", "terminal"} /\ reply'[o] = reply[o]
    BY <2>3 DEF ReplyInv
  <2> QED
    BY <2>1, <2>2, <2>3
<1>10. ProgressInv'
  <2>1. Current' = Current
    BY DEF Current
  <2>2. jr.row = NoRow /\ gw' # NoSession => Target' = 1
    BY DEF BridgeInv, ProgressInv
  <2>3. ASSUME Current PROVE Behind'
    <3>1. Behind
      BY <1>8, <2>3 DEF BridgeInv, ProgressInv
    <3>2. /\ jr.row.seq \in Nat /\ jr.cursor.last \in Nat
          /\ \A e \in jr.events : e.seq \in Nat
      <4>1. jr.row \in SnapRec /\ jr.cursor \in CursorRec /\ jr.events \subseteq EventRec
        BY <2>3 DEF Current, BridgeInv, BridgeTypeOK
      <4> QED
        BY <4>1 DEF SnapRec, CursorRec, EventRec
    <3>3. Target' >= Target /\ Target' \in Nat
      BY <1>2
    <3> HIDE DEF Target
    <3> QED
      BY <1>2, <3>1, <3>2, <3>3 DEF Behind
  <2>4. ASSUME Current, ~lost', Target' = Target
        PROVE  jr.row.seq >= Target' \/ \E o \in Observers : InFlight(reply[o])'
    <3>1. ASSUME NEW o \in Observers, InFlight(reply[o]) PROVE InFlight(reply[o])'
      <4>1. reply'[o] = reply[o]
        BY <3>1 DEF InFlight, Idle
      <4> QED
        BY <2>4, <3>1, <4>1 DEF InFlight, ValidStream
    <3> QED
      BY <1>8, <2>4, <3>1 DEF BridgeInv, ProgressInv
  <2> QED
    BY <2>1, <2>2, <2>3, <2>4 DEF ProgressInv
<1> QED
  BY <1>1, <1>4, <1>7, <1>9, <1>10 DEF BridgeInv

(* What the appended session looks like; seen is whatever the call sets.   *)
LEMMA AppendedSession ==
    ASSUME BridgeInv, gw # NoSession, ~Revoked, NEW type \in EventTypes,
           NEW st \in SessionStatuses, NEW at \in Nat,
           gw' = [Append1(gw, type) EXCEPT !.status = st, !.seen = at]
    PROVE  /\ gw' \in SessionRec /\ gw'.epoch = gw.epoch /\ gw'.log = Append(gw.log, type)
           /\ gw'.status = st /\ Len(gw'.log) = Len(gw.log) + 1
           /\ Event(gw', Len(gw'.log)) = [epoch |-> gw.epoch, seq |-> Len(gw.log) + 1,
                                          type |-> type]
           /\ st \in TerminalStatuses => Target' = Target
           /\ st \notin TerminalStatuses => Target' = Target + 1 /\ Target' = Len(gw'.log)
<1>1. gw \in SessionRec /\ gw.log \in Seq(EventTypes)
  <2>1. gw \in SessionRec
    BY DEF BridgeInv, BridgeTypeOK
  <2> QED
    BY <2>1 DEF SessionRec
<1>2. Len(gw.log) \in Nat /\ Target = Len(gw.log)
  BY LiveSession
<1>3. /\ gw'.epoch = gw.epoch /\ gw'.log = Append(gw.log, type) /\ gw'.status = st
      /\ gw' \in SessionRec
  <2>1. Append(gw.log, type) \in Seq(EventTypes)
    BY <1>1
  <2>2. gw' = [gw EXCEPT !.log = Append(gw.log, type), !.status = st, !.seen = at]
    BY <1>1 DEF Append1, SessionRec
  <2> HIDE DEF EventTypes, SessionStatuses
  <2> QED
    BY <1>1, <2>1, <2>2 DEF SessionRec
<1>4. Len(gw'.log) = Len(gw.log) + 1 /\ gw'.log[Len(gw.log) + 1] = type
  BY <1>1, <1>2, <1>3
<1>5. Event(gw', Len(gw'.log)) = [epoch |-> gw.epoch, seq |-> Len(gw.log) + 1, type |-> type]
  BY <1>3, <1>4 DEF Event
<1>6. st \in TerminalStatuses => Target' = Target
  BY <1>2, <1>3, <1>4 DEF Target, Revoked
<1>7. st \notin TerminalStatuses => Target' = Len(gw'.log)
  BY <1>3 DEF Target, Revoked
<1> QED
  BY <1>2, <1>3, <1>4, <1>5, <1>6, <1>7

LEMMA BridgeHeartbeatKeeps ==
    ASSUME BridgeInv, NEW o \in Observers, Heartbeat(o)
    PROVE  BridgeInv'
<1> DEFINE e == Event(gw', Len(gw'.log))
           s == Snap(gw')
           r == [kind |-> "stream", snap |-> s, events |-> <<e>>,
                 expected |-> Len(gw'.log) - 1, cursor |-> NoCursor]
<1>1. /\ gw # NoSession /\ ~Revoked /\ jr.row # NoRow /\ Len(gw.log) < MaxSeq
      /\ reply[o] = Idle /\ reply' = [reply EXCEPT ![o] = r]
      /\ UNCHANGED <<now, epochs, jr, lost, skipped>>
  BY DEF Heartbeat, Observable, Reachable, Answer
<1>2. /\ gw.epoch = epochs /\ epochs \in Nat \ {0} /\ Len(gw.log) \in Nat \ {0}
      /\ Target = Len(gw.log) /\ Target \in Nat
  BY <1>1, LiveSession
<1>3. gw \in SessionRec /\ now \in Nat
  BY DEF BridgeInv, BridgeTypeOK
<1>4. gw.status \in SessionStatuses /\ gw.status \notin TerminalStatuses
  BY <1>1, <1>3 DEF SessionRec, Revoked
<1>5. gw' = [Append1(gw, "heartbeat") EXCEPT !.status = gw.status, !.seen = now]
  BY <1>3 DEF Heartbeat, Append1, SessionRec
<1>6. "heartbeat" \in EventTypes
  BY DEF EventTypes
<1>7. /\ gw' \in SessionRec /\ gw'.epoch = gw.epoch /\ gw'.log = Append(gw.log, "heartbeat")
      /\ gw'.status = gw.status /\ Len(gw'.log) = Len(gw.log) + 1
      /\ e = [epoch |-> gw.epoch, seq |-> Len(gw.log) + 1, type |-> "heartbeat"]
      /\ Target' = Target + 1 /\ Target' = Len(gw'.log)
  BY <1>1, <1>3, <1>4, <1>5, <1>6, AppendedSession
<1>8. /\ e \in EventRec /\ e.epoch = gw'.epoch /\ e.seq = Len(gw'.log)
      /\ gw'.log[e.seq] = e.type
  <2>1. e \in EventRec /\ e.epoch = gw'.epoch /\ e.seq = Len(gw'.log)
    BY <1>2, <1>6, <1>7 DEF EventRec
  <2>2. e.type = gw'.log[Len(gw'.log)]
    BY DEF Event
  <2> QED
    BY <2>1, <2>2
<1> HIDE DEF e
<1>9. /\ s \in SnapRec /\ s.epoch = gw'.epoch /\ s.seq = Len(gw'.log)
      /\ s.status \notin TerminalStatuses
  BY <1>2, <1>4, <1>7 DEF Snap, SnapRec
<1> HIDE DEF s
<1>10. /\ r.kind = "stream" /\ r.snap = s /\ r.events = <<e>>
       /\ r.expected = Len(gw'.log) - 1 /\ r.cursor = NoCursor
  OBVIOUS
<1>11. r \in StreamRec
  <2>1. <<e>> \in Seq(EventRec) /\ Len(gw'.log) - 1 \in Nat /\ NoCursor \in CursorRec
    BY <1>2, <1>7, <1>8 DEF NoCursor, CursorRec
  <2> QED
    BY <1>9, <2>1 DEF StreamRec
<1> HIDE DEF r
<1>12. reply'[o] = r
  BY <1>1 DEF BridgeInv, BridgeTypeOK
<1>13. ReplyInv(reply[o])'
  <2>1. \A i \in DOMAIN r.events : r.events[i] = e
    BY <1>10
  <2>2. r.snap.epoch <= epochs
    BY <1>2, <1>7, <1>9, <1>10
  <2>3. r.snap.seq <= Target' /\ e.seq <= r.snap.seq /\ e.seq <= Len(gw'.log)
    BY <1>2, <1>7, <1>8, <1>9, <1>10
  <2> QED
    BY <1>1, <1>8, <1>9, <1>10, <1>12, <2>1, <2>2, <2>3 DEF ReplyInv, StreamInv, Genuine
<1>14. InFlight(reply[o])'
  <2>1. ValidStream(r)
    <3>1. r.events = <<e>> /\ Len(r.events) = 1 /\ r.events[1] = e /\ DOMAIN r.events = {1}
      BY <1>10
    <3>2. r.snap.seq >= r.expected /\ e.seq = r.expected + 1 /\ r.snap.seq >= e.seq
      BY <1>2, <1>7, <1>8, <1>9, <1>10
    <3> QED
      BY <1>10, <3>1, <3>2 DEF ValidStream
  <2> QED
    BY <1>7, <1>9, <1>10, <1>12, <2>1 DEF InFlight, ValidStream
<1>15. reply' \in [Observers -> {Idle} \cup AttachedRec \cup StreamRec \cup TerminalRec]
  BY <1>1, <1>11 DEF BridgeInv, BridgeTypeOK
<1>16. \A u \in Observers : reply'[u] = reply[u] \/ (reply[u] = Idle /\ ReplyInv(reply[u])')
  BY <1>1, <1>13 DEF BridgeInv, BridgeTypeOK
<1>17. Len(gw.log) <= MaxSeq /\ Target' \in {Target, Target + 1} /\ Target' <= Len(gw'.log)
  BY <1>1, <1>2, <1>7, BridgeAssumption
<1> QED
  BY <1>1, <1>6, <1>7, <1>14, <1>15, <1>16, <1>17, AppendKeeps

LEMMA BridgeDetachKeeps ==
    ASSUME BridgeInv, NEW o \in Observers, Detach(o)
    PROVE  BridgeInv'
<1> DEFINE e == Event(gw', Len(gw'.log))
           r == [kind |-> "terminal", event |-> e]
<1>1. /\ gw # NoSession /\ gw.status # "ended" /\ Len(gw.log) < MaxSeq + 1
      /\ reply[o] = Idle /\ reply' = [reply EXCEPT ![o] = r]
      /\ UNCHANGED <<now, epochs, jr, lost, skipped>>
  BY DEF Detach, Reachable
<1>2. gw.epoch = epochs /\ epochs \in Nat \ {0} /\ Len(gw.log) \in Nat /\ Len(gw.log) >= 1
  BY <1>1, LiveSession
<1>3. reply'[o] = r
  BY <1>1 DEF BridgeInv, BridgeTypeOK
<1>4. ASSUME e \in EventRec, gw'.epoch = gw.epoch, gw'.status = "detached",
             Len(gw'.log) \in Nat
      PROVE  r \in TerminalRec /\ ReplyInv(reply[o])'
  <2>1. e.epoch = gw'.epoch /\ e.seq = Len(gw'.log) /\ e.type = gw'.log[e.seq]
    BY DEF Event
  <2> HIDE DEF e
  <2>2. r \in TerminalRec /\ r.kind = "terminal" /\ r.event = e
    BY <1>4 DEF TerminalRec
  <2> HIDE DEF r
  <2>3. e.epoch <= epochs /\ e.seq <= Len(gw'.log)
    BY <1>2, <1>4, <2>1
  <2> QED
    BY <1>1, <1>3, <1>4, <2>1, <2>2, <2>3 DEF ReplyInv, TerminalInv, Genuine
<1>5. CASE Revoked
  <2>1. UNCHANGED gw /\ gw.status = "detached"
    BY <1>1, <1>5 DEF Detach, Revoked, TerminalStatuses
  <2>2. e \in EventRec
    BY <1>1, <1>2, <2>1, LiveSession
  <2>3. r \in TerminalRec /\ ReplyInv(reply[o])'
    BY <1>2, <1>4, <2>1, <2>2
  <2>4. lost' \in BOOLEAN /\ skipped' \in BOOLEAN /\ ~InFlight(reply[o])
    BY <1>1 DEF BridgeInv, BridgeTypeOK, InFlight, Idle
  <2> HIDE DEF r
  <2> QED
    BY <1>1, <2>1, <2>3, <2>4, ReplyKeeps
<1>6. CASE ~Revoked
  <2>1. gw \in SessionRec /\ gw.seen \in Nat
    <3>1. gw \in SessionRec
      BY DEF BridgeInv, BridgeTypeOK
    <3> QED
      BY <3>1 DEF SessionRec
  <2>2. gw' = [Append1(gw, "detached") EXCEPT !.status = "detached", !.seen = gw.seen]
    BY <1>6, <2>1 DEF Detach, Append1, SessionRec
  <2>3. "detached" \in EventTypes /\ "detached" \in SessionStatuses \cap TerminalStatuses
    BY DEF EventTypes, SessionStatuses, TerminalStatuses
  <2>4. /\ gw' \in SessionRec /\ gw'.epoch = gw.epoch /\ gw'.log = Append(gw.log, "detached")
        /\ gw'.status = "detached" /\ Len(gw'.log) = Len(gw.log) + 1
        /\ e = [epoch |-> gw.epoch, seq |-> Len(gw.log) + 1, type |-> "detached"]
        /\ Target' = Target
    BY <1>1, <1>6, <2>1, <2>2, <2>3, AppendedSession
  <2>5. e \in EventRec
    BY <1>2, <2>3, <2>4 DEF EventRec
  <2>6. r \in TerminalRec /\ ReplyInv(reply[o])'
    BY <1>2, <1>4, <2>4, <2>5
  <2> HIDE DEF r
  <2>7. reply' \in [Observers -> {Idle} \cup AttachedRec \cup StreamRec \cup TerminalRec]
    BY <1>1, <2>6 DEF BridgeInv, BridgeTypeOK
  <2>8. \A u \in Observers : reply'[u] = reply[u] \/ (reply[u] = Idle /\ ReplyInv(reply[u])')
    BY <1>1, <2>6 DEF BridgeInv, BridgeTypeOK
  <2>9. Len(gw.log) <= MaxSeq /\ Target' \in {Target, Target + 1} /\ Target' <= Len(gw'.log)
    <3>1. Target = Len(gw.log)
      BY <1>1, <1>6, LiveSession
    <3> QED
      BY <1>1, <1>2, <2>4, <3>1, BridgeAssumption
  <2> QED
    BY <1>1, <1>6, <2>3, <2>4, <2>7, <2>8, <2>9, AppendKeeps
<1> QED
  BY <1>5, <1>6

LEMMA BridgeExpireKeeps == ASSUME BridgeInv, ExpireStale PROVE BridgeInv'
<1>1. /\ gw # NoSession /\ ~Revoked /\ Len(gw.log) < MaxSeq
      /\ UNCHANGED <<now, epochs, reply, jr, lost, skipped>>
  BY DEF ExpireStale
<1>2. Len(gw.log) \in Nat /\ Target = Len(gw.log)
  BY <1>1, LiveSession
<1>3. gw \in SessionRec /\ gw.seen \in Nat
  <2>1. gw \in SessionRec
    BY DEF BridgeInv, BridgeTypeOK
  <2> QED
    BY <2>1 DEF SessionRec
<1>4. gw' = [Append1(gw, "ended") EXCEPT !.status = "ended", !.seen = gw.seen]
  BY <1>3 DEF ExpireStale, Append1, SessionRec
<1>5. "ended" \in EventTypes /\ "ended" \in SessionStatuses \cap TerminalStatuses
  BY DEF EventTypes, SessionStatuses, TerminalStatuses
<1>6. /\ gw' \in SessionRec /\ gw'.epoch = gw.epoch /\ gw'.log = Append(gw.log, "ended")
      /\ Len(gw'.log) = Len(gw.log) + 1 /\ Target' = Target
  BY <1>1, <1>3, <1>4, <1>5, AppendedSession
<1>7. reply' \in [Observers -> {Idle} \cup AttachedRec \cup StreamRec \cup TerminalRec]
  BY <1>1 DEF BridgeInv, BridgeTypeOK
<1>8. Len(gw.log) <= MaxSeq /\ Target' \in {Target, Target + 1} /\ Target' <= Len(gw'.log)
  BY <1>1, <1>2, <1>6, BridgeAssumption
<1> QED
  BY <1>1, <1>5, <1>6, <1>7, <1>8, AppendKeeps

(* An answer of the live session.  What it counts on, the journal has.     *)
LEMMA AnswerKeeps ==
    ASSUME BridgeInv, NEW o \in Observers, gw # NoSession, ~Revoked,
           NEW events \in Seq(EventRec), NEW expected \in Nat, NEW cursor \in CursorRec,
           \A i \in DOMAIN events : \E n \in 1..Len(gw.log) : events[i] = Event(gw, n),
           Answer(o, events, expected, cursor), ~InFlight(reply[o]),
           UNCHANGED <<now, epochs, gw, jr, lost>>,
           skipped' \in BOOLEAN, skipped => skipped',
           cursor # NoCursor /\ ~skipped' => 1..expected \subseteq Seqs
    PROVE  BridgeInv'
<1> DEFINE s == Snap(gw)
           r == [kind |-> "stream", snap |-> s, events |-> events, expected |-> expected,
                 cursor |-> cursor]
<1>1. /\ gw.epoch = epochs /\ epochs \in Nat \ {0} /\ Len(gw.log) \in Nat \ {0}
      /\ Target = Len(gw.log)
  BY LiveSession
<1>2. gw.status \in SessionStatuses /\ gw.status \notin TerminalStatuses
  BY DEF BridgeInv, BridgeTypeOK, SessionRec, Revoked
<1>3. reply' = [reply EXCEPT ![o] = r]
  BY DEF Answer
<1>4. /\ s \in SnapRec /\ s.epoch = gw.epoch /\ s.seq = Len(gw.log)
      /\ s.status \notin TerminalStatuses
  BY <1>1, <1>2 DEF Snap, SnapRec
<1> HIDE DEF s
<1>5. /\ r \in StreamRec /\ r.kind = "stream" /\ r.snap = s /\ r.events = events
      /\ r.expected = expected /\ r.cursor = cursor
  BY <1>4 DEF StreamRec
<1> HIDE DEF r
<1>6. reply'[o] = r
  BY <1>3 DEF BridgeInv, BridgeTypeOK
<1>7. ASSUME NEW i \in DOMAIN events
      PROVE  events[i].epoch = s.epoch /\ events[i].seq <= s.seq /\ Genuine(events[i])
  <2>1. PICK n \in 1..Len(gw.log) : events[i] = Event(gw, n)
    OBVIOUS
  <2>2. events[i].epoch = gw.epoch /\ events[i].seq = n /\ events[i].type = gw.log[n]
    BY <2>1 DEF Event
  <2> QED
    BY <1>1, <1>4, <2>2 DEF Genuine
<1>8. StreamInv(reply[o])'
  <2>1. s.epoch <= epochs /\ s.seq <= Target
    BY <1>1, <1>4
  <2>2. Seqs' = Seqs /\ Target' = Target
    BY DEF Seqs, Target, Revoked
  <2> QED
    BY <1>4, <1>5, <1>6, <1>7, <2>1, <2>2 DEF StreamInv, Genuine
<1>9. ReplyInv(reply[o])'
  BY <1>5, <1>6, <1>8 DEF ReplyInv
<1>10. lost' \in BOOLEAN
  BY DEF BridgeInv, BridgeTypeOK
<1> QED
  BY <1>3, <1>5, <1>9, <1>10, ReplyKeeps

LEMMA BridgeSnapshotKeeps ==
    ASSUME BridgeInv, NEW o \in Observers, Snapshot(o) \/ AttachSnapshot(o)
    PROVE  BridgeInv'
<1>1. UNCHANGED <<now, epochs, gw, jr, lost, skipped>> /\ ~InFlight(reply[o])
  BY DEF Snapshot, AttachSnapshot, Observable, Reachable, InFlight, Idle
<1>2. lost' \in BOOLEAN /\ skipped' \in BOOLEAN
  BY <1>1 DEF BridgeInv, BridgeTypeOK
<1>3. CASE reply' = [reply EXCEPT ![o] = Idle]
  <2>1. ReplyInv(reply[o])'
    <3>1. reply'[o] = Idle
      BY <1>3 DEF BridgeInv, BridgeTypeOK
    <3> QED
      BY <3>1 DEF ReplyInv, Idle
  <2> QED
    BY <1>1, <1>2, <1>3, <2>1, ReplyKeeps
<1>4. CASE gw # NoSession /\ ~Revoked /\ Answer(o, <<>>, 0, NoCursor)
  <2>1. <<>> \in Seq(EventRec) /\ DOMAIN <<>> = {} /\ NoCursor \in CursorRec
    BY DEF NoCursor, CursorRec
  <2> QED
    BY <1>1, <1>2, <1>4, <2>1, AnswerKeeps
<1> QED
  BY <1>3, <1>4 DEF Snapshot, AttachSnapshot, Observable

(* A window of events after a sequence below the latest.                   *)
LEMMA WindowKeeps ==
    ASSUME BridgeInv, NEW o \in Observers, gw # NoSession, ~Revoked, reply[o] = Idle,
           NEW after \in 0..(Len(gw.log) - 1), NEW limit \in Nat \ {0},
           LET events == EventsAfter(gw, after, limit)
           IN  Answer(o, events, after, [last |-> events[Len(events)].seq, at |-> now]),
           UNCHANGED <<now, epochs, gw, jr, lost>>,
           skipped' \in BOOLEAN, skipped => skipped', ~skipped' => 1..after \subseteq Seqs
    PROVE  BridgeInv'
<1> DEFINE events == EventsAfter(gw, after, limit)
           cursor == [last |-> events[Len(events)].seq, at |-> now]
<1>1. /\ events \in Seq(EventRec) /\ Len(events) \in Nat \ {0}
      /\ \A i \in 1..Len(events) : \E n \in 1..Len(gw.log) : events[i] = Event(gw, n)
  BY EventsAfterProps
<1>2. Answer(o, events, after, cursor)
  OBVIOUS
<1> HIDE DEF events
<1>3. DOMAIN events = 1..Len(events) /\ events[Len(events)] \in EventRec
  BY <1>1
<1>4. cursor \in CursorRec
  <2>1. now \in Nat /\ events[Len(events)].seq \in Nat
    BY <1>3 DEF BridgeInv, BridgeTypeOK, EventRec
  <2> QED
    BY <2>1 DEF CursorRec
<1> HIDE DEF cursor
<1>5. ~InFlight(reply[o]) /\ after \in Nat
  BY DEF InFlight, Idle
<1> QED
  BY <1>1, <1>2, <1>3, <1>4, <1>5, AnswerKeeps

LEMMA BridgeSubscribeKeeps ==
    ASSUME BridgeInv, NEW o \in Observers, NEW c \in Cursors, NEW limit \in {1, MaxSeq + 1},
           Subscribe(o, c, limit)
    PROVE  BridgeInv'
<1>1. /\ gw # NoSession /\ ~Revoked /\ reply[o] = Idle
      /\ UNCHANGED <<now, epochs, gw, jr, lost, skipped>>
      /\ c # NoCursor => c.last \in Floor(gw)..(Len(gw.log) - 1)
      /\ LET events == EventsAfter(gw, c.last, limit)
         IN  Answer(o, events, c.last, [last |-> events[Len(events)].seq, at |-> now])
  BY DEF Subscribe, Observable, Reachable
<1>2. jr.cursor.last \in Nat /\ (~skipped => 1..jr.cursor.last \subseteq Seqs)
  BY DEF BridgeInv, BridgeTypeOK, JournalInv, CursorRec
<1>3. c.last \in 0..jr.cursor.last
  <2>1. CASE c = NoCursor
    BY <1>2, <2>1 DEF NoCursor
  <2>2. CASE c # NoCursor
    <3>1. PICK n \in 1..jr.cursor.last : c = [last |-> n, at |-> jr.cursor.at]
      BY <2>2 DEF Cursors
    <3> QED
      BY <1>2, <3>1
  <2> QED
    BY <2>1, <2>2
<1>4. c.last \in 0..(Len(gw.log) - 1)
  <2>1. Len(gw.log) \in Nat \ {0}
    BY <1>1, LiveSession
  <2>2. c = NoCursor => c.last = 0
    BY DEF NoCursor
  <2>3. Floor(gw) \in Nat
    BY <2>1, BridgeAssumption DEF Floor
  <2> QED
    BY <1>1, <1>2, <1>3, <2>1, <2>2, <2>3
<1>5. limit \in Nat \ {0}
  BY BridgeAssumption
<1>6. skipped' \in BOOLEAN /\ (skipped => skipped') /\ (~skipped' => 1..c.last \subseteq Seqs)
  <2>1. skipped' = skipped /\ skipped \in BOOLEAN
    BY <1>1 DEF BridgeInv, BridgeTypeOK
  <2>2. 1..c.last \subseteq 1..jr.cursor.last
    BY <1>2, <1>3
  <2> QED
    BY <1>2, <2>1, <2>2
<1>7. UNCHANGED <<now, epochs, gw, jr, lost>>
  BY <1>1
<1> QED
  BY <1>1, <1>4, <1>5, <1>6, <1>7, WindowKeeps

(* How far the journal of the current stream is complete is well defined.  *)
LEMMA CompleteProps ==
    ASSUME BridgeInv, gw # NoSession, jr.row.epoch = gw.epoch
    PROVE  Complete \in Nat /\ 1..Complete \subseteq Seqs
<1> DEFINE Gaps == {n \in Nat : n + 1 \notin Seqs}
           k == Min(Gaps)
<1>1. Len(gw.log) \in Nat /\ Len(gw.log) <= MaxSeq + 1 /\ MaxSeq \in Nat
  BY LiveSession, BridgeAssumption
<1>2. \A e \in jr.events : e.seq \in Nat \ {0} /\ e.seq <= MaxSeq + 1
  <2>1. \A e \in jr.events : e \in EventRec /\ e.epoch = gw.epoch /\ Genuine(e)
    BY DEF BridgeInv, BridgeTypeOK, JournalInv
  <2>2. \A e \in jr.events : e.seq \in Nat \ {0} /\ e.seq <= Len(gw.log)
    BY <2>1 DEF EventRec, Genuine
  <2> QED
    BY <1>1, <2>2
<1>3. Seqs \subseteq 1..(MaxSeq + 1)
  BY <1>1, <1>2 DEF Seqs
<1>4. MaxSeq + 1 \in Gaps /\ Gaps \in SUBSET Nat
  BY <1>1, <1>3
<1>5. k \in Gaps /\ \A m \in Gaps : k <= m
  BY <1>4, MinOfNat
<1> HIDE DEF k
<1>6. k \in 0..(MaxSeq + 1) /\ k + 1 \notin Seqs
  BY <1>1, <1>4, <1>5
<1>7. 1..k \subseteq Seqs
  <2>1. SUFFICES ASSUME NEW m \in 1..k PROVE m \in Seqs
    OBVIOUS
  <2>2. m - 1 \in Nat /\ ~(k <= m - 1) /\ (m - 1) + 1 = m
    BY <1>5, <2>1
  <2> QED
    BY <1>5, <2>2
<1>8. \E n \in 0..(MaxSeq + 1) :
          /\ 1..n \subseteq {e.seq : e \in jr.events}
          /\ (n + 1) \notin {e.seq : e \in jr.events}
  BY <1>6, <1>7 DEF Seqs
<1>9. Complete \in 0..(MaxSeq + 1) /\ 1..Complete \subseteq {e.seq : e \in jr.events}
  BY <1>8 DEF Complete
<1> QED
  BY <1>9 DEF Seqs

LEMMA BridgeReplayKeeps ==
    ASSUME BridgeInv, NEW o \in Observers, NEW after \in 0..MaxSeq,
           NEW limit \in {1, MaxSeq + 1}, Replay(o, after, limit)
    PROVE  BridgeInv'
<1>1. /\ gw # NoSession /\ ~Revoked /\ reply[o] = Idle /\ jr.row.epoch = gw.epoch
      /\ UNCHANGED <<now, epochs, gw, jr, lost>>
      /\ after \in Floor(gw)..(Len(gw.log) - 1)
      /\ LET events == EventsAfter(gw, after, limit)
         IN  Answer(o, events, after, [last |-> events[Len(events)].seq, at |-> now])
      /\ skipped' = (skipped \/ after > Complete)
  BY DEF Replay, Observable, Reachable
<1>2. after \in Nat /\ limit \in Nat \ {0}
  BY BridgeAssumption
<1>3. after \in 0..(Len(gw.log) - 1)
  <2>1. Len(gw.log) \in Nat
    BY <1>1, LiveSession
  <2>2. Floor(gw) \in Nat
    BY <2>1, BridgeAssumption DEF Floor
  <2> QED
    BY <1>1, <1>2, <2>1, <2>2
<1>4. skipped' \in BOOLEAN /\ (skipped => skipped')
  BY <1>1 DEF BridgeInv, BridgeTypeOK
<1>5. ASSUME ~skipped' PROVE 1..after \subseteq Seqs
  <2>1. Complete \in Nat /\ 1..Complete \subseteq Seqs
    BY <1>1, CompleteProps
  <2>2. ~(after > Complete)
    BY <1>1, <1>5
  <2> HIDE DEF Complete
  <2>3. 1..after \subseteq 1..Complete
    BY <1>2, <2>1, <2>2
  <2> QED
    BY <2>1, <2>3
<1> QED
  BY <1>1, <1>2, <1>3, <1>4, <1>5, WindowKeeps

LEMMA StreamOf ==
    ASSUME BridgeInv, NEW o \in Observers, reply[o].kind = "stream"
    PROVE  reply[o] \in StreamRec /\ StreamInv(reply[o])
<1>1. reply[o] \in StreamRec
  BY DEF BridgeInv, BridgeTypeOK, Idle, AttachedRec, TerminalRec
<1>2. StreamInv(reply[o])
  BY DEF BridgeInv, ReplyInv
<1> QED
  BY <1>1, <1>2

(* Two genuine events of one sequence are one event.                       *)
LEMMA GenuineIsUnique ==
    ASSUME NEW e \in EventRec, NEW f \in EventRec, Genuine(e), Genuine(f),
           e.epoch = gw.epoch, f.epoch = gw.epoch, e.seq = f.seq
    PROVE  e = f
<1>1. e.type = f.type
  BY DEF Genuine
<1> QED
  BY <1>1 DEF EventRec

(* ingest refuses an answer that would be the journal's latest news only   *)
(* for want of room.                                                       *)
LEMMA RefusedIsLost ==
    ASSUME BridgeInv, NEW o \in Observers, InFlight(reply[o]), Current,
           ~IngestAccepts(reply[o])
    PROVE  ~WithinLimits(Arrived(reply[o]) \ jr.events)
<1> DEFINE r == reply[o]
<1>1. /\ r.kind = "stream" /\ r.cursor = NoCursor /\ ValidStream(r)
      /\ r.snap.epoch = gw.epoch
  BY DEF InFlight
<1>2. r \in StreamRec /\ StreamInv(r)
  BY <1>1, StreamOf
<1>3. FreshCursor(r.cursor) /\ SameStream(r.snap.epoch)
  BY <1>1 DEF FreshCursor, SameStream, Current
<1>4. NoConflict(Arrived(r))
  <2>1. SUFFICES ASSUME NEW i \in DOMAIN r.events, NEW f \in jr.events,
                        r.events[i].seq = f.seq
                 PROVE  r.events[i] = f
    BY DEF NoConflict, Arrived
  <2>2. r.events[i] \in EventRec /\ f \in EventRec
    BY <1>2 DEF StreamRec, BridgeInv, BridgeTypeOK
  <2>3. r.events[i].epoch = gw.epoch /\ Genuine(r.events[i])
    BY <1>1, <1>2 DEF StreamInv
  <2>4. f.epoch = gw.epoch /\ Genuine(f)
    BY DEF BridgeInv, JournalInv, Current
  <2> QED
    BY <2>1, <2>2, <2>3, <2>4, GenuineIsUnique
<1> QED
  BY <1>1, <1>3, <1>4 DEF IngestAccepts

(* What ingest makes of the journal.                                       *)
LEMMA IngestedProps ==
    ASSUME BridgeInv, NEW o \in Observers, reply[o].kind = "stream",
           IngestAccepts(reply[o]), jr' = Ingested(reply[o])
    PROVE  /\ jr' \in [row : {NoRow} \cup SnapRec, events : SUBSET EventRec,
                       acked : SUBSET EventRec, cursor : CursorRec]
           /\ jr'.events = jr.events \cup Arrived(reply[o])
           /\ jr'.row = Effective(jr.row, reply[o].snap)
           /\ jr'.row \in SnapRec /\ jr'.row # NoRow
           /\ jr'.row.epoch = reply[o].snap.epoch
           /\ jr.row # NoRow => jr.row.epoch = jr'.row.epoch
           /\ jr'.cursor = jr.cursor \/ (jr'.cursor = reply[o].cursor /\ jr'.cursor # NoCursor)
           /\ Arrived(reply[o]) \subseteq EventRec /\ IsFiniteSet(jr'.events)
<1> DEFINE r == reply[o]
<1>1. /\ r \in StreamRec /\ r.snap \in SnapRec /\ r.cursor \in CursorRec
      /\ r.events \in Seq(EventRec)
  <2>1. r \in StreamRec
    BY StreamOf
  <2> QED
    BY <2>1 DEF StreamRec
<1>2. /\ jr.row \in {NoRow} \cup SnapRec /\ jr.events \subseteq EventRec
      /\ jr.acked \subseteq EventRec /\ jr.cursor \in CursorRec /\ IsFiniteSet(jr.events)
  BY DEF BridgeInv, BridgeTypeOK
<1>3. Arrived(r) \subseteq EventRec
  BY <1>1 DEF Arrived
<1>4. IsFiniteSet(Arrived(r))
  <2>1. r.events \in Seq(Arrived(r)) /\ DOMAIN r.events = 1..Len(r.events)
    BY <1>1 DEF Arrived
  <2>2. \A e \in Arrived(r) : \E n \in 1..Len(r.events) : r.events[n] = e
    BY <2>1 DEF Arrived
  <2> QED
    BY <2>1, <2>2 DEF IsFiniteSet
<1>5. /\ jr'.events = jr.events \cup Arrived(r) /\ jr'.row = Effective(jr.row, r.snap)
      /\ jr'.acked = jr.acked /\ DOMAIN jr' = {"row", "events", "acked", "cursor"}
      /\ jr'.cursor = IF r.cursor = NoCursor \/ jr.cursor.last >= r.cursor.last
                      THEN jr.cursor ELSE r.cursor
      /\ jr' = [row |-> jr'.row, events |-> jr'.events, acked |-> jr'.acked,
                cursor |-> jr'.cursor]
  BY DEF Ingested
<1>6. jr'.cursor = jr.cursor \/ (jr'.cursor = r.cursor /\ jr'.cursor # NoCursor)
  BY <1>5
<1>7. jr.row = NoRow \/ jr.row.epoch = r.snap.epoch
  BY DEF IngestAccepts, SameStream
<1>8. jr'.row \in SnapRec /\ jr'.row.epoch = r.snap.epoch
  BY <1>1, <1>2, <1>5, <1>7 DEF Effective
<1>9. jr'.row # NoRow
  BY <1>8 DEF SnapRec, NoRow
<1>10. jr' \in [row : {NoRow} \cup SnapRec, events : SUBSET EventRec, acked : SUBSET EventRec,
                cursor : CursorRec]
  <2>1. /\ jr'.row \in {NoRow} \cup SnapRec /\ jr'.events \in SUBSET EventRec
        /\ jr'.acked \in SUBSET EventRec /\ jr'.cursor \in CursorRec
    BY <1>1, <1>2, <1>3, <1>5, <1>6, <1>8
  <2>2. jr' = [row |-> jr'.row, events |-> jr'.events, acked |-> jr'.acked,
               cursor |-> jr'.cursor]
    BY <1>5
  <2> QED
    BY <2>1, <2>2
<1>11. IsFiniteSet(jr'.events)
  <2>1. IsFiniteSet(jr.events \cup Arrived(r))
    BY <1>2, <1>4, FS_Union, Zenon
  <2> QED
    BY <1>5, <2>1
<1> QED
  BY <1>3, <1>5, <1>6, <1>7, <1>8, <1>9, <1>10, <1>11

(* The cursor of a valid stream is at the end of its events, and those     *)
(* follow the expected sequence one by one.                                *)
LEMMA StreamCovers ==
    ASSUME BridgeInv, NEW r \in StreamRec, StreamInv(r), ValidStream(r), r.cursor # NoCursor
    PROVE  /\ r.cursor.last \in Nat /\ r.cursor.last <= r.snap.seq
           /\ (r.expected + 1)..r.cursor.last \subseteq {e.seq : e \in Arrived(r)}
<1>1. r.events \in Seq(EventRec) /\ r.expected \in Nat /\ r.snap.seq \in Nat
  BY DEF StreamRec, SnapRec
<1>2. Len(r.events) \in Nat /\ DOMAIN r.events = 1..Len(r.events)
  BY <1>1
<1>3. CASE r.events = <<>>
  BY <1>1, <1>3 DEF ValidStream
<1>4. CASE r.events # <<>>
  <2>1. Len(r.events) \in 1..Len(r.events)
    BY <1>1, <1>2, <1>4
  <2>2. /\ r.events[Len(r.events)].seq = r.expected + Len(r.events)
        /\ r.cursor.last = r.events[Len(r.events)].seq
        /\ r.snap.seq >= r.events[Len(r.events)].seq
    BY <1>2, <1>4, <2>1 DEF ValidStream
  <2>3. r.cursor.last = r.expected + Len(r.events) /\ r.snap.seq >= r.expected + Len(r.events)
    BY <2>2
  <2>4. ASSUME NEW n \in (r.expected + 1)..(r.expected + Len(r.events))
        PROVE  n \in {e.seq : e \in Arrived(r)}
    <3>1. n - r.expected \in 1..Len(r.events) /\ r.expected + (n - r.expected) = n
      BY <1>1, <1>2, <2>4
    <3>2. r.events[n - r.expected].seq = n
      BY <1>2, <3>1 DEF ValidStream
    <3> QED
      BY <1>2, <3>1, <3>2 DEF Arrived
  <2> QED
    BY <1>1, <1>2, <2>3, <2>4
<1> QED
  BY <1>3, <1>4

LEMMA EffectiveProps ==
    ASSUME NEW old \in SnapRec, NEW new \in SnapRec, old.status \notin TerminalStatuses,
           new.status \notin TerminalStatuses
    PROVE  /\ Effective(old, new) \in {old, new}
           /\ Effective(old, new).seq >= old.seq /\ Effective(old, new).seq >= new.seq
<1>1. old.seq \in Nat /\ new.seq \in Nat
  BY DEF SnapRec
<1>2. CASE Effective(old, new) = old /\ old.seq > new.seq
  BY <1>1, <1>2
<1>3. CASE Effective(old, new) = new /\ ~(old.seq > new.seq)
  BY <1>1, <1>3
<1>4. old # NoRow
  BY DEF SnapRec, NoRow
<1> QED
  BY <1>2, <1>3, <1>4 DEF Effective

(* Another answer in flight does not mind the journal growing.             *)
LEMMA OtherReplyKeeps ==
    ASSUME BridgeInv, NEW u \in Observers, reply'[u] = reply[u], UNCHANGED <<epochs, gw, skipped>>,
           Seqs \subseteq Seqs'
    PROVE  ReplyInv(reply[u])' /\ (InFlight(reply[u]) => InFlight(reply[u])')
<1>1. Target' = Target
  BY DEF Target, Revoked
<1>2. ReplyInv(reply[u])
  BY DEF BridgeInv
<1>3. ReplyInv(reply[u])'
  <2>1. reply[u].kind = "stream" => StreamInv(reply[u])'
    BY <1>1, <1>2 DEF ReplyInv, StreamInv, Genuine
  <2>2. reply[u].kind = "terminal" => TerminalInv(reply[u])'
    BY <1>2 DEF ReplyInv, TerminalInv, Genuine
  <2> QED
    BY <2>1, <2>2 DEF ReplyInv
<1>4. InFlight(reply[u]) => InFlight(reply[u])'
  BY <1>1 DEF InFlight, ValidStream
<1> QED
  BY <1>3, <1>4

(* ingest.                                                                 *)
LEMMA BridgeStoreKeeps ==
    ASSUME BridgeInv, NEW o \in Observers, Store(o)
    PROVE  BridgeInv'
<1> DEFINE r == reply[o]
<1>1. /\ r.kind = "stream" /\ reply' = [reply EXCEPT ![o] = Idle]
      /\ UNCHANGED <<now, epochs, gw, skipped>>
      /\ lost' = (lost \/ ~WithinLimits(Arrived(r) \ jr.events))
  BY DEF Store
<1>2. r \in StreamRec /\ StreamInv(r)
  BY <1>1, StreamOf
<1>3. lost' \in BOOLEAN /\ (lost => lost') /\ skipped' \in BOOLEAN
  BY <1>1 DEF BridgeInv, BridgeTypeOK
<1>4. reply'[o] = Idle /\ \A u \in Observers \ {o} : reply'[u] = reply[u]
  BY <1>1 DEF BridgeInv, BridgeTypeOK
<1>5. ReplyInv(reply[o])'
  BY <1>4 DEF ReplyInv, Idle
<1>6. CASE ~IngestAccepts(r)
  <2>1. UNCHANGED jr
    BY <1>6 DEF Store
  <2>2. InFlight(r) /\ Current => lost'
    BY <1>1, <1>6, RefusedIsLost
  <2> QED
    BY <1>1, <1>3, <1>5, <2>1, <2>2, ReplyKeeps
<1>7. CASE IngestAccepts(r)
  <2> DEFINE row == jr'.row
  <2>0. jr' = Ingested(r)
    BY <1>7 DEF Store
  <2>1. /\ jr' \in [row : {NoRow} \cup SnapRec, events : SUBSET EventRec,
                    acked : SUBSET EventRec, cursor : CursorRec]
        /\ jr'.events = jr.events \cup Arrived(r)
        /\ row = Effective(jr.row, r.snap) /\ row \in SnapRec /\ row # NoRow
        /\ row.epoch = r.snap.epoch /\ (jr.row # NoRow => jr.row.epoch = row.epoch)
        /\ jr'.cursor = jr.cursor \/ (jr'.cursor = r.cursor /\ jr'.cursor # NoCursor)
        /\ Arrived(r) \subseteq EventRec /\ IsFiniteSet(jr'.events)
    BY <1>1, <1>7, <2>0, IngestedProps
  <2> HIDE DEF row
  <2>2. BridgeTypeOK'
    BY <1>1, <1>3, <2>1 DEF BridgeInv, BridgeTypeOK
  <2>3. SessionInv' /\ Target' = Target
    BY <1>1 DEF BridgeInv, SessionInv, Target, Revoked
  <2>4. Seqs' = Seqs \cup {e.seq : e \in Arrived(r)}
    BY <2>1 DEF Seqs
  <2>5. ASSUME NEW u \in Observers PROVE ReplyInv(reply[u])'
    BY <1>1, <1>4, <1>5, <2>4, OtherReplyKeeps
  <2>6. \A e \in Arrived(r) : e.epoch = row.epoch /\ Genuine(e) /\ e.seq <= r.snap.seq
    BY <1>2, <2>1 DEF StreamInv, Arrived
  <2>7. ValidStream(r)
    BY <1>7 DEF IngestAccepts
  <2>8. JournalInv'
    <3>1. row.epoch <= epochs
      BY <1>2, <2>1 DEF StreamInv
    <3>2. \A e \in jr.events : jr.row # NoRow /\ e.epoch = row.epoch /\ Genuine(e)
      BY <2>1 DEF BridgeInv, JournalInv
    <3>3. \A e \in jr'.events : e.epoch = row.epoch /\ Genuine(e)'
      BY <1>1, <2>1, <2>6, <3>2 DEF Genuine
    <3>4. ASSUME ~skipped' PROVE 1..jr'.cursor.last \subseteq Seqs'
      <4>1. CASE jr'.cursor = jr.cursor
        BY <1>1, <2>4, <3>4, <4>1 DEF BridgeInv, JournalInv
      <4>2. CASE jr'.cursor = r.cursor /\ jr'.cursor # NoCursor
        <5>1. r.cursor.last \in Nat /\ r.expected \in Nat
          BY <1>2, <2>7, <4>2, StreamCovers DEF StreamRec
        <5>2. (r.expected + 1)..r.cursor.last \subseteq {e.seq : e \in Arrived(r)}
          BY <1>2, <2>7, <4>2, StreamCovers
        <5>3. 1..r.expected \subseteq Seqs
          BY <1>1, <1>2, <3>4, <4>2 DEF StreamInv
        <5> QED
          BY <2>4, <4>2, <5>1, <5>2, <5>3
      <4> QED
        BY <2>1, <4>1, <4>2
    <3> QED
      BY <1>1, <2>1, <3>1, <3>3, <3>4 DEF JournalInv, row
  <2>9. ProgressInv'
    <3>1. SUFFICES ASSUME Current' 
                   PROVE  /\ Recorded' \/ Behind'
                          /\ ~lost' => \/ Recorded' \/ row.seq >= Target
                                       \/ \E u \in Observers : InFlight(reply[u])'
      BY <2>1, <2>3 DEF ProgressInv, row
    <3>2. r.snap.epoch = gw.epoch /\ r.snap.seq <= Target /\ r.snap \in SnapRec
      BY <1>1, <1>2, <2>1, <3>1 DEF Current, StreamInv, row, StreamRec
    <3>3. gw # NoSession
      BY <3>2 DEF NoSession, SnapRec
    <3>4. Target \in Nat \ {0} /\ r.snap.seq \in Nat \ {0}
      BY <3>2, <3>3, LiveSession DEF SnapRec
    <3>5. Recorded => Recorded'
      BY <1>1, <2>1 DEF Recorded, Event
    <3>6. ASSUME Behind \/ jr.row = NoRow PROVE Behind'
      <4>1. /\ jr.row = NoRow \/ (jr.row.status \notin TerminalStatuses /\ jr.row.seq <= Target)
            /\ jr.cursor.last <= Target /\ \A e \in jr.events : e.seq <= Target
        BY <3>4, <3>6 DEF Behind, BridgeInv, JournalInv, NoCursor
      <4>2. row.status \notin TerminalStatuses /\ row.seq <= Target
        BY <1>2, <2>1, <3>2, <4>1 DEF Effective, StreamInv
      <4>3. jr'.cursor.last <= Target
        <5>1. CASE jr'.cursor = jr.cursor
          BY <4>1, <5>1
        <5>2. CASE jr'.cursor = r.cursor /\ jr'.cursor # NoCursor
          <6>1. r.cursor.last \in Nat /\ r.cursor.last <= r.snap.seq
            BY <1>2, <2>7, <5>2, StreamCovers
          <6> HIDE DEF Target
          <6> QED
            BY <3>2, <3>4, <5>2, <6>1
        <5> QED
          BY <2>1, <5>1, <5>2
      <4>4. \A e \in Arrived(r) : e.seq <= Target
        <5>1. \A e \in Arrived(r) : e.seq \in Nat
          BY <2>1 DEF EventRec
        <5> QED
          BY <2>6, <3>2, <3>4, <5>1
      <4> QED
        BY <2>1, <2>3, <4>1, <4>2, <4>3, <4>4 DEF Behind, row
    <3>7. jr.row # NoRow => Current /\ (Recorded \/ Behind)
      BY <2>1, <3>2 DEF Current, BridgeInv, ProgressInv
    <3>8. ASSUME ~lost', ~Recorded
          PROVE  row.seq >= Target \/ \E u \in Observers : InFlight(reply[u])'
      <4>1. CASE jr.row = NoRow
        <5>1. Target = 1 /\ row = r.snap
          BY <2>1, <3>3, <4>1 DEF BridgeInv, ProgressInv, Effective
        <5> QED
          BY <3>4, <5>1
      <4>2. CASE jr.row # NoRow
        <5>1. Behind /\ jr.row \in SnapRec
          BY <3>7, <3>8, <4>2 DEF BridgeInv, BridgeTypeOK
        <5>2. row.seq >= jr.row.seq /\ row.seq >= r.snap.seq
          BY <1>2, <2>1, <3>2, <5>1, EffectiveProps DEF Behind, StreamInv
        <5>3. row.seq \in Nat /\ jr.row.seq \in Nat
          BY <2>1, <5>1 DEF SnapRec
        <5>4. ~lost
          BY <1>1, <3>8
        <5>5. jr.row.seq >= Target \/ \E u \in Observers : InFlight(reply[u])
          BY <3>7, <3>8, <4>2, <5>4 DEF BridgeInv, ProgressInv
        <5>6. CASE jr.row.seq >= Target
          BY <3>4, <5>2, <5>3, <5>6
        <5>7. ASSUME NEW u \in Observers, InFlight(reply[u])
              PROVE  row.seq >= Target \/ InFlight(reply[u])'
          <6>1. CASE u = o
            BY <3>4, <5>2, <5>3, <5>7, <6>1 DEF InFlight
          <6>2. CASE u # o
            BY <1>1, <1>4, <2>4, <5>7, <6>2, OtherReplyKeeps
          <6> QED
            BY <6>1, <6>2
        <5> QED
          BY <5>5, <5>6, <5>7
      <4> QED
        BY <4>1, <4>2
    <3> QED
      BY <3>5, <3>6, <3>7, <3>8
  <2> QED
    BY <2>2, <2>3, <2>5, <2>8, <2>9 DEF BridgeInv
<1> QED
  BY <1>6, <1>7

(* ingest_events: the event that detached the session is there.            *)
LEMMA BridgeTerminalKeeps ==
    ASSUME BridgeInv, NEW o \in Observers, StoreTerminal(o)
    PROVE  BridgeInv'
<1> DEFINE e == reply[o].event
<1>1. /\ reply[o].kind = "terminal" /\ reply' = [reply EXCEPT ![o] = Idle]
      /\ UNCHANGED <<now, epochs, gw, lost, skipped>>
  BY DEF StoreTerminal
<1>2. e \in EventRec /\ TerminalInv(reply[o]) /\ ~InFlight(reply[o])
  <2>1. reply[o] \in TerminalRec
    BY <1>1 DEF BridgeInv, BridgeTypeOK, Idle, AttachedRec, StreamRec
  <2> QED
    BY <1>1, <2>1 DEF BridgeInv, ReplyInv, TerminalRec, InFlight
<1>3. lost' \in BOOLEAN /\ skipped' \in BOOLEAN
  BY <1>1 DEF BridgeInv, BridgeTypeOK
<1>4. reply'[o] = Idle /\ \A u \in Observers \ {o} : reply'[u] = reply[u]
  BY <1>1 DEF BridgeInv, BridgeTypeOK
<1>5. ReplyInv(reply[o])'
  BY <1>4 DEF ReplyInv, Idle
<1>6. CASE ~TerminalAccepts(e)
  <2>1. UNCHANGED jr
    BY <1>6 DEF StoreTerminal
  <2> QED
    BY <1>1, <1>2, <1>3, <1>5, <2>1, ReplyKeeps
<1>7. CASE TerminalAccepts(e)
  <2>1. jr' = TerminalIngested(e) /\ jr.row # NoRow /\ jr.row.epoch = e.epoch
    BY <1>7 DEF StoreTerminal, TerminalAccepts
  <2>2. /\ jr.row \in SnapRec /\ jr.events \subseteq EventRec /\ jr.acked \subseteq EventRec
        /\ jr.cursor \in CursorRec /\ IsFiniteSet(jr.events)
        /\ jr = [row |-> jr.row, events |-> jr.events, acked |-> jr.acked, cursor |-> jr.cursor]
    BY <2>1 DEF BridgeInv, BridgeTypeOK
  <2> HIDE DEF e
  <2>3. Max({jr.row.seq, e.seq}) \in Nat \ {0}
    BY <1>2, <2>2 DEF Max, SnapRec, EventRec
  <2> DEFINE row == [jr.row EXCEPT !.status = "detached", !.seq = Max({jr.row.seq, e.seq})]
  <2>4. jr' = [jr EXCEPT !.events = jr.events \cup {e}, !.row = row]
    BY <2>1, <2>2 DEF TerminalIngested
  <2>5. row \in SnapRec /\ row.epoch = jr.row.epoch /\ row # NoRow
    <3>1. "detached" \in SessionStatuses
      BY DEF SessionStatuses
    <3>2. row \in SnapRec /\ row.epoch = jr.row.epoch
      BY <2>2, <2>3, <3>1 DEF SnapRec
    <3> QED
      BY <3>2 DEF SnapRec, NoRow
  <2> HIDE DEF row
  <2>6. /\ jr'.row = row /\ jr'.events = jr.events \cup {e} /\ jr'.cursor = jr.cursor
        /\ jr' \in [row : {NoRow} \cup SnapRec, events : SUBSET EventRec,
                    acked : SUBSET EventRec, cursor : CursorRec]
    BY <1>2, <2>2, <2>4, <2>5
  <2>7. BridgeTypeOK'
    <3>1. IsFiniteSet(jr.events \cup {e})
      BY <2>2, FS_AddElement
    <3> QED
      BY <1>1, <1>3, <2>6, <3>1 DEF BridgeInv, BridgeTypeOK
  <2>8. SessionInv'
    BY <1>1 DEF BridgeInv, SessionInv, Target, Revoked
  <2>9. Seqs' = Seqs \cup {e.seq}
    BY <2>6 DEF Seqs
  <2>10. ASSUME NEW u \in Observers PROVE ReplyInv(reply[u])'
    BY <1>1, <1>4, <1>5, <2>9, OtherReplyKeeps
  <2>11. Genuine(e)
    BY <1>2 DEF TerminalInv, e
  <2>12. JournalInv'
    <3>1. \A f \in jr'.events : f.epoch = row.epoch /\ Genuine(f)'
      BY <1>1, <2>1, <2>5, <2>6, <2>11 DEF BridgeInv, JournalInv, Genuine
    <3>2. row.epoch <= epochs
      BY <2>5 DEF BridgeInv, JournalInv
    <3> QED
      BY <1>1, <2>5, <2>6, <2>9, <3>1, <3>2 DEF BridgeInv, JournalInv
  <2>13. Current' => Recorded'
    <3>1. SUFFICES ASSUME Current' PROVE Recorded'
      OBVIOUS
    <3>2. e.epoch = gw.epoch
      BY <1>1, <2>1, <2>5, <2>6, <3>1 DEF Current
    <3>3. e.seq = Len(gw.log) /\ gw.status = "detached" /\ gw.log[e.seq] = e.type
      BY <1>2, <2>11, <3>2 DEF TerminalInv, Genuine, e
    <3>4. e = Event(gw, Len(gw.log))
      BY <1>2, <3>2, <3>3 DEF Event, EventRec
    <3> QED
      BY <1>1, <2>6, <3>3, <3>4 DEF Recorded, Event
  <2> QED
    BY <2>5, <2>6, <2>7, <2>8, <2>10, <2>12, <2>13 DEF BridgeInv, ProgressInv
<1> QED
  BY <1>6, <1>7

LEMMA BridgeAckKeeps ==
    ASSUME BridgeInv, NEW e \in jr.events, Ack(e)
    PROVE  BridgeInv'
<1>1. /\ jr' = [jr EXCEPT !.acked = @ \cup {e}]
      /\ UNCHANGED <<now, epochs, gw, reply, lost, skipped>>
  BY DEF Ack
<1>2. jr \in [row : {NoRow} \cup SnapRec, events : SUBSET EventRec, acked : SUBSET EventRec,
              cursor : CursorRec]
  BY DEF BridgeInv, BridgeTypeOK
<1>3. /\ jr' \in [row : {NoRow} \cup SnapRec, events : SUBSET EventRec, acked : SUBSET EventRec,
                  cursor : CursorRec]
      /\ jr'.row = jr.row /\ jr'.events = jr.events /\ jr'.cursor = jr.cursor
  BY <1>1, <1>2
<1>4. BridgeTypeOK' /\ SessionInv' /\ Seqs' = Seqs /\ Target' = Target
  BY <1>1, <1>3 DEF BridgeInv, BridgeTypeOK, SessionInv, Target, Revoked, Seqs
<1>5. JournalInv'
  BY <1>1, <1>3, <1>4 DEF BridgeInv, JournalInv, Genuine
<1>6. \A u \in Observers : ReplyInv(reply[u])' /\ (InFlight(reply[u]) => InFlight(reply[u])')
  BY <1>1, <1>4, OtherReplyKeeps
<1>7. Current' = Current /\ Recorded' = Recorded /\ Behind' = Behind
  BY <1>1, <1>3, <1>4 DEF Current, Recorded, Behind, Event
<1>8. ProgressInv'
  BY <1>1, <1>3, <1>4, <1>6, <1>7 DEF BridgeInv, ProgressInv
<1> QED
  BY <1>4, <1>5, <1>6, <1>8 DEF BridgeInv

LEMMA BridgeDieKeeps ==
    ASSUME BridgeInv, NEW o \in Observers, Die(o)
    PROVE  BridgeInv'
<1>1. /\ reply' = [reply EXCEPT ![o] = Idle] /\ lost' = TRUE
      /\ UNCHANGED <<now, epochs, gw, jr, skipped>>
  BY DEF Die
<1>2. ReplyInv(reply[o])'
  <2>1. reply'[o] = Idle
    BY <1>1 DEF BridgeInv, BridgeTypeOK
  <2> QED
    BY <2>1 DEF ReplyInv, Idle
<1>3. lost' \in BOOLEAN /\ skipped' \in BOOLEAN
  BY <1>1 DEF BridgeInv, BridgeTypeOK
<1> QED
  BY <1>1, <1>2, <1>3, ReplyKeeps

(* Connections, tickets and the clock are not what the journal depends on. *)
LEMMA BridgeFrame ==
    ASSUME BridgeInv, now' \in Nat, UNCHANGED <<epochs, gw, reply, jr, lost, skipped>>
    PROVE  BridgeInv'
<1>1. BridgeTypeOK' /\ SessionInv' /\ Seqs' = Seqs /\ Target' = Target
  BY DEF BridgeInv, BridgeTypeOK, SessionInv, Target, Revoked, Seqs
<1>2. JournalInv'
  BY <1>1 DEF BridgeInv, JournalInv, Genuine
<1>3. \A u \in Observers : ReplyInv(reply[u])' /\ (InFlight(reply[u]) => InFlight(reply[u])')
  BY <1>1, OtherReplyKeeps
<1>4. Current' = Current /\ Recorded' = Recorded /\ Behind' = Behind
  BY <1>1 DEF Current, Recorded, Behind, Event
<1>5. ProgressInv'
  BY <1>1, <1>3, <1>4 DEF BridgeInv, ProgressInv
<1> QED
  BY <1>1, <1>2, <1>3, <1>5 DEF BridgeInv

LEMMA BridgeNextInv == BridgeInv /\ [Next]_vars => BridgeInv'
<1> SUFFICES ASSUME BridgeInv, [Next]_vars PROVE BridgeInv'
  OBVIOUS
<1>0. now \in Nat
  BY DEF BridgeInv, BridgeTypeOK
<1>1. ASSUME NEW o \in Observers, Connect(o) \/ Close(o) PROVE BridgeInv'
  BY <1>0, <1>1, BridgeFrame DEF Connect, Close
<1>2. ASSUME NEW o \in Observers, Snapshot(o) \/ AttachSnapshot(o) PROVE BridgeInv'
  BY <1>2, BridgeSnapshotKeeps
<1>3. ASSUME NEW o \in Observers, Heartbeat(o) PROVE BridgeInv'
  BY <1>3, BridgeHeartbeatKeeps
<1>4. ASSUME NEW o \in Observers, Detach(o) PROVE BridgeInv'
  BY <1>4, BridgeDetachKeeps
<1>5. ASSUME NEW o \in Observers, Store(o) PROVE BridgeInv'
  BY <1>5, BridgeStoreKeeps
<1>6. ASSUME NEW o \in Observers, StoreTerminal(o) PROVE BridgeInv'
  BY <1>6, BridgeTerminalKeeps
<1>7. ASSUME NEW o \in Observers, Die(o) PROVE BridgeInv'
  BY <1>7, BridgeDieKeeps
<1>8. ASSUME NEW o \in Observers, NEW t \in Tickets, IssueActivation(o, t) PROVE BridgeInv'
  BY <1>0, <1>8, BridgeFrame DEF IssueActivation
<1>9. ASSUME NEW o \in Observers, NEW t \in Tickets, Consume(o, t) PROVE BridgeInv'
  BY <1>9, BridgeConsumeKeeps
<1>10. ASSUME NEW o \in Observers, NEW limit \in {1, MaxSeq + 1}, NEW c \in Cursors,
              Subscribe(o, c, limit)
       PROVE  BridgeInv'
  BY <1>10, BridgeSubscribeKeeps
<1>11. ASSUME NEW o \in Observers, NEW limit \in {1, MaxSeq + 1}, NEW n \in 0..MaxSeq,
              Replay(o, n, limit)
       PROVE  BridgeInv'
  BY <1>11, BridgeReplayKeeps
<1>12. ASSUME NEW e \in jr.events, Ack(e) PROVE BridgeInv'
  BY <1>12, BridgeAckKeeps
<1>13. CASE ExpireStale
  BY <1>13, BridgeExpireKeeps
<1>14. CASE Reset
  BY <1>14, BridgeResetKeeps
<1>15. CASE Tick \/ UNCHANGED vars
  <2>1. now' \in Nat /\ UNCHANGED <<epochs, gw, reply, jr, lost, skipped>>
    BY <1>0, <1>15 DEF Tick, vars
  <2> QED
    BY <2>1, BridgeFrame
<1> QED
  BY <1>1, <1>2, <1>3, <1>4, <1>5, <1>6, <1>7, <1>8, <1>9, <1>10, <1>11, <1>12, <1>13, <1>14,
     <1>15 DEF Next

LEMMA BridgeAlways == Spec => []BridgeInv
  BY BridgeInitInv, BridgeNextInv, PTL DEF Spec

(* The journal never mixes the streams of two epochs of the gateway and    *)
(* never holds an event that differs from the one the gateway appended.    *)
THEOREM JournalFollowsOneStream == Spec => []OneStream
<1>1. BridgeInv => OneStream
  BY DEF BridgeInv, JournalInv, OneStream, Genuine
<1> QED
  BY <1>1, BridgeAlways, PTL

(* Unless a caller asks for a window beyond the journal, no lost answer,   *)
(* retention or restart makes the stored cursor pass a missing event.      *)
THEOREM StoredCursorCovered == Spec => []CursorCovered
<1>1. BridgeInv => CursorCovered
  BY DEF BridgeInv, JournalInv, CursorCovered, Seqs
<1> QED
  BY <1>1, BridgeAlways, PTL

(* A detached session whose answers all reached a journal with room can    *)
(* still be recorded as detached by a repeated detach.                     *)
THEOREM DetachCanBeRecorded == Spec => []DetachRecordable
<1>1. ASSUME BridgeInv, gw.status = "detached", gw.epoch = jr.row.epoch, ~lost,
             \A o \in Observers : reply[o] = Idle,
             Cardinality(jr.events) < MaxEvents,
             Cardinality(jr.events \ jr.acked) < MaxPending
      PROVE  TerminalAccepts(Event(gw, Len(gw.log)))
  <2> DEFINE e == Event(gw, Len(gw.log))
  <2>1. gw # NoSession
    BY <1>1 DEF NoSession
  <2>2. /\ gw.epoch \in Nat \ {0} /\ Len(gw.log) \in Nat \ {0} /\ Target = Len(gw.log) - 1
        /\ Target \in Nat \ {0}
    BY <1>1, <2>1, LiveSession DEF Revoked, TerminalStatuses
  <2>3. jr.row # NoRow /\ Current /\ e.epoch = jr.row.epoch /\ e.seq = Len(gw.log)
    BY <1>1, <2>2 DEF NoRow, Current, Event
  <2>4. CASE Recorded
    BY <2>3, <2>4 DEF Recorded, TerminalAccepts
  <2>5. CASE ~Recorded
    <3>1. Behind /\ jr.row.seq >= Target
      <4>1. \A o \in Observers : ~InFlight(reply[o])
        BY <1>1 DEF InFlight, Idle
      <4> QED
        BY <1>1, <2>3, <2>5, <4>1 DEF BridgeInv, ProgressInv
    <3> HIDE DEF e
    <3>2. /\ jr.row.seq \in Nat /\ jr.cursor.last \in Nat
          /\ \A f \in jr.events : f.seq \in Nat
      <4>1. jr.row \in SnapRec /\ jr.cursor \in CursorRec /\ jr.events \subseteq EventRec
        BY <1>1, <2>3 DEF BridgeInv, BridgeTypeOK
      <4> QED
        BY <4>1 DEF SnapRec, CursorRec, EventRec
    <3>3. /\ jr.row.seq = Target /\ jr.cursor.last <= Target
          /\ \A f \in jr.events : f.seq <= Target
      BY <2>2, <3>1, <3>2 DEF Behind
    <3> DEFINE S == {jr.row.seq, jr.cursor.last} \cup {f.seq : f \in jr.events}
    <3>4. Target \in S /\ \A n \in S : n \in Nat /\ n <= Target
      BY <3>2, <3>3
    <3> HIDE DEF S
    <3>5. Max(S) = Target
      BY <2>2, <3>4, MaxIs
    <3>6. NextSequence = e.seq
      BY <2>2, <2>3, <3>5 DEF NextSequence, S
    <3>7. NoConflict({e})
      BY <2>2, <2>3, <3>2, <3>3 DEF NoConflict
    <3>8. WithinLimits({e})
      <4>1. IsFiniteSet(jr.events)
        BY <1>1 DEF BridgeInv, BridgeTypeOK
      <4>2. IsFiniteSet(jr.events \ jr.acked)
        BY <4>1, FS_Difference
      <4>3. Cardinality(jr.events) \in Nat /\ Cardinality(jr.events \ jr.acked) \in Nat
        BY <4>1, <4>2, FS_CardinalityType
      <4>4. Cardinality({e}) = 1
        BY FS_Singleton
      <4> QED
        BY <1>1, <4>3, <4>4, BridgeAssumption DEF WithinLimits
    <3> QED
      BY <2>3, <3>6, <3>7, <3>8 DEF TerminalAccepts, e
  <2> QED
    BY <2>4, <2>5
<1>2. BridgeInv => DetachRecordable
  BY <1>1 DEF DetachRecordable
<1> QED
  BY <1>2, BridgeAlways, PTL

(* The parts of the gateway behave in the composition as they do alone, so *)
(* what is proved of each holds of it.                                     *)
THEOREM PartsOfGateway == GatewaySpec => Spec /\ AuthSpec /\ SubSpec /\ D1Spec
<1>1. GatewayInit => Init /\ AuthInit /\ SubInit /\ D1Init
  BY DEF GatewayInit
<1>2. [GatewayNext]_gatewayVars => [Next]_vars /\ [AuthNext]_authVars
                                   /\ [SubNext]_subVars /\ [D1Next]_d1Vars
  BY DEF GatewayNext, gatewayVars
<1> QED
  BY <1>1, <1>2, PTL DEF GatewaySpec, Spec, AuthSpec, SubSpec, D1Spec
=============================================================================
