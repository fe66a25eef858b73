------------------------- MODULE GatewaySubscription -------------------------
(***************************************************************************)
(* Delivery of a stream of events to its subscribers                       *)
(* (scripts/pd_fleet/gateway_subscription.py): history with retention,     *)
(* cursors, the outbox of delivered and unacknowledged events, heartbeats  *)
(* and tombstones.                                                         *)
(*                                                                         *)
(* Every operation of GatewaySubscriptionStore runs under one lock and is  *)
(* one step; callers read the clock before they get the lock (SampledTime).*)
(* The history is what lies between the retention floor and the ingestion  *)
(* cursor.  A subscriber's stream epoch is that of its association; audit  *)
(* and identifiers are left out.                                           *)
(***************************************************************************)
EXTENDS Naturals, FiniteSets, FiniteSetsExt

CONSTANTS Subscribers,    \* subscriber_ref
          IdleLimit,      \* IDLE_TTL_S
          GraceLimit,     \* GRACE_S
          CursorLimit,    \* CURSOR_TTL_S
          Delay,          \* how long a call may wait for the lock
          MaxIngested,    \* bound: events of the stream
          MaxBeats,       \* bound: heartbeat sequence
          MaxTime         \* bound: clock ticks

ASSUME SubscriptionAssumption ==
    {IdleLimit, GraceLimit, CursorLimit, Delay, MaxIngested, MaxBeats, MaxTime} \subseteq Nat

VARIABLES
    time,      \* the callers' clock
    ingested,  \* _ingestion_cursor
    floor,     \* _retention_floor
    subs,      \* _subscriptions: subscriber -> NoSubscription or its record
    outbox,    \* _outbox: subscriber -> delivered, unacknowledged sequences
    tombs,     \* _tombstones
    seen       \* subscriber -> sequences delivered to and acknowledged by it (history)

subVars == <<time, ingested, floor, subs, outbox, tombs, seen>>

NoSubscription == [state |-> "unknown"]
Known(s) == subs[s] # NoSubscription /\ s \notin tombs
History == (floor + 1)..ingested
SampledTime == {t \in 0..time : t + Delay >= time}

-----------------------------------------------------------------------------

SubInit ==
    /\ time = 0 /\ ingested = 0 /\ floor = 0
    /\ subs = [s \in Subscribers |-> NoSubscription]
    /\ outbox = [s \in Subscribers |-> {}]
    /\ tombs = {}
    /\ seen = [s \in Subscribers |-> {}]

\* subscribe: from a snapshot of the stream; a live reference starts over, a
\* detached one is refused.
SubscribeFrom(s, snapshot, at) ==
    /\ s \notin tombs
    /\ subs' = [subs EXCEPT ![s] =
           [state |-> "observing", snapshot |-> snapshot, cursor |-> snapshot,
            issued |-> at, beat |-> at, beatSeq |-> 0, upto |-> 0]]
    /\ outbox' = [outbox EXCEPT ![s] = {}]
    /\ seen' = [seen EXCEPT ![s] = {}]
    /\ UNCHANGED <<time, ingested, floor, tombs>>

\* append: the next sequence only, and nothing at or below the floor.
AppendNext ==
    /\ ingested < MaxIngested /\ ingested + 1 > floor
    /\ ingested' = ingested + 1
    /\ UNCHANGED <<time, floor, subs, outbox, tombs, seen>>

\* prune: the caller names any sequence, also one the stream has not reached.
Prune(upTo) ==
    /\ floor' = Max({floor, upTo})
    /\ UNCHANGED <<time, ingested, subs, outbox, tombs, seen>>

\* _derive_state: both transitions in one call when the silence was long.
Derived(sub, at) ==
    LET idle  == IF at > sub.beat THEN at - sub.beat ELSE 0
        first == IF sub.state = "observing" /\ idle > IdleLimit
                 THEN "reconnecting" ELSE sub.state
    IN  IF first = "reconnecting" /\ idle > IdleLimit + GraceLimit
        THEN "stale" ELSE first

\* heartbeat: derives the state first, so a stale subscriber stays stale; a
\* repeated or older heartbeat counts for nothing.
HeartbeatOf(s, n, at) ==
    /\ Known(s)
    /\ LET state == Derived(subs[s], at)
       IN  subs' = [subs EXCEPT ![s] =
               IF state \in {"observing", "reconnecting"} /\ n > @.beatSeq
               THEN [@ EXCEPT !.state = "observing", !.beat = at, !.beatSeq = n]
               ELSE [@ EXCEPT !.state = state]]
    /\ UNCHANGED <<time, ingested, floor, outbox, tombs, seen>>

EvaluateState(s, at) ==
    /\ subs[s] # NoSubscription
    /\ subs' = [subs EXCEPT ![s].state = Derived(subs[s], at)]
    /\ UNCHANGED <<time, ingested, floor, outbox, tombs, seen>>

\* The refusals of read after those of unknown references and other epochs:
\* association_stale, cursor_expired, replay_gap.
Servable(s, state, at) ==
    /\ state # "stale"
    /\ at <= subs[s].issued + CursorLimit
    /\ subs[s].cursor >= floor

\* read: everything after the cursor that is in the history, also what was
\* delivered before.  A refused read keeps the state it derived.
Read(s, at) ==
    /\ Known(s)
    /\ LET state  == Derived(subs[s], at)
           events == {n \in History : n > subs[s].cursor}
           served == Servable(s, state, at) /\ events # {}
       IN  /\ subs' = [subs EXCEPT ![s].state = state,
                                   ![s].upto = IF served THEN Max({@} \cup events) ELSE @]
           /\ outbox' = [outbox EXCEPT ![s] = IF served THEN @ \cup events ELSE @]
    /\ UNCHANGED <<time, ingested, floor, tombs, seen>>

\* Mutant: the cursor follows the highest acknowledgement.
AdvanceToHighest(sub, box) == sub.upto

\* The cursor moves on over everything delivered and no longer in the outbox.
Advanced(sub, box) ==
    IF sub.cursor >= sub.upto THEN sub.cursor
    ELSE Min({n \in sub.cursor..sub.upto : n = sub.upto \/ n + 1 \in box})

\* ack: separate from read, in any order, also from a stale subscriber.
AckDelivered(s, n) ==
    /\ Known(s) /\ n \in outbox[s]
    /\ outbox' = [outbox EXCEPT ![s] = @ \ {n}]
    /\ subs' = [subs EXCEPT ![s].cursor = Advanced(subs[s], outbox'[s])]
    /\ seen' = [seen EXCEPT ![s] = @ \cup {n}]
    /\ UNCHANGED <<time, ingested, floor, tombs>>

\* detach: for good, with whatever was pending.
DetachSubscriber(s) ==
    /\ subs[s] # NoSubscription
    /\ tombs' = tombs \cup {s}
    /\ subs' = [subs EXCEPT ![s].state = "detached"]
    /\ outbox' = [outbox EXCEPT ![s] = {}]
    /\ UNCHANGED <<time, ingested, floor, seen>>

TimeTick ==
    /\ time < MaxTime
    /\ time' = time + 1
    /\ UNCHANGED <<ingested, floor, subs, outbox, tombs, seen>>

SubNext ==
    \/ \E s \in Subscribers :
          \/ DetachSubscriber(s)
          \/ \E n \in 1..MaxIngested : AckDelivered(s, n)
          \/ \E at \in SampledTime :
                \/ \E n \in 0..ingested : SubscribeFrom(s, n, at)
                \/ \E n \in 1..MaxBeats : HeartbeatOf(s, n, at)
                \/ EvaluateState(s, at) \/ Read(s, at)
    \/ AppendNext \/ \E n \in 1..MaxIngested : Prune(n)
    \/ TimeTick

SubSpec == SubInit /\ [][SubNext]_subVars

-----------------------------------------------------------------------------
(* Properties.                                                             *)

\* No silent gap: whatever a cursor has passed since its snapshot was
\* delivered to that subscriber and acknowledged by it, with acknowledgements
\* in any order, repeated reads and a retention floor that overtakes the
\* cursor (read, ack, prune).
CursorIsEarned ==
    \A s \in Subscribers : subs[s] # NoSubscription =>
        (subs[s].snapshot + 1)..subs[s].cursor \subseteq seen[s]

=============================================================================
