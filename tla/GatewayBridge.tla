---------------------------- MODULE GatewayBridge ----------------------------
(***************************************************************************)
(* The read-only observer of a gateway session: FleetGatewayBridge and its *)
(* SQLite journal (scripts/pd_fleet/fleet_gateway_bridge.py) against the   *)
(* protocol double FakeGateway (scripts/pd_fleet/fake_gateway.py).         *)
(*                                                                         *)
(* One association is followed.  Several bridges (Observers) of the same   *)
(* observer identity share one journal file.  The gateway answers a call   *)
(* in one locked step; the answer is validated and stored in one later     *)
(* transaction, and between the two anything may happen: another bridge    *)
(* stores its own answer, the session is revoked, the gateway restarts or  *)
(* the bridge dies and its answer is lost.                                 *)
(***************************************************************************)
EXTENDS Naturals, Sequences, FiniteSets, FiniteSetsExt

CONSTANTS Observers,    \* bridges of one observer identity
          Tickets,      \* activation tickets
          Retention,    \* events the gateway keeps (FakeGateway.retention)
          MaxEvents,    \* journal_event_limit
          MaxPending,   \* journal_pending_limit
          TTL,          \* clock ticks a cursor, a ticket and a silence last
          MaxSeq,       \* bound: events of one stream
          MaxNow,       \* bound: clock ticks
          MaxEpochs     \* bound: streams the gateway ever opens

ASSUME BridgeAssumption ==
    /\ Retention \in Nat \ {0} /\ TTL \in Nat \ {0}
    /\ MaxEvents \in Nat \ {0} /\ MaxPending \in Nat \ {0}
    /\ {MaxSeq, MaxNow, MaxEpochs} \subseteq Nat

VARIABLES
    now,      \* the clock
    epochs,   \* the gateway's epoch counter; it survives a reset
    gw,       \* the association at the gateway, or NoSession
    tickets,  \* gateway: ticket -> NoTicket or its record
    conn,     \* the bridge whose connection is of the current generation
    reply,    \* bridge -> the answer it holds and has not stored yet
    jr,       \* the journal: association row, event rows, acks, cursor row
    lost,     \* an answer died with its bridge or found the journal full (history)
    skipped   \* some replay window started beyond the journal (history)

vars == <<now, epochs, gw, tickets, conn, reply, jr, lost, skipped>>

NoOne == "none"
NoSession == [epoch |-> 0, log |-> <<>>, status |-> "unknown", seen |-> 0]
NoTicket == [at |-> 0, op |-> "unissued"]
Idle == [kind |-> "idle"]
NoCursor == [last |-> 0, at |-> 0]
NoRow == [epoch |-> 0, seq |-> 0, status |-> "unknown"]

TerminalStatuses == {"detached", "ended"}
Revoked == gw.status \in TerminalStatuses

-----------------------------------------------------------------------------
(* The gateway.                                                            *)

\* SessionSnapshot of the association as it is now.
Snap(g) == [epoch |-> g.epoch, seq |-> Len(g.log), status |-> g.status]

\* _append: the next sequence number; an event is identified by its epoch,
\* its sequence and its type.
Append1(g, type) == [g EXCEPT !.log = Append(@, type)]
Event(g, n) == [epoch |-> g.epoch, seq |-> n, type |-> g.log[n]]

\* What is left of the stream after `del s.events[:-retention]`.
Floor(g) == IF Len(g.log) > Retention THEN Len(g.log) - Retention ELSE 0
EventsAfter(g, after, limit) ==
    LET first == Max({after, Floor(g)}) + 1
        last  == Min({Len(g.log), first + limit - 1})
    IN  [i \in 1..(IF last < first THEN 0 ELSE last - first + 1) |->
            Event(g, first + i - 1)]

Expired(at) == now >= at + TTL

\* Authenticated calls need the connection of the latest generation and a
\* known association that has not been revoked.
Reachable(o) == conn = o /\ reply[o] = Idle
Observable(o) == Reachable(o) /\ gw # NoSession /\ ~Revoked

-----------------------------------------------------------------------------
(* Validation of an answer, before anything is stored.                     *)

\* Mutant: events only have to be in order, not contiguous.
ValidStreamOrdered(r) ==
    /\ r.snap.seq >= r.expected
    /\ \A i \in DOMAIN r.events : r.events[i].seq >= r.expected + i
    /\ r.events # <<>> => r.snap.seq >= r.events[Len(r.events)].seq

\* _validate_stream: the events follow the expected sequence one by one, the
\* snapshot is not behind them and the cursor is exactly at their end.
ValidStream(r) ==
    /\ r.snap.seq >= r.expected
    /\ \A i \in DOMAIN r.events : r.events[i].seq = r.expected + i
    /\ r.events # <<>> => r.snap.seq >= r.events[Len(r.events)].seq
    /\ r.cursor # NoCursor =>
           r.cursor.last = IF r.events # <<>> THEN r.events[Len(r.events)].seq
                           ELSE r.expected

\* _validate_cursor_binding on the cursor that came back.
FreshCursor(c) == c = NoCursor \/ ~Expired(c.at)

\* Mutant: the row is matched by session, not by stream epoch.
SameStreamBySession(epoch) == jr.row = NoRow \/ jr.row.epoch # 0

\* Checks of the association row: the journal follows one stream for ever.
SameStream(epoch) == jr.row = NoRow \/ jr.row.epoch = epoch

\* sequence_identity_conflict: a stored sequence keeps its event.
NoConflict(events) ==
    \A e \in events : \A f \in jr.events : e.seq = f.seq => e = f

\* journal_event_limit and journal_pending_limit, checked before each insert.
WithinLimits(new) ==
    new # {} => /\ Cardinality(jr.events) + Cardinality(new) <= MaxEvents
                /\ Cardinality(jr.events \ jr.acked) + Cardinality(new) <= MaxPending

Arrived(r) == {r.events[i] : i \in DOMAIN r.events}

\* _association: an answer older than the row, or a live status after a
\* terminal one, leaves the row as it is.
Effective(old, new) ==
    IF old # NoRow /\ (\/ old.seq > new.seq
                       \/ old.status \in TerminalStatuses
                             /\ new.status \notin TerminalStatuses)
    THEN old ELSE new

\* ingest: association, events, outbox and cursor in one transaction; an
\* event that is already stored is skipped, its acknowledgement untouched.
Ingested(r) ==
    [row    |-> Effective(jr.row, r.snap),
     events |-> jr.events \cup Arrived(r),
     acked  |-> jr.acked,
     cursor |-> IF r.cursor = NoCursor \/ jr.cursor.last >= r.cursor.last
                THEN jr.cursor ELSE r.cursor]

IngestAccepts(r) ==
    /\ ValidStream(r) /\ FreshCursor(r.cursor)
    /\ SameStream(r.snap.epoch) /\ NoConflict(Arrived(r))
    /\ WithinLimits(Arrived(r) \ jr.events)

\* Mutant: only the cursor tells how far the journal is.
NextSequenceOfCursor == jr.cursor.last + 1

\* ingest_events: the detached event of a session whose snapshot the gateway
\* no longer gives.  A new one must extend everything the journal knows.
NextSequence ==
    Max({jr.row.seq, jr.cursor.last} \cup {e.seq : e \in jr.events}) + 1

TerminalAccepts(e) ==
    /\ jr.row # NoRow /\ jr.row.epoch = e.epoch
    /\ e \in jr.events \/ /\ e.seq = NextSequence
                          /\ NoConflict({e}) /\ WithinLimits({e})

TerminalIngested(e) ==
    [jr EXCEPT !.events = @ \cup {e},
               !.row = [jr.row EXCEPT !.status = "detached",
                                      !.seq = Max({jr.row.seq, e.seq})]]

-----------------------------------------------------------------------------
(* Calls: the gateway's half.  A call that the gateway refuses raises and  *)
(* changes nothing, so only the calls it answers are steps.                *)

Init ==
    /\ now = 0 /\ epochs = 0
    /\ gw = NoSession
    /\ tickets = [t \in Tickets |-> NoTicket]
    /\ conn = NoOne
    /\ reply = [o \in Observers |-> Idle]
    /\ jr = [row |-> NoRow, events |-> {}, acked |-> {}, cursor |-> NoCursor]
    /\ lost = FALSE /\ skipped = FALSE

\* connect: the newest connection outdates every older one.
Connect(o) ==
    /\ conn # o
    /\ conn' = o
    /\ UNCHANGED <<now, epochs, gw, tickets, reply, jr, lost, skipped>>

\* close: even an outdated connection disconnects the whole identity.
Close(o) ==
    /\ reply[o] = Idle /\ conn # NoOne
    /\ conn' = NoOne
    /\ UNCHANGED <<now, epochs, gw, tickets, reply, jr, lost, skipped>>

IssueActivation(o, t) ==
    /\ Reachable(o) /\ tickets[t] = NoTicket
    /\ tickets' = [tickets EXCEPT ![t] = [at |-> now, op |-> NoOne]]
    /\ UNCHANGED <<now, epochs, gw, conn, reply, jr, lost, skipped>>

\* consume_activation: one use, repeatable by the operation that used it (the
\* key of attach defaults to the ticket, so every bridge has the same one);
\* the first use opens the stream, a later ticket finds the association.
Consume(o, t) ==
    /\ Reachable(o) /\ tickets[t] # NoTicket /\ ~Expired(tickets[t].at)
    /\ tickets' = [tickets EXCEPT ![t].op = "attach"]
    /\ IF gw # NoSession
         THEN UNCHANGED <<gw, epochs>>
         ELSE /\ epochs < MaxEpochs
              /\ epochs' = epochs + 1
              /\ gw' = [epoch |-> epochs + 1, log |-> <<"registered">>,
                        status |-> "observing", seen |-> now]
    /\ reply' = [reply EXCEPT ![o] = [kind |-> "attached"]]
    /\ UNCHANGED <<now, conn, jr, lost, skipped>>

Answer(o, events, expected, cursor) ==
    reply' = [reply EXCEPT ![o] =
                 [kind |-> "stream", snap |-> Snap(gw'), events |-> events,
                  expected |-> expected, cursor |-> cursor]]

\* The second call of attach.  Refused (the session was revoked in between or
\* the connection was lost), attach raises with the ticket already used.
AttachSnapshot(o) ==
    /\ reply[o].kind = "attached"
    /\ UNCHANGED gw
    /\ IF conn = o /\ gw # NoSession /\ ~Revoked
         THEN Answer(o, <<>>, 0, NoCursor)
         ELSE reply' = [reply EXCEPT ![o] = Idle]
    /\ UNCHANGED <<now, epochs, tickets, conn, jr, lost, skipped>>

Snapshot(o) ==
    /\ Observable(o) /\ jr.row # NoRow
    /\ UNCHANGED gw
    /\ Answer(o, <<>>, 0, NoCursor)
    /\ UNCHANGED <<now, epochs, tickets, conn, jr, lost, skipped>>

\* Cursors a caller can hold: none, the stored one or an older one.
Cursors == {NoCursor} \cup {[last |-> n, at |-> jr.cursor.at] : n \in 1..jr.cursor.last}

\* subscribe, and the second half of reconcile (which passes jr.cursor).
Subscribe(o, cursor, limit) ==
    /\ Observable(o) /\ jr.row # NoRow
    /\ UNCHANGED gw
    /\ cursor # NoCursor => /\ ~Expired(cursor.at)
                            /\ jr.row.epoch = gw.epoch
                            /\ cursor.last \in Floor(gw)..(Len(gw.log) - 1)
    /\ LET events == EventsAfter(gw, cursor.last, limit)
       IN  Answer(o, events, cursor.last,
                  [last |-> events[Len(events)].seq, at |-> now])
    /\ UNCHANGED <<now, epochs, tickets, conn, jr, lost, skipped>>

\* How far the journal is complete.
Complete == CHOOSE n \in 0..(MaxSeq + 1) :
                /\ 1..n \subseteq {e.seq : e \in jr.events}
                /\ (n + 1) \notin {e.seq : e \in jr.events}

\* replay without a cursor: the caller names any window of the stream.
Replay(o, after, limit) ==
    /\ Observable(o) /\ jr.row # NoRow /\ jr.row.epoch = gw.epoch
    /\ after \in Floor(gw)..(Len(gw.log) - 1)
    /\ UNCHANGED gw
    /\ LET events == EventsAfter(gw, after, limit)
       IN  Answer(o, events, after, [last |-> events[Len(events)].seq, at |-> now])
    /\ skipped' = (skipped \/ after > Complete)
    /\ UNCHANGED <<now, epochs, tickets, conn, jr, lost>>

\* heartbeat: the gateway appends the event and answers with it; the bridge
\* takes the snapshot's own sequence as the expected one.
Heartbeat(o) ==
    /\ Observable(o) /\ jr.row # NoRow /\ Len(gw.log) < MaxSeq
    /\ gw' = [Append1(gw, "heartbeat") EXCEPT !.seen = now]
    /\ Answer(o, <<Event(gw', Len(gw'.log))>>, Len(gw'.log) - 1, NoCursor)
    /\ UNCHANGED <<now, epochs, tickets, conn, jr, lost, skipped>>

\* detach: revoke once; a repeated call finds the event in the retained ones.
Detach(o) ==
    /\ Reachable(o) /\ gw # NoSession /\ gw.status # "ended" /\ Len(gw.log) < MaxSeq + 1
    /\ gw' = IF Revoked THEN gw
             ELSE [Append1(gw, "detached") EXCEPT !.status = "detached"]
    /\ reply' = [reply EXCEPT ![o] = [kind |-> "terminal",
                                      event |-> Event(gw', Len(gw'.log))]]
    /\ UNCHANGED <<now, epochs, tickets, conn, jr, lost, skipped>>

-----------------------------------------------------------------------------
(* Calls: the bridge's half, and what happens around them.                 *)

Store(o) ==
    /\ reply[o].kind = "stream"
    /\ jr' = IF IngestAccepts(reply[o]) THEN Ingested(reply[o]) ELSE jr
    /\ lost' = (lost \/ ~WithinLimits(Arrived(reply[o]) \ jr.events))
    /\ reply' = [reply EXCEPT ![o] = Idle]
    /\ UNCHANGED <<now, epochs, gw, tickets, conn, skipped>>

\* The journal checks the event and then opens its write transaction, both
\* under the store's lock; a write of another process in between, which the
\* second check of epoch, limits and identity is for, is not modelled.
StoreTerminal(o) ==
    /\ reply[o].kind = "terminal"
    /\ jr' = IF TerminalAccepts(reply[o].event)
             THEN TerminalIngested(reply[o].event) ELSE jr
    /\ reply' = [reply EXCEPT ![o] = Idle]
    /\ UNCHANGED <<now, epochs, gw, tickets, conn, lost, skipped>>

Ack(e) ==
    /\ e \in jr.events
    /\ jr' = [jr EXCEPT !.acked = @ \cup {e}]
    /\ UNCHANGED <<now, epochs, gw, tickets, conn, reply, lost, skipped>>

\* The bridge dies with an answer in hand; the journal is on disk.
Die(o) ==
    /\ reply[o] # Idle
    /\ reply' = [reply EXCEPT ![o] = Idle]
    /\ conn' = IF conn = o THEN NoOne ELSE conn
    /\ lost' = TRUE
    /\ UNCHANGED <<now, epochs, gw, tickets, jr, skipped>>

ExpireStale ==
    /\ gw # NoSession /\ ~Revoked /\ Expired(gw.seen) /\ Len(gw.log) < MaxSeq
    /\ gw' = [Append1(gw, "ended") EXCEPT !.status = "ended"]
    /\ UNCHANGED <<now, epochs, tickets, conn, reply, jr, lost, skipped>>

\* reset: the gateway restarts and knows nothing any more.
Reset ==
    /\ gw # NoSession \/ conn # NoOne
    /\ gw' = NoSession /\ conn' = NoOne
    /\ tickets' = [t \in Tickets |-> NoTicket]
    /\ UNCHANGED <<now, epochs, reply, jr, lost, skipped>>

Tick ==
    /\ now < MaxNow
    /\ now' = now + 1
    /\ UNCHANGED <<epochs, gw, tickets, conn, reply, jr, lost, skipped>>

Next ==
    \/ \E o \in Observers :
          \/ Connect(o) \/ Close(o) \/ AttachSnapshot(o) \/ Snapshot(o)
          \/ Heartbeat(o) \/ Detach(o) \/ Store(o) \/ StoreTerminal(o) \/ Die(o)
          \/ \E t \in Tickets : IssueActivation(o, t) \/ Consume(o, t)
          \/ \E limit \in {1, MaxSeq + 1} :
                \/ \E c \in Cursors : Subscribe(o, c, limit)
                \/ \E n \in 0..MaxSeq : Replay(o, n, limit)
    \/ \E e \in jr.events : Ack(e)
    \/ ExpireStale \/ Reset \/ Tick

Spec == Init /\ [][Next]_vars

-----------------------------------------------------------------------------
(* Properties.                                                             *)

\* The journal holds the events of one stream only, each exactly as the
\* gateway appended it, even when the gateway restarted and the same
\* association is activated again under a new epoch (_association,
\* sequence_identity_conflict).
OneStream ==
    \A e \in jr.events :
        /\ e.epoch = jr.row.epoch
        /\ e.epoch = gw.epoch => e.seq <= Len(gw.log) /\ gw.log[e.seq] = e.type

\* As long as no caller asks for a window beyond the journal, the stored
\* cursor never passes an event that is not in the journal: retention at the
\* gateway and lost answers surface as refusals, not as silent gaps
\* (_validate_stream, ingest).
CursorCovered ==
    ~skipped => 1..jr.cursor.last \subseteq {e.seq : e \in jr.events}

\* When the session has been revoked by detach and every answer reached a
\* journal that had room for it, the journal is at most one event behind once
\* nothing is in flight, so a repeated detach is accepted and the association
\* can be recorded as detached; late answers of other bridges never close
\* that door (ingest_events, _association).
DetachRecordable ==
    (/\ gw.status = "detached" /\ gw.epoch = jr.row.epoch
     /\ ~lost /\ \A o \in Observers : reply[o] = Idle
     /\ Cardinality(jr.events) < MaxEvents
     /\ Cardinality(jr.events \ jr.acked) < MaxPending)
        => TerminalAccepts(Event(gw, Len(gw.log)))

=============================================================================
