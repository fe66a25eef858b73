----------------------------- MODULE ActivityBus -----------------------------
(***************************************************************************)
(* The activity bus: activity_emit.py reads the sessions and heartbeats of *)
(* the gateway's database, appends an event for each that moved on since   *)
(* its watermark to a file of lines, and then writes the watermarks;       *)
(* plan_cockpit_sync.py folds the lines into one row per agent.            *)
(*                                                                         *)
(* No lock is taken: several emitters may run at a time, each may be       *)
(* killed, and state.json is truncated before it is written.  An append is *)
(* one write.  All sessions have the same source, so they are one agent;   *)
(* a profile of the gateway has one backend and is an agent of its own.    *)
(* There are no more of them than the limits of the queries, 20 and 8.     *)
(* Of an event its run, its time and its status are kept.                  *)
(***************************************************************************)
EXTENDS Integers, Sequences, SequencesExt

CONSTANTS
    Sessions, Gateways,   \* what the database knows
    Emitters,             \* processes that emit
    Window,               \* WINDOW_HOURS
    RunningFresh,         \* RUNNING_FRESH_S
    HeartbeatFresh,       \* HEARTBEAT_FRESH_S
    StatusFresh,          \* STATUS_FRESH_S
    MaxRead,              \* the last lines that are aggregated: 1000
    MaxWall, MaxLines     \* bounds on the clock and on the bus

ASSUME BusAssumption ==
    /\ Sessions \cap Gateways = {} /\ "hermes" \notin Gateways
    /\ IsFiniteSet(Sessions) /\ IsFiniteSet(Gateways)
    /\ {Window, RunningFresh, HeartbeatFresh, StatusFresh, MaxRead, MaxWall, MaxLines} \subseteq Nat

VARIABLES
    wall,      \* the time
    db,        \* session or gateway -> when it began, was last active, ended; 0: not yet
    bus,       \* the lines of events.jsonl
    cut,       \* events.jsonl ends in a partial line
    marks,     \* state.json: what it holds, and whether it is JSON
    emitter    \* where each emitter is, its fresh events and its watermarks

busVars == <<wall, db, bus, cut, marks, emitter>>

Runs == Sessions \cup Gateways
AgentOf(run) == IF run \in Sessions THEN "hermes" ELSE run
Event(run, status) == [run |-> run, ts |-> db[run].active, status |-> status, legible |-> TRUE]

NoMarks == [r \in Runs |-> 0]
Resting == [at |-> "read", fresh |-> <<>>, marks |-> NoMarks]

BusInit ==
    /\ wall = 1
    /\ db = [r \in Runs |-> [began |-> 0, active |-> 0, ended |-> 0]]
    /\ bus = <<>> /\ cut = FALSE
    /\ marks = [whole |-> FALSE, of |-> NoMarks]
    /\ emitter = [e \in Emitters |-> Resting]

-----------------------------------------------------------------------------
(* The gateway writes its database.                                        *)

TimePasses ==
    /\ wall < MaxWall
    /\ wall' = wall + 1
    /\ UNCHANGED <<db, bus, cut, marks, emitter>>

\* A session begins or has a message; a backend has a heartbeat.
Activity(r) ==
    /\ db[r].ended = 0 /\ db[r].active < wall
    /\ db' = [db EXCEPT ![r].active = wall, ![r].began = IF @ = 0 THEN wall ELSE @]
    /\ UNCHANGED <<wall, bus, cut, marks, emitter>>

SessionEnds(s) ==
    /\ db[s].began > 0 /\ db[s].ended = 0
    /\ db' = [db EXCEPT ![s].ended = wall]
    /\ UNCHANGED <<wall, bus, cut, marks, emitter>>

-----------------------------------------------------------------------------
(* emit                                                                    *)

InOrder(S, key(_)) == {q \in SetToSeqs(S) : \A i, j \in DOMAIN q : i < j => key(q[i]) >= key(q[j])}

\* A state.json that is not there or is no JSON counts as no watermarks.
Loaded == IF marks.whole THEN marks.of ELSE NoMarks

\* What moved on since its watermark.  The events are selected before they
\* are put in order and not after, which gives the same sequences.
Fresh(runs) == {r \in runs : db[r].active > Loaded[r]}

\* Sessions whose last message is in the window, the last begun or ended
\* first.  The time of the event is that of the message, not of the end.
SessionEvents ==
    LET recency(s) == IF db[s].ended > 0 THEN db[s].ended ELSE db[s].began
        status(s) == IF db[s].ended > 0 THEN "done"
                     ELSE IF wall - db[s].active <= RunningFresh THEN "running" ELSE "waiting"
        recent == {s \in Sessions : db[s].began > 0 /\ db[s].active >= wall - Window}
    IN {[i \in DOMAIN q |-> Event(q[i], status(q[i]))] : q \in InOrder(Fresh(recent), recency)}

GatewayEvents ==
    LET beat(g) == db[g].active
        known == {g \in Gateways : db[g].began > 0}
    IN {[i \in DOMAIN q |-> Event(q[i], "")] : q \in InOrder(Fresh(known), beat)}

Advanced(of, events) ==
    [r \in Runs |-> IF \E i \in DOMAIN events : events[i].run = r
                    THEN events[CHOOSE i \in DOMAIN events : events[i].run = r].ts ELSE of[r]]

\* Mutant: the watermarks are written before the events.
AfterMarksFirst ==
    [read |-> "truncate", truncate |-> "fill", fill |-> "append", append |-> "read"]
\* What an emitter does next.
After == [read |-> "append", append |-> "truncate", truncate |-> "fill", fill |-> "read"]

Read(e) ==
    \E sessions \in SessionEvents, gateways \in GatewayEvents :
        LET fresh == sessions \o gateways
        IN /\ emitter[e].at = "read"
           /\ fresh # <<>> /\ Len(bus) + Len(fresh) <= MaxLines
           /\ emitter' = [emitter EXCEPT ![e] = [at |-> After.read, fresh |-> fresh,
                                                 marks |-> Advanced(Loaded, fresh)]]
           /\ UNCHANGED <<wall, db, bus, cut, marks>>

Moved(e, from) ==
    emitter' = [emitter EXCEPT ![e] = IF After[from] = "read" THEN Resting ELSE [@ EXCEPT !.at = After[from]]]

\* Lines after a partial one: the first is glued to it, and is no JSON.
Written(lines) ==
    bus \o [i \in DOMAIN lines |-> [lines[i] EXCEPT !.legible = ~(cut /\ i = 1)]]

AppendEvents(e) ==
    /\ emitter[e].at = "append" /\ Len(bus) + Len(emitter[e].fresh) <= MaxLines
    /\ bus' = Written(emitter[e].fresh)
    /\ cut' = FALSE
    /\ Moved(e, "append")
    /\ UNCHANGED <<wall, db, marks>>

\* Killed within the write: some lines, then a partial one.
AppendCutShort(e) ==
    /\ emitter[e].at = "append"
    /\ \E n \in 0 .. Len(emitter[e].fresh) - 1 :
          bus' = Written(SubSeq(emitter[e].fresh, 1, n))
    /\ cut' = TRUE
    /\ emitter' = [emitter EXCEPT ![e] = Resting]
    /\ UNCHANGED <<wall, db, marks>>

TruncateState(e) ==
    /\ emitter[e].at = "truncate"
    /\ marks' = [whole |-> FALSE, of |-> NoMarks]
    /\ Moved(e, "truncate")
    /\ UNCHANGED <<wall, db, bus, cut>>

\* What another emitter has written meanwhile is overwritten, or what is
\* longer of it remains at the end, and the file is no JSON.
FillState(e) ==
    /\ emitter[e].at = "fill"
    /\ \/ marks' = [whole |-> TRUE, of |-> emitter[e].marks]
       \/ marks.whole /\ marks' = [whole |-> FALSE, of |-> NoMarks]
    /\ Moved(e, "fill")
    /\ UNCHANGED <<wall, db, bus, cut>>

Killed(e) ==
    /\ emitter[e].at # "read"
    /\ emitter' = [emitter EXCEPT ![e] = Resting]
    /\ UNCHANGED <<wall, db, bus, cut, marks>>

BusNext ==
    \/ TimePasses
    \/ \E r \in Runs : Activity(r)
    \/ \E s \in Sessions : SessionEnds(s)
    \/ \E e \in Emitters :
          \/ Read(e) \/ AppendEvents(e) \/ AppendCutShort(e)
          \/ TruncateState(e) \/ FillState(e) \/ Killed(e)

BusSpec == BusInit /\ [][BusNext]_busVars

-----------------------------------------------------------------------------
(* _hermes_agents_from_events                                              *)

Rank(status) ==
    CASE status = "waiting" -> 3 [] status = "running" -> 2 [] status = "done" -> 1 [] OTHER -> -1

LastLines == SubSeq(bus, IF Len(bus) > MaxRead THEN Len(bus) - MaxRead + 1 ELSE 1, Len(bus))

\* A line that is no JSON or is another agent's is passed over.
Counts(ev, agent) == ev.legible /\ AgentOf(ev.run) = agent

\* Mutant: any status replaces the one before it.
ReplacesAlways(ev, row) == ev.status # ""
Replaces(ev, row) == ev.status # "" /\ (ev.ts >= row.ts \/ Rank(ev.status) > Rank(row.status))

NoRow == [ts |-> -1, status |-> "none"]

Row(lines, agent) ==
    LET upTo[i \in 0 .. Len(lines)] ==
            IF i = 0 THEN NoRow
            ELSE LET row == upTo[i - 1]
                     ev == lines[i]
                 IN IF ~Counts(ev, agent) THEN row
                    ELSE IF row = NoRow THEN [ts |-> ev.ts, status |-> ev.status]
                    ELSE [ts |-> IF ev.ts > row.ts THEN ev.ts ELSE row.ts,
                          status |-> IF Replaces(ev, row) THEN ev.status ELSE row.status]
    IN upTo[Len(lines)]

\* What the row of an agent shows now.
Shown(row) ==
    LET age == wall - row.ts
    IN IF row.status = "" THEN IF age <= HeartbeatFresh THEN "ok" ELSE "stale"
       ELSE IF row.status # "done" /\ age > StatusFresh THEN "stale" ELSE row.status

Agents == {AgentOf(r) : r \in Runs}

-----------------------------------------------------------------------------
(* Properties                                                              *)

\* A watermark in state.json keeps an event from being emitted; however
\* emitters overlap, lose their watermarks or are killed, an event of that
\* run that is as recent was written to the bus before: nothing is
\* suppressed that nobody had written.
WatermarkCovered ==
    marks.whole =>
        \A r \in Runs : marks.of[r] > 0 =>
            \E i \in DOMAIN bus : bus[i].run = r /\ bus[i].ts >= marks.of[r]

\* The same, and a reader of the bus sees that event ("one contract event per
\* line").
WatermarkLegible ==
    marks.whole =>
        \A r \in Runs : marks.of[r] > 0 =>
            \E i \in DOMAIN bus : bus[i].legible /\ bus[i].run = r /\ bus[i].ts >= marks.of[r]

\* Where the lines of an agent are, and the newest of them, the last one if
\* there are several.
LinesOf(agent) == {i \in DOMAIN LastLines : Counts(LastLines[i], agent)}

Newest(agent) ==
    CHOOSE i \in LinesOf(agent) :
        \A j \in LinesOf(agent) :
            \/ LastLines[j].ts < LastLines[i].ts
            \/ LastLines[j].ts = LastLines[i].ts /\ j <= i

\* In whatever order the lines of an agent's sessions are on the bus, and
\* however often: an agent is shown as done only if its newest event says
\* so, and its row has the time of that event.
DoneIsNewest ==
    \A agent \in Agents :
        LET row == Row(LastLines, agent)
            newest == LastLines[Newest(agent)]
        IN LinesOf(agent) # {} =>
              /\ Shown(row) = "done" => newest.status = "done"
              /\ row.ts = newest.ts

\* "Most recent event wins; rank only breaks ties on the same timestamp."
MostRecentWins ==
    \A agent \in Agents :
        LET row == Row(LastLines, agent)
        IN LinesOf(agent) # {} =>
              \E i \in LinesOf(agent) : LastLines[i].ts = row.ts /\ LastLines[i].status = row.status
=============================================================================
