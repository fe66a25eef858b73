------------------------------ MODULE EventLog ------------------------------
(***************************************************************************)
(* EventLog (events.py) of one run and the recorders that append lifecycle *)
(* events to it (lifecycle_events.py).  The log is one file of lines with  *)
(* checksums, appended under a lock and read without it.  A recorder picks *)
(* the sequence number itself, before the lock, from whatever it knows,    *)
(* and may try the same event again when it does not know whether the      *)
(* first attempt got through: so any event may be appended at any time.    *)
(* A write may be cut short: then it leaves a partial line, and every      *)
(* later read and append raises.                                           *)
(*                                                                         *)
(* An event is the task and its transition (or a checkpoint: no task), the *)
(* sequence, the owner epoch and the size of its line.  event_id is a hash *)
(* of task, sequence and kind, so it is the pair of task and sequence.     *)
(*                                                                         *)
(* A sequence is any finite number from 0 on: the whole part, its place    *)
(* among the fractions after it (0: none), and whether it is a float; 2    *)
(* and 2.0 are equal, but are not the same JSON.                           *)
(***************************************************************************)
EXTENDS TaskLifecycle, Integers, Sequences

CONSTANTS
    Tasks,         \* ids of tasks
    Moves,         \* transitions that are recorded, as <<from, to>>
    Epochs,        \* owner epochs
    Sizes,         \* sizes of a line
    MaxEvents,     \* MAX_EVENTS
    MaxBytes,      \* MAX_LOG_BYTES
    Numbers        \* the sequences recorders choose

ASSUME LogAssumption ==
    /\ Moves \subseteq {m \in States \X States : m[2] \in Transitions[m[1]]}
    /\ Sizes \subseteq Nat \ {0}
    /\ MaxEvents \in Nat /\ MaxBytes \in Nat
    /\ Numbers \subseteq [whole : Nat, part : Nat, float : BOOLEAN]
    /\ \A s \in Numbers : s.part # 0 => s.float

VARIABLES
    log,       \* the complete lines of events.jsonl
    created,   \* events.jsonl exists
    torn       \* the file ends in a partial line

logVars == <<log, created, torn>>

Checkpoint == "checkpoint"

\* What record_transition and record_checkpoint append; of the summary of a
\* checkpoint only its size is kept.
TransitionEvents ==
    [task : Tasks, move : Moves, seq : Numbers, epoch : Epochs, size : Sizes]
CheckpointEvents ==
    [task : {Checkpoint}, move : {<<>>}, seq : Numbers, epoch : Epochs, size : Sizes]
Events == TransitionEvents \cup CheckpointEvents

EventId(e) == <<e.task, e.seq>>

\* Numbers are compared by their value.
Equal(a, b) == a.whole = b.whole /\ a.part = b.part
Less(a, b) == a.whole < b.whole \/ (a.whole = b.whole /\ a.part < b.part)

Bytes(events) ==
    LET upTo[i \in 0 .. Len(events)] == IF i = 0 THEN 0 ELSE upTo[i - 1] + events[i].size
    IN upTo[Len(events)]

\* _records: a partial line, too many bytes or too many lines and it raises.
Readable == ~torn /\ Bytes(log) <= MaxBytes /\ Len(log) <= MaxEvents

\* The first records only: replay(limit).
Replay(limit) == SubSeq(log, 1, IF Len(log) < limit THEN Len(log) ELSE limit)

LogInit == log = <<>> /\ created = FALSE /\ torn = FALSE

(***************************************************************************)
(* append, under the lock.                                                 *)
(***************************************************************************)
\* No collision of ids, no sequence twice, monotonic and within the limits.
\* Lines within the line limit pass; the bytes of the file are not counted.
\* An event that is in the log already is returned and not written again.
Acceptable(e) ==
    /\ \A i \in DOMAIN log : EventId(log[i]) # EventId(e) /\ ~Equal(log[i].seq, e.seq)
    /\ log # <<>> => Less(log[Len(log)].seq, e.seq)
    /\ Len(log) < MaxEvents

AppendEvent ==
    /\ Readable
    /\ \E e \in Events : Acceptable(e) /\ log' = Append(log, e)
    /\ created' = TRUE
    /\ UNCHANGED torn

\* Killed, or the disk is full, within the write or right before it.
AppendCut ==
    /\ Readable
    /\ \E e \in Events : Acceptable(e)
    /\ created' = TRUE
    /\ torn' \in BOOLEAN
    /\ UNCHANGED log

LogNext == AppendEvent \/ AppendCut

-----------------------------------------------------------------------------
(***************************************************************************)
(* Properties                                                              *)
(***************************************************************************)
\* "entao o teto e o do leitor": what append writes, the reader can read.
AppendKeepsLogReadable == torn \/ Readable
=============================================================================
