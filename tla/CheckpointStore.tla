-------------------------- MODULE CheckpointStore --------------------------
(***************************************************************************)
(* CheckpointV2Store of checkpoint.py: the checkpoint of one run in two    *)
(* files, written by processes that take turns under a lock file and read  *)
(* by anybody without it.  A save may fail at each of its stages, and a    *)
(* process may be killed at each of them; the lock is released either way. *)
(* recover() loads, turns orphaned tasks into failed ones and saves the    *)
(* result one generation later; resume() is recover() with a summary.      *)
(*                                                                         *)
(* A body is the lifecycle of a task (of all of them, were there more: no  *)
(* operation relates two) and whether _validate_v2_nested accepts it: it   *)
(* refuses unknown fields and field names such as "token", which save()    *)
(* keeps.  "report" and "silent" are what recover_orphan looks at.         *)
(***************************************************************************)
EXTENDS TaskLifecycle, Integers

CONSTANTS
    Procs,     \* processes that use the store
    Plans,     \* plan hashes
    Bodies,    \* checkpoints that a caller may save
    MaxGen     \* bound on the generations used

ASSUME BodiesAssumption ==
    Bodies \subseteq [life : Lives(2), report : BOOLEAN, silent : BOOLEAN, clean : BOOLEAN]

ASSUME MaxGenAssumption == MaxGen \in Nat

Generations == 0 .. MaxGen

None == [gen |-> -1]

VARIABLES
    target,    \* checkpoint.json: an envelope, or None
    backup,    \* checkpoint.json.bak
    lock,      \* the holder of .checkpoint.lock, or a set with no member
    proc,      \* what each process is doing
    clean,     \* no envelope was installed that load does not accept
    acked      \* while clean, the newest envelope a save returned

ckVars == <<target, backup, lock, proc, acked, clean>>

Envelope(gen, plan, body) == [gen |-> gen, plan |-> plan, body |-> body]

(***************************************************************************)
(* _valid, _candidates and the choice that load makes.  "want" is the      *)
(* expected plan hash, or the empty set for none; an envelope of another   *)
(* plan is no candidate at all.                                            *)
(***************************************************************************)
NestedAccepted(body) == body.clean

Valid(file, want) ==
    file # None /\ NestedAccepted(file.body) /\ (want # {} => file.plan \in want)

Candidates(first, second, want) == {file \in {first, second} : Valid(file, want)}

Newest(files) ==
    IF files = {} THEN None
    ELSE CHOOSE file \in files : \A other \in files : other.gen <= file.gen

OnDisk == Newest(Candidates(target, backup, {}))

Recovered(body) ==
    [body EXCEPT !.life = RecoverOrphan(body.life, body.report, body.silent)]

Idle == [pc |-> "idle", op |-> "none", want |-> {}, floor |-> -1, first |-> None, result |-> None,
         env |-> None]

Init ==
    /\ target = None /\ backup = None
    /\ lock = {}
    /\ proc = [p \in Procs |-> Idle]
    /\ acked = None
    /\ clean = TRUE

(***************************************************************************)
(* Reading: first one file, then the other.                                *)
(***************************************************************************)
\* "load" and "recover" (with a clock); the first _candidates file is read.
OpenTarget(p) ==
    \E op \in {"load", "recover"}, want \in {{h} : h \in Plans} \cup {{}} :
        /\ proc[p].pc = "idle"
        /\ proc' = [proc EXCEPT ![p] = [Idle EXCEPT !.pc = "read", !.op = op, !.want = want,
                                                    !.floor = acked.gen, !.first = target]]
        /\ UNCHANGED <<target, backup, lock, acked, clean>>

\* Mutant: the backup is for a target that is there but not valid.
OpenBackupIfBroken(p) ==
    LET me    == proc[p]
        found == IF me.first = None THEN None ELSE Newest(Candidates(me.first, backup, me.want))
    IN /\ me.pc = "read"
       /\ proc' = [proc EXCEPT ![p].result = found, ![p].first = None, ![p].pc = "done"]
       /\ UNCHANGED <<target, backup, lock, acked, clean>>

\* Nothing found, or the newest of the two; recover goes on to save it when
\* it has an orphan.  A generation other than the one expected is refused by
\* the caller of load as well, which is the same as not using the result.
OpenBackup(p) ==
    LET me    == proc[p]
        found == Newest(Candidates(me.first, backup, me.want))
        fixed == Recovered(found.body)
        saves == found # None /\ me.op = "recover" /\ fixed # found.body /\ found.gen < MaxGen
    IN /\ me.pc = "read"
       /\ proc' = [proc EXCEPT ![p].result = found, ![p].first = None,
                               ![p].pc = IF saves THEN "sealed" ELSE "done",
                               ![p].env = IF saves THEN Envelope(found.gen + 1, found.plan, fixed)
                                          ELSE None]
       /\ UNCHANGED <<target, backup, lock, acked, clean>>

\* The caller has what it wanted.
Return(p) ==
    /\ proc[p].pc = "done"
    /\ proc' = [proc EXCEPT ![p] = Idle]
    /\ UNCHANGED <<target, backup, lock, acked, clean>>

(***************************************************************************)
(* Writing.                                                                *)
(***************************************************************************)
Seal(p) ==
    \E gen \in Generations, plan \in Plans, body \in Bodies :
        /\ proc[p].pc = "idle"
        /\ proc' = [proc EXCEPT ![p] = [Idle EXCEPT !.pc = "sealed", !.op = "save",
                                                    !.env = Envelope(gen, plan, body)]]
        /\ UNCHANGED <<target, backup, lock, acked, clean>>

\* Mutant: the generation is compared with the target only.
IncreasesTarget(gen) == Valid(target, {}) => gen > target.gen

\* The comparison under the lock: with every envelope that load accepts.
Increases(gen) == \A file \in Candidates(target, backup, {}) : gen > file.gen

Enter(p) ==
    /\ proc[p].pc = "sealed" /\ lock = {}
    /\ Increases(proc[p].env.gen)
    /\ lock' = {p}
    /\ proc' = [proc EXCEPT ![p].pc = "write"]
    /\ UNCHANGED <<target, backup, acked, clean>>

Stale(p) ==
    /\ proc[p].pc = "sealed" /\ lock = {}
    /\ ~Increases(proc[p].env.gen)
    /\ proc' = [proc EXCEPT ![p] = Idle]
    /\ UNCHANGED <<target, backup, lock, acked, clean>>

\* Mutant: the old target is dropped before the new one is there.
MoveAsideDrops(p) ==
    /\ proc[p].pc = "write"
    /\ target' = None
    /\ proc' = [proc EXCEPT ![p].pc = "moved"]
    /\ UNCHANGED <<backup, lock, acked, clean>>

\* The temporary file is written and synced; what was the target, valid or
\* not, becomes the backup.
MoveAside(p) ==
    /\ proc[p].pc = "write"
    /\ backup' = IF target = None THEN backup ELSE target
    /\ target' = None
    /\ proc' = [proc EXCEPT ![p].pc = "moved"]
    /\ UNCHANGED <<lock, acked, clean>>

Install(p) ==
    /\ proc[p].pc = "moved"
    /\ target' = proc[p].env
    /\ clean' = (clean /\ NestedAccepted(proc[p].env.body))
    /\ acked' = IF clean' THEN acked ELSE None
    /\ proc' = [proc EXCEPT ![p] = [Idle EXCEPT !.pc = "installed", !.env = proc[p].env]]
    /\ UNCHANGED <<backup, lock>>

\* The directory is synced and the envelope is returned.
Ack(p) ==
    /\ proc[p].pc = "installed"
    /\ lock' = {}
    /\ acked' = IF clean THEN proc[p].env ELSE acked
    /\ proc' = [proc EXCEPT ![p] = Idle]
    /\ UNCHANGED <<target, backup, clean>>

\* An exception at any stage, or the end of the process.
Interrupt(p) ==
    /\ proc[p].pc # "idle"
    /\ proc' = [proc EXCEPT ![p] = Idle]
    /\ lock' = lock \ {p}
    /\ UNCHANGED <<target, backup, acked, clean>>

Next ==
    \E p \in Procs :
        \/ OpenTarget(p) \/ OpenBackup(p) \/ Return(p)
        \/ Seal(p) \/ Enter(p) \/ Stale(p) \/ MoveAside(p) \/ Install(p) \/ Ack(p)
        \/ Interrupt(p)

Spec == Init /\ [][Next]_ckVars

-----------------------------------------------------------------------------
(***************************************************************************)
(* Properties.  "clean" restricts some of them to checkpoints that load    *)
(* accepts: an envelope with a refused field name counts as a file that is *)
(* not there, and the save after it pushes the last good one out.          *)
(***************************************************************************)
TypeOK ==
    LET Envelopes == [gen : Generations, plan : Plans, body : {b : b \in Bodies} \cup {Recovered(b) : b \in Bodies}]
                     \cup {None}
    IN /\ target \in Envelopes /\ backup \in Envelopes /\ acked \in Envelopes
       /\ lock \in {{}} \cup {{p} : p \in Procs}
       /\ clean \in BOOLEAN
       /\ \A p \in Procs : proc[p].env \in Envelopes /\ proc[p].result \in Envelopes

\* What save() returned is never lost, wherever later saves fail or are
\* killed: one of the two files holds it or a later one.
AckedCheckpointSurvives == clean => OnDisk.gen >= acked.gen

\* load() takes no lock and reads one file after the other, while a writer
\* renames them: it still finds a checkpoint at least as new as the newest
\* one acknowledged before it began.
LoadIsFresh ==
    \A p \in Procs :
        /\ clean /\ proc[p].want = {} /\ proc[p].op \in {"load", "recover"}
        /\ proc[p].pc \in {"done", "sealed", "write"}
        => proc[p].result.gen >= proc[p].floor

\* recover() loads outside the lock and saves inside it: when the save gets
\* through, what it replaces is exactly what it had loaded, so no other
\* process's checkpoint is undone.
RecoverUndoesNothing ==
    \A p \in Procs :
        clean /\ proc[p].op = "recover" /\ proc[p].pc \in {"write", "moved"}
        => OnDisk = proc[p].result

=============================================================================
