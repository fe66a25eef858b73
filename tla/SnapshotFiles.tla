--------------------------- MODULE SnapshotFiles ---------------------------
(***************************************************************************)
(* The two files behind one run of FleetRunStore (run_store.py): the       *)
(* primary snapshot.json and its backup snapshot.json.bak, as the steps of *)
(* FleetRunStore._write change them and as _valid_snapshot reads them.     *)
(*                                                                         *)
(* Writers are serialised by the flock of _guard, so one program counter   *)
(* is enough.  What is not serialised: the death of the writer or a loss   *)
(* of power between any two system calls, an OSError raised by any of      *)
(* them, and the inspection command, which reads both files without the    *)
(* lock (pd.py, _v2_read_snapshot).                                        *)
(*                                                                         *)
(* A file is abstracted to its verdict under _validate, the generation it  *)
(* carries and the write that produced it.  A rename becomes durable only  *)
(* when the directory is fsynced: until then a loss of power may undo it.  *)
(* OrderedRenames says whether the file system undoes the latest renames   *)
(* first (a journal) or each name independently of the other (POSIX).      *)
(***************************************************************************)
EXTENDS Integers, FiniteSets

CONSTANTS
    Payloads,   \* verdicts of _validate the candidates may get
    OrderedRenames, \* whether a loss of power undoes renames in order
    MaxWrites   \* bound on the number of writes started

ASSUME PayloadsAssumption == Payloads \subseteq {"valid", "malformed"}
ASSUME OrderedRenamesAssumption == OrderedRenames \in BOOLEAN
ASSUME MaxWritesAssumption == MaxWrites \in Nat

VARIABLES
    primary,     \* content of snapshot.json
    backup,      \* content of snapshot.json.bak
    disk,        \* <<primary, backup>> as they were since the last fsync
    pc,          \* where the writer is in _write
    temp,        \* the sealed candidate, in its temporary file
    acked,       \* the last candidate whose _write returned
    safe,        \* the last such candidate that _validate accepts
    writes,      \* number of writes started
    reader       \* the lock-free inspection in progress

files == <<primary, backup>>
promises == <<acked, safe>>
vars == <<primary, backup, disk, pc, temp, acked, safe, writes, reader>>

Absent == [kind |-> "absent", generation |-> -1, write |-> 0]

File == [kind : {"absent", "valid", "malformed"},
         generation : Nat \cup {-1}, write : Nat]

Idle == [at |-> "idle", first |-> Absent, floor |-> Absent, result |-> Absent]

-----------------------------------------------------------------------------
(* FleetRunStore._valid_snapshot: the valid candidate of the highest       *)
(* generation; max() keeps the first, the primary, when they are equal.    *)
Newest(p, b) ==
    IF p.kind = "valid" /\ (b.kind = "valid" => p.generation >= b.generation)
    THEN p
    ELSE IF b.kind = "valid" THEN b ELSE Absent

ValidSnapshot == Newest(primary, backup)

Init ==
    /\ primary = Absent /\ backup = Absent
    /\ disk = {<<Absent, Absent>>}
    /\ pc = "idle" /\ temp = Absent /\ acked = Absent /\ safe = Absent
    /\ writes = 0 /\ reader = Idle

(* The candidate is sealed and fsynced into a private temporary file.      *)
(* Nothing runs _validate on it: kind is whatever the payload deserves.    *)
Prepare(generation) ==
    /\ pc = "idle"
    /\ writes < MaxWrites
    /\ \E kind \in Payloads :
           temp' = [kind |-> kind, generation |-> generation, write |-> writes + 1]
    /\ writes' = writes + 1
    /\ pc' = "prepared"
    /\ UNCHANGED <<files, disk, promises, reader>>

(* FleetRunStore.create refuses to run over any existing artifact, valid   *)
(* or not.                                                                 *)
Create ==
    /\ primary.kind = "absent" /\ backup.kind = "absent"
    /\ Prepare(0)

(* FleetRunStore._mutate up to the first rename of its _write.             *)
Mutate ==
    /\ ValidSnapshot.kind = "valid"
    /\ Prepare(ValidSnapshot.generation + 1)

(* Mutant: the primary is promoted to the backup without _validate.        *)
CopyUnchecked ==
    /\ pc = "prepared"
    /\ primary.kind # "absent"
    /\ backup' = primary
    /\ disk' = disk \cup {<<primary, primary>>}
    /\ pc' = "backed_up"
    /\ UNCHANGED <<primary, temp, promises, writes, reader>>

(* A valid primary is copied and renamed over the backup.                  *)
CopyToBackup ==
    /\ pc = "prepared"
    /\ primary.kind = "valid"
    /\ backup' = primary
    /\ disk' = disk \cup {<<primary, primary>>}
    /\ pc' = "backed_up"
    /\ UNCHANGED <<primary, temp, promises, writes, reader>>

(* Mutant: the primary is overwritten before it was backed up.             *)
ReplaceUnbacked ==
    /\ pc \in {"prepared", "backed_up"}
    /\ primary' = temp
    /\ disk' = disk \cup {<<temp, backup>>}
    /\ pc' = "replaced"
    /\ UNCHANGED <<backup, temp, promises, writes, reader>>

(* The candidate is renamed over the primary; a missing or malformed       *)
(* primary is not promoted to the backup first.                            *)
ReplacePrimary ==
    /\ \/ pc = "backed_up"
       \/ pc = "prepared" /\ primary.kind # "valid"
    /\ primary' = temp
    /\ disk' = disk \cup {<<temp, backup>>}
    /\ pc' = "replaced"
    /\ UNCHANGED <<backup, temp, promises, writes, reader>>

(* Mutant: _write returns without the fsync of the directory.              *)
ReturnUnsynced ==
    /\ pc = "replaced"
    /\ acked' = temp
    /\ safe' = IF temp.kind = "valid" THEN temp ELSE safe
    /\ pc' = "idle"
    /\ UNCHANGED <<files, disk, temp, writes, reader>>

(* The directory is fsynced and _write returns: the caller is told.        *)
SyncDirectory ==
    /\ pc = "replaced"
    /\ disk' = {files}
    /\ acked' = temp
    /\ safe' = IF temp.kind = "valid" THEN temp ELSE safe
    /\ pc' = "idle"
    /\ UNCHANGED <<files, temp, writes, reader>>

(* An OSError (raised to the caller as RunStoreError) or the death of the  *)
(* writer: the renames made so far stay, the flock is released.            *)
Abort ==
    /\ pc # "idle"
    /\ pc' = "idle"
    /\ UNCHANGED <<files, disk, temp, promises, writes, reader>>

(* A loss of power: each name is left with some content it had since the   *)
(* last fsync of the directory.                                            *)
PowerLoss ==
    /\ \E p, b \in disk :
           /\ OrderedRenames => p = b
           /\ primary' = p[1] /\ backup' = b[2]
           /\ disk' = {<<p[1], b[2]>>}
    /\ pc' = "idle" /\ reader' = Idle
    /\ UNCHANGED <<temp, promises, writes>>

(* pd v2 inspect / readiness / status: the primary, then the backup, each  *)
(* read with no lock; a missing primary ends the command.                  *)
InspectPrimary ==
    /\ reader.at = "idle"
    /\ primary.kind # "absent"
    /\ reader' = [at |-> "backup", first |-> primary, floor |-> safe, result |-> Absent]
    /\ UNCHANGED <<files, disk, pc, temp, promises, writes>>

InspectBackup ==
    /\ reader.at = "backup"
    /\ reader' = [reader EXCEPT !.at = "done", !.result = Newest(reader.first, backup)]
    /\ UNCHANGED <<files, disk, pc, temp, promises, writes>>

InspectDone ==
    /\ reader.at = "done"
    /\ reader' = Idle
    /\ UNCHANGED <<files, disk, pc, temp, promises, writes>>

Next ==
    \/ Create \/ Mutate
    \/ CopyToBackup \/ ReplacePrimary \/ SyncDirectory \/ Abort \/ PowerLoss
    \/ InspectPrimary \/ InspectBackup \/ InspectDone

Spec == Init /\ [][Next]_vars

-----------------------------------------------------------------------------
(* Every variable of the file protocol has the shape the code gives it.    *)
TypeOK ==
    /\ primary \in File /\ backup \in File /\ temp \in File
    /\ acked \in File /\ safe \in File
    /\ disk \in SUBSET (File \X File)
    /\ pc \in {"idle", "prepared", "backed_up", "replaced"}
    /\ writes \in Nat
    /\ reader \in [at : {"idle", "backup", "done"}, first : File, floor : File, result : File]

(* f is g itself or a later snapshot.                                      *)
AtLeast(f, g) == f = g \/ f.generation > g.generation

(* A snapshot whose write returned is never lost: whatever was interrupted *)
(* since, in _write or by a loss of power, load() finds it or a successor. *)
AckedSurvives == AtLeast(ValidSnapshot, acked)

(* The same of the snapshots that _validate accepts, whatever else was     *)
(* written: a candidate that will not validate never takes an earlier      *)
(* acknowledged snapshot with it.                                          *)
SafeSurvives == AtLeast(ValidSnapshot, safe)

(* The backup, the last resort of _valid_snapshot, is never replaced by    *)
(* content that would not validate (_write: a malformed primary is         *)
(* deliberately not promoted).                                             *)
BackupNeverMalformed ==
    \A d \in disk : d[2].kind # "malformed"

(* An inspection that takes no lock never answers with less than what was  *)
(* safe before it began, although it reads the two files one after the     *)
(* other while a writer renames both.                                      *)
InspectionFresh ==
    reader.at = "done" => AtLeast(reader.result, reader.floor)

(* What the callers of FleetRunStore rely on: the two files behave as one  *)
(* atomic snapshot (AtomicSnapshot).  The snapshots an interruption may    *)
(* bring back are the contents either name had since the last fsync of the *)
(* directory that are not older than the safe one.                         *)
Visible ==
    { f \in { d[1] : d \in disk } \cup { d[2] : d \in disk } :
          f.kind # "malformed" /\ AtLeast(f, safe) }

Atomic == INSTANCE AtomicSnapshot WITH
    current <- ValidSnapshot, possible <- Visible, acked <- safe

ImplementsAtomicSnapshot == Atomic!Spec
=============================================================================
