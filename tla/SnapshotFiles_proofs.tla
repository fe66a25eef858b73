------------------------ MODULE SnapshotFiles_proofs ------------------------
(***************************************************************************)
(* For every set of payloads and any number of writes: the two files of    *)
(* run_store.py never lose a safe snapshot, provided the file system keeps *)
(* renames in order or nothing malformed is ever written, and they         *)
(* implement the atomic register of AtomicSnapshot.                        *)
(***************************************************************************)
EXTENDS SnapshotFiles, TLAPS

(* The two settings in which the theorems below hold: a journal that keeps *)
(* the renames of _write in order, or payloads that all validate.          *)
Dependable == OrderedRenames \/ Payloads \subseteq {"valid"}

(* What a pair of contents keeps of a safe snapshot f: a primary that      *)
(* validates is f or newer, an absent one means nothing is safe yet, and   *)
(* behind a malformed one the backup still is f or newer.                  *)
Keeps(d, f) ==
    /\ d[1].kind = "valid" => AtLeast(d[1], f)
    /\ d[1].kind = "absent" => f = Absent
    /\ d[1].kind = "malformed" =>
           f = Absent \/ (d[2].kind = "valid" /\ AtLeast(d[2], f))

(* A file is absent exactly when it is the record Absent.                  *)
WellFormed(f) ==
    /\ f \in File
    /\ f.kind = "absent" <=> f = Absent
    /\ f.kind # "absent" => f.generation >= 0

DiskInv ==
    /\ files \in disk
    /\ \A d \in disk :
           /\ WellFormed(d[1]) /\ WellFormed(d[2])
           /\ d[2].kind # "malformed"
           /\ Keeps(d, safe)
           /\ d[1].kind = "malformed" => "malformed" \in Payloads

WriterInv ==
    /\ pc # "idle" =>
           /\ WellFormed(temp) /\ temp.kind \in Payloads
           /\ temp.generation > safe.generation
    /\ pc = "prepared" => temp.generation > ValidSnapshot.generation
    /\ pc = "backed_up" =>
           primary.kind = "valid" /\ backup = primary /\ temp.generation > primary.generation
    /\ pc = "replaced" => primary = temp /\ temp.generation > backup.generation

(* The inductive invariant: what the two names may hold, now or after a    *)
(* loss of power, and where the writer is.                                 *)
IInv ==
    /\ TypeOK
    /\ WellFormed(safe) /\ safe.kind # "malformed"
    /\ DiskInv
    /\ WriterInv

-----------------------------------------------------------------------------
(* "f or newer" chains: a snapshot newer than one that is f or newer.      *)
LEMMA AtLeastTrans ==
    ASSUME NEW f \in File, NEW g \in File, NEW h \in File,
           AtLeast(f, g), AtLeast(g, h)
    PROVE  AtLeast(f, h)
BY DEF AtLeast, File

(* _valid_snapshot returns one of the two files it is given, or nothing,   *)
(* and nothing only when neither validates.                                *)
LEMMA NewestIsOne ==
    ASSUME NEW p \in File, NEW b \in File
    PROVE  /\ Newest(p, b) \in {p, b, Absent}
           /\ Newest(p, b) \in File
           /\ Newest(p, b).kind \in {"valid", "absent"}
           /\ p.kind = "valid" => Newest(p, b).kind = "valid" /\ Newest(p, b).generation >= p.generation
           /\ b.kind = "valid" => Newest(p, b).kind = "valid" /\ Newest(p, b).generation >= b.generation
BY DEF Newest, Absent, File

(* What load() returns of a pair that keeps f is f or newer.               *)
LEMMA KeptIsFound ==
    ASSUME NEW p, NEW b, NEW f, WellFormed(p), WellFormed(b), WellFormed(f),
           Keeps(<<p, b>>, f), b.kind # "malformed"
    PROVE  AtLeast(Newest(p, b), f)
BY DEF Newest, Keeps, AtLeast, WellFormed, Absent, File

(* The initial state, before create(), satisfies the invariant.            *)
LEMMA InitIInv == Init => IInv
BY PayloadsAssumption
   DEF Init, IInv, TypeOK, DiskInv, WriterInv, WellFormed, Keeps, AtLeast, files,
       Absent, File, Idle

(* Starting a write: the candidate is newer than everything load() finds.  *)
LEMMA PrepareIInv ==
    ASSUME IInv, NEW g \in Nat, Prepare(g), g > ValidSnapshot.generation
    PROVE  IInv'
<1>1. AtLeast(ValidSnapshot, safe)
  BY KeptIsFound DEF IInv, DiskInv, files, ValidSnapshot
<1>2. g > safe.generation
  BY <1>1, NewestIsOne DEF IInv, TypeOK, AtLeast, ValidSnapshot, File
<1>3. WellFormed(temp') /\ temp'.kind \in Payloads /\ temp'.generation = g
  BY PayloadsAssumption DEF Prepare, WellFormed, File, Absent, IInv, TypeOK
<1>4. TypeOK'
  BY <1>3 DEF IInv, TypeOK, Prepare, files, promises, WellFormed
<1>5. DiskInv'
  BY DEF IInv, DiskInv, Prepare, files, promises
<1>6. WriterInv'
  BY <1>2, <1>3 DEF WriterInv, Prepare, files, promises, ValidSnapshot
<1> QED
  BY <1>4, <1>5, <1>6 DEF IInv, Prepare, promises

(* Every step of the writer, of the reader and of the environment keeps    *)
(* the invariant in a dependable setting.                                  *)
LEMMA NextIInv ==
    ASSUME Dependable, IInv, [Next]_vars
    PROVE  IInv'
<1> USE DEF WellFormed
<1>1. CASE Create
  <2>1. ValidSnapshot.generation = -1
    BY <1>1 DEF Create, ValidSnapshot, Newest, Absent
  <2> QED
    BY <1>1, <2>1, PrepareIInv DEF Create
<1>2. CASE Mutate
  <2>1. ValidSnapshot.generation \in Nat
    BY <1>2 DEF Mutate, ValidSnapshot, Newest, IInv, DiskInv, files, File, Absent
  <2> QED
    BY <1>2, <2>1, PrepareIInv DEF Mutate
<1>3. CASE CopyToBackup
  <2>1. TypeOK'
    BY <1>3 DEF CopyToBackup, IInv, TypeOK, promises
  <2>2. DiskInv'
    BY <1>3 DEF CopyToBackup, IInv, DiskInv, files, promises, Keeps
  <2>3. primary.generation <= ValidSnapshot.generation
    BY <1>3, NewestIsOne DEF CopyToBackup, ValidSnapshot, IInv, TypeOK
  <2>4. WriterInv'
    BY <1>3, <2>3, NewestIsOne DEF CopyToBackup, IInv, TypeOK, WriterInv, File, ValidSnapshot, promises
  <2> QED
    BY <1>3, <2>1, <2>2, <2>4 DEF IInv, CopyToBackup, promises
<1>4. CASE ReplacePrimary
  <2>1. TypeOK'
    BY <1>4 DEF ReplacePrimary, IInv, TypeOK, promises
  <2>0. /\ Keeps(<<primary, backup>>, safe)
        /\ WellFormed(primary) /\ WellFormed(backup) /\ backup.kind # "malformed"
    BY DEF IInv, DiskInv, files
  <2>2. Keeps(<<temp, backup>>, safe)
    <3>1. AtLeast(temp, safe) /\ temp.kind # "absent"
      BY <1>4, PayloadsAssumption DEF ReplacePrimary, IInv, WriterInv, AtLeast
    <3>2. CASE pc = "backed_up"
      BY <3>1, <3>2, <2>0 DEF IInv, WriterInv, Keeps
    <3>3. CASE primary.kind # "valid"
      BY <3>1, <3>3, <2>0 DEF Keeps, File
    <3> QED
      BY <1>4, <3>2, <3>3 DEF ReplacePrimary
  <2>3. DiskInv'
    BY <1>4, <2>2 DEF ReplacePrimary, IInv, DiskInv, WriterInv, files, promises
  <2>4. temp.generation > backup.generation
    <3>1. CASE pc = "backed_up"
      BY <3>1 DEF IInv, WriterInv
    <3>2. CASE pc = "prepared" /\ primary.kind # "valid"
      <4>1. temp.generation > ValidSnapshot.generation
        BY <3>2 DEF IInv, WriterInv
      <4>2. backup.generation = ValidSnapshot.generation
        BY <2>0, <3>2 DEF ValidSnapshot, Newest, File
      <4> QED
        BY <4>1, <4>2
    <3> QED
      BY <1>4, <3>1, <3>2 DEF ReplacePrimary
  <2>5. WriterInv'
    BY <1>4, <2>4 DEF ReplacePrimary, IInv, WriterInv, promises
  <2> QED
    BY <1>4, <2>1, <2>3, <2>5 DEF IInv, ReplacePrimary, promises
<1>5. CASE SyncDirectory
  <2>1. TypeOK'
    BY <1>5 DEF SyncDirectory, IInv, TypeOK, files
  <2>2. WellFormed(safe') /\ safe'.kind # "malformed"
    BY <1>5 DEF SyncDirectory, IInv, WriterInv
  <2>3. Keeps(files, safe')
    <3>1. CASE temp.kind = "valid"
      BY <1>5, <3>1 DEF SyncDirectory, IInv, WriterInv, Keeps, AtLeast, files
    <3>2. CASE temp.kind # "valid"
      BY <1>5, <3>2 DEF SyncDirectory, IInv, DiskInv, files
    <3> QED
      BY <3>1, <3>2
  <2>4. DiskInv'
    BY <1>5, <2>3 DEF SyncDirectory, IInv, DiskInv, files
  <2>5. WriterInv'
    BY <1>5 DEF SyncDirectory, WriterInv
  <2> QED
    BY <2>1, <2>2, <2>4, <2>5 DEF IInv
<1>6. CASE Abort
  BY <1>6 DEF Abort, IInv, TypeOK, DiskInv, WriterInv, files, promises
<1>7. CASE PowerLoss
  <2>1. PICK p \in disk, b \in disk :
            /\ OrderedRenames => p = b
            /\ primary' = p[1] /\ backup' = b[2]
            /\ disk' = {<<p[1], b[2]>>}
    BY <1>7 DEF PowerLoss
  <2>2. TypeOK'
    BY <1>7, <2>1 DEF PowerLoss, IInv, TypeOK, promises, Idle, Absent, File
  <2>3. Keeps(<<p[1], b[2]>>, safe)
    <3>1. CASE p[1].kind = "malformed"
      BY <2>1, <3>1 DEF Dependable, IInv, DiskInv, Keeps
    <3>2. CASE p[1].kind # "malformed"
      BY <2>1, <3>2 DEF IInv, DiskInv, Keeps
    <3> QED
      BY <3>1, <3>2
  <2>4. DiskInv'
    BY <1>7, <2>1, <2>3 DEF PowerLoss, IInv, DiskInv, files, promises
  <2>5. WriterInv'
    BY <1>7 DEF PowerLoss, WriterInv
  <2> QED
    BY <1>7, <2>2, <2>4, <2>5 DEF IInv, PowerLoss, promises
<1>8. CASE InspectPrimary \/ InspectBackup \/ InspectDone
  <2>0. Absent \in File
    BY DEF Absent, File
  <2>1. TypeOK'
    <3>1. CASE InspectPrimary
      BY <3>1, <2>0 DEF InspectPrimary, IInv, TypeOK, files, promises
    <3>2. CASE InspectBackup
      <4>1. Newest(reader.first, backup) \in File
        BY NewestIsOne DEF IInv, TypeOK
      <4> QED
        BY <3>2, <4>1 DEF InspectBackup, IInv, TypeOK, files, promises
    <3>3. CASE InspectDone
      BY <3>3, <2>0 DEF InspectDone, IInv, TypeOK, files, promises, Idle
    <3> QED
      BY <1>8, <3>1, <3>2, <3>3
  <2> QED
    BY <1>8, <2>1 DEF InspectPrimary, InspectBackup, InspectDone, IInv, DiskInv,
       WriterInv, ValidSnapshot, files, promises
<1>9. CASE UNCHANGED vars
  BY <1>9 DEF vars, IInv, TypeOK, DiskInv, WriterInv, ValidSnapshot, files
<1> QED
  BY <1>1, <1>2, <1>3, <1>4, <1>5, <1>6, <1>7, <1>8, <1>9 DEF Next

(* The invariant holds in every reachable state.                           *)
THEOREM InvariantHolds == ASSUME Dependable PROVE Spec => []IInv
BY InitIInv, NextIInv, PTL DEF Spec

(* Type correctness of the file protocol of run_store.py.                  *)
THEOREM TypeCorrect == ASSUME Dependable PROVE Spec => []TypeOK
<1>1. IInv => TypeOK
  BY DEF IInv
<1> QED
  BY <1>1, InvariantHolds, PTL

(* No interruption of _write, and no loss of power, costs an acknowledged  *)
(* snapshot that validates.                                                *)
THEOREM SafeSnapshotsSurvive == ASSUME Dependable PROVE Spec => []SafeSurvives
<1>1. IInv => SafeSurvives
  BY KeptIsFound DEF IInv, DiskInv, files, SafeSurvives, ValidSnapshot
<1> QED
  BY <1>1, InvariantHolds, PTL

(* When every payload validates, what _write acknowledged is what is safe, *)
(* so nothing acknowledged is ever lost, even by a file system that orders *)
(* no renames.                                                             *)
THEOREM AcknowledgedSurvives ==
    ASSUME Payloads \subseteq {"valid"} PROVE Spec => []AckedSurvives
<1> DEFINE Same == acked = safe
<1>1. Dependable
  BY DEF Dependable
<1>2. Init => Same
  BY DEF Init
<1>3. IInv /\ Same /\ [Next]_vars => Same'
  <2> SUFFICES ASSUME IInv, Same, [Next]_vars
               PROVE  Same'
    OBVIOUS
  <2>1. CASE SyncDirectory
    BY <2>1 DEF SyncDirectory, IInv, WriterInv
  <2>2. CASE ~SyncDirectory
    BY <2>2 DEF Next, Create, Mutate, Prepare, CopyToBackup, ReplacePrimary, Abort,
       PowerLoss, InspectPrimary, InspectBackup, InspectDone, promises, vars
  <2> QED
    BY <2>1, <2>2
<1>4. IInv /\ Same => AckedSurvives
  BY KeptIsFound DEF IInv, DiskInv, files, AckedSurvives, ValidSnapshot
<1> QED
  BY <1>1, <1>2, <1>3, <1>4, InvariantHolds, PTL DEF Spec

(* A malformed snapshot is never promoted, nor brought back, to the        *)
(* backup's name.                                                          *)
THEOREM BackupValidates == ASSUME Dependable PROVE Spec => []BackupNeverMalformed
<1>1. IInv => BackupNeverMalformed
  BY DEF IInv, DiskInv, BackupNeverMalformed
<1> QED
  BY <1>1, InvariantHolds, PTL

-----------------------------------------------------------------------------
(* What an inspection without the lock can count on: nothing safe is older *)
(* than its floor; the primary it read is the floor or newer or, if that   *)
(* does not validate, the backup it is about to read is.                   *)
ReaderInv ==
    reader.at # "idle" =>
        /\ WellFormed(reader.floor) /\ WellFormed(reader.first)
        /\ AtLeast(safe, reader.floor)
        /\ reader.at = "backup" =>
               /\ reader.first.kind # "absent"
               /\ reader.first.kind = "valid" => AtLeast(reader.first, reader.floor)
               /\ reader.first.kind = "malformed" =>
                      \/ reader.floor = Absent
                      \/ backup.kind = "valid" /\ AtLeast(backup, reader.floor)
        /\ reader.at = "done" => AtLeast(reader.result, reader.floor)

(* Whatever a writer renames between the two reads, ReaderInv is kept.     *)
LEMMA NextReaderInv ==
    ASSUME IInv, IInv', ReaderInv, [Next]_vars
    PROVE  ReaderInv'
<1>0. TypeOK /\ WellFormed(safe) /\ DiskInv /\ WriterInv
  BY DEF IInv
<1>1. CASE InspectPrimary
  <2>1. /\ WellFormed(primary) /\ Keeps(files, safe)
        /\ files[1] = primary /\ files[2] = backup
    BY <1>0 DEF DiskInv, files
  <2>2. /\ reader'.at = "backup" /\ reader'.first = primary /\ reader'.floor = safe
        /\ safe' = safe /\ backup' = backup /\ primary.kind # "absent"
    BY <1>1 DEF InspectPrimary, files, promises
  <2> QED
    BY <1>0, <2>1, <2>2 DEF ReaderInv, Keeps, AtLeast
<1>2. CASE InspectBackup
  <2>1. /\ reader.at = "backup" /\ reader'.at = "done"
        /\ reader'.floor = reader.floor /\ reader'.first = reader.first
        /\ reader'.result = Newest(reader.first, backup) /\ safe' = safe
    BY <1>0, <1>2 DEF InspectBackup, promises, TypeOK
  <2>2. WellFormed(backup)
    BY <1>0 DEF DiskInv, files
  <2>3. AtLeast(Newest(reader.first, backup), reader.floor)
    BY <2>1, <2>2 DEF ReaderInv, Newest, AtLeast, WellFormed, File, Absent
  <2> QED
    BY <2>1, <2>3 DEF ReaderInv
<1>3. CASE CopyToBackup
  <2>1. /\ backup' = primary /\ primary.kind = "valid" /\ UNCHANGED <<safe, reader>>
    BY <1>3 DEF CopyToBackup, promises
  <2>2. primary \in File /\ AtLeast(primary, safe)
    BY <1>0, <2>1 DEF DiskInv, Keeps, files, WellFormed
  <2>3. reader.at # "idle" => AtLeast(primary, reader.floor)
    BY <1>0, <2>2, AtLeastTrans DEF ReaderInv, WellFormed
  <2> QED
    BY <2>1, <2>3 DEF ReaderInv
<1>4. CASE SyncDirectory
  <2>1. /\ UNCHANGED <<backup, reader>>
        /\ safe' = safe \/ (safe' = temp /\ temp.generation > safe.generation)
    BY <1>0, <1>4 DEF SyncDirectory, files, WriterInv
  <2>2. reader.at # "idle" => AtLeast(safe', reader.floor)
    BY <1>0, <2>1 DEF ReaderInv, AtLeast, WellFormed, File, TypeOK
  <2> QED
    BY <2>1, <2>2 DEF ReaderInv
<1>5. CASE PowerLoss \/ InspectDone
  BY <1>5 DEF PowerLoss, InspectDone, ReaderInv, Idle
<1>6. CASE UNCHANGED <<backup, safe, reader>>
  BY <1>6 DEF ReaderInv
<1> QED
  BY <1>1, <1>2, <1>3, <1>4, <1>5, <1>6 DEF Next, Create, Mutate, Prepare, ReplacePrimary, Abort,
     files, promises, vars

(* pd v2 inspect, which reads the two files one after the other and takes  *)
(* no lock, never answers with less than what was safe when it began.      *)
THEOREM InspectionsAreFresh == ASSUME Dependable PROVE Spec => []InspectionFresh
<1>1. Init => ReaderInv
  BY DEF Init, ReaderInv, Idle
<1>2. ReaderInv => InspectionFresh
  BY DEF ReaderInv, InspectionFresh
<1> QED
  BY <1>1, <1>2, InvariantHolds, NextReaderInv, PTL DEF Spec

-----------------------------------------------------------------------------
(* What load() returns is always among the snapshots an interruption may   *)
(* bring back.                                                             *)
LEMMA CurrentIsVisible == IInv => ValidSnapshot \in Visible
<1> SUFFICES ASSUME IInv PROVE ValidSnapshot \in Visible
  OBVIOUS
<1>1. AtLeast(ValidSnapshot, safe)
  BY KeptIsFound DEF IInv, DiskInv, files, ValidSnapshot
<1>2. WellFormed(primary) /\ WellFormed(backup) /\ backup.kind # "malformed"
  BY DEF IInv, DiskInv, files
<1>3. ValidSnapshot \in {primary, backup} /\ ValidSnapshot.kind # "malformed"
  BY <1>2 DEF ValidSnapshot, Newest, WellFormed, Absent, File
<1>4. primary \in { d[1] : d \in disk } /\ backup \in { d[2] : d \in disk }
  BY DEF IInv, DiskInv, files
<1> QED
  BY <1>1, <1>3, <1>4 DEF Visible

(* The same of the state after a step.                                     *)
LEMMA CurrentIsVisibleNext == (IInv => ValidSnapshot \in Visible)'
BY CurrentIsVisible, PTL

(* Each step of the file protocol is a step of the atomic register, or     *)
(* leaves it alone.                                                        *)
LEMMA StepSimulation ==
    ASSUME Dependable, IInv, IInv', [Next]_vars
    PROVE  [Atomic!Next]_(Atomic!vars)
<1>0. ValidSnapshot \in Visible /\ ValidSnapshot' \in Visible'
  BY CurrentIsVisible, CurrentIsVisibleNext
<1>1. CASE UNCHANGED <<files, disk, safe>>
  BY <1>1 DEF files, ValidSnapshot, Visible, Atomic!vars
<1>2. CASE CopyToBackup
  <2>1. Visible' \subseteq Visible
    <3>1. primary \in { d[1] : d \in disk }
      BY DEF IInv, DiskInv, files
    <3> QED
      BY <1>2, <3>1 DEF CopyToBackup, Visible, promises
  <2> QED
    BY <1>0, <1>2, <2>1 DEF CopyToBackup, promises, Atomic!Next, Atomic!Recover
<1>3. CASE ReplacePrimary
  <2>0. WellFormed(temp) /\ AtLeast(temp, safe) /\ WellFormed(primary) /\ WellFormed(backup)
    BY <1>3 DEF ReplacePrimary, IInv, WriterInv, AtLeast, DiskInv, files
  <2>1. backup \in { d[2] : d \in disk }
    BY DEF IInv, DiskInv, files
  <2>2. CASE temp.kind = "valid"
    <3>1. temp.generation > backup.generation /\ temp.generation > ValidSnapshot.generation
      <4>1. temp.generation > backup.generation
        BY <1>3 DEF ReplacePrimary, IInv, WriterInv
      <4>2. CASE pc = "backed_up"
        BY <4>1, <4>2 DEF IInv, WriterInv, ValidSnapshot, Newest
      <4>3. CASE pc = "prepared"
        BY <4>1, <4>3 DEF IInv, WriterInv
      <4> QED
        BY <1>3, <4>2, <4>3 DEF ReplacePrimary
    <3>2. ValidSnapshot' = temp
      BY <1>3, <2>0, <2>2, <3>1 DEF ReplacePrimary, ValidSnapshot, Newest, WellFormed, File
    <3>3. Visible' = Visible \cup {temp}
      <4>0. disk' = disk \cup {<<temp, backup>>} /\ <<temp, backup>>[1] = temp
        BY <1>3 DEF ReplacePrimary
      <4>1. { d[1] : d \in disk' } = { d[1] : d \in disk } \cup {temp}
        BY <4>0, Zenon
      <4>2. { d[2] : d \in disk' } = { d[2] : d \in disk }
        BY <1>3, <2>1 DEF ReplacePrimary
      <4>3. safe' = safe /\ temp.kind # "malformed" /\ AtLeast(temp, safe)
        BY <1>3, <2>0, <2>2 DEF ReplacePrimary, promises
      <4> QED
        <5> DEFINE Names == { d[1] : d \in disk } \cup { d[2] : d \in disk }
                   Good(f) == f.kind # "malformed" /\ AtLeast(f, safe)
        <5>1. Visible = { f \in Names : Good(f) }
          BY DEF Visible
        <5>2. Visible' = { f \in Names \cup {temp} : Good(f) }
          BY <4>1, <4>2, <4>3 DEF Visible, AtLeast
        <5>3. Good(temp)
          BY <4>3
        <5> HIDE DEF Names, Good
        <5> QED
          BY <5>1, <5>2, <5>3
    <3> QED
      BY <1>3, <2>2, <3>1, <3>2, <3>3 DEF ReplacePrimary, promises, Atomic!Next, Atomic!Install
  <2>3. CASE temp.kind = "malformed"
    <3>1. Visible' \subseteq Visible
      BY <1>3, <2>1, <2>3 DEF ReplacePrimary, Visible, promises
    <3> QED
      BY <1>0, <1>3, <3>1 DEF ReplacePrimary, promises, Atomic!Next, Atomic!Recover
  <2> QED
    BY <1>3, <2>2, <2>3, PayloadsAssumption DEF ReplacePrimary, IInv, WriterInv
<1>4. CASE SyncDirectory
  <2>1. files \in disk /\ WellFormed(primary) /\ WellFormed(backup)
    BY DEF IInv, DiskInv, files
  <2>2. CASE temp.kind = "valid"
    <3>1. primary = temp /\ temp.generation > backup.generation
      BY <1>4 DEF SyncDirectory, IInv, WriterInv
    <3>2. ValidSnapshot = temp /\ ValidSnapshot' = temp
      BY <1>4, <2>1, <2>2, <3>1 DEF SyncDirectory, files, ValidSnapshot, Newest, WellFormed, File
    <3>3. ~AtLeast(backup, temp)
      BY <2>1, <3>1 DEF AtLeast, WellFormed, File
    <3>4. Visible' = {temp}
      BY <1>4, <2>2, <3>1, <3>3 DEF SyncDirectory, Visible, AtLeast, files
    <3> QED
      BY <1>4, <2>2, <3>2, <3>4 DEF SyncDirectory, Atomic!Next, Atomic!Acknowledge
  <2>3. CASE temp.kind # "valid"
    <3>1. Visible' \subseteq Visible
      BY <1>4, <2>1, <2>3 DEF SyncDirectory, Visible, files
    <3> QED
      BY <1>0, <1>4, <2>3, <3>1 DEF SyncDirectory, Atomic!Next, Atomic!Recover
  <2> QED
    BY <2>2, <2>3
<1>5. CASE PowerLoss
  <2>1. Visible' \subseteq Visible
    BY <1>5 DEF PowerLoss, Visible, promises
  <2> QED
    BY <1>0, <1>5, <2>1 DEF PowerLoss, promises, Atomic!Next, Atomic!Recover
<1> QED
  BY <1>1, <1>2, <1>3, <1>4, <1>5 DEF Next, Create, Mutate, Prepare, Abort,
     InspectPrimary, InspectBackup, InspectDone, vars, promises, files

(* The two files of run_store.py implement one atomic register.            *)
THEOREM RefinesAtomicSnapshot ==
    ASSUME Dependable PROVE Spec => ImplementsAtomicSnapshot
<1>1. Init => Atomic!Init
  BY DEF Init, Atomic!Init, Atomic!None, ValidSnapshot, Newest, Visible, AtLeast, Absent
<1>2. IInv /\ IInv' /\ [Next]_vars => [Atomic!Next]_(Atomic!vars)
  BY StepSimulation
<1> QED
  BY <1>1, <1>2, InvariantHolds, PTL DEF Spec, ImplementsAtomicSnapshot, Atomic!Spec
=============================================================================
