-------------------------- MODULE Workspace_proofs --------------------------
(***************************************************************************)
(* For any phases, tasks and fleets: a save of PDState that raises has     *)
(* changed nothing, and a saved state is never lost; after a repair that   *)
(* failed its checkpoints may be.  For any names and number of             *)
(* directories: no feature gets lost on the way to the archive.  For any   *)
(* sessions, gateways and emitters: no watermark is ahead of the bus, and  *)
(* no agent is shown as done whose newest event does not say so.           *)
(***************************************************************************)
EXTENDS Workspace, Induction_proofs, FiniteSetTheorems, SequenceTheorems

(* The default state of _default_state is a state.                         *)
LEMMA DefaultInState == DefaultState \in State
BY PhaseAssumption, FleetsAssumption DEF DefaultState, State

(* What a state file can hold.                                             *)
LEMMA FilesAreFiles ==
    /\ Absent \in File /\ Torn \in File
    /\ \A s \in State : Whole(s) \in File
BY DefaultInState DEF Absent, Torn, Whole, File

(* _load_state returns a state, whatever the files hold.                   *)
LEMMA LoadInState == TypeOK => LoadState \in State
<1> SUFFICES ASSUME TypeOK PROVE LoadState \in State
  OBVIOUS
<1>1. \A s \in State : ParseStateMd(s) \in State
  BY DEF ParseStateMd, State
<1>2. /\ json.state \in State /\ jsonBak.state \in State /\ md.state \in State
  BY DEF TypeOK, File
<1> QED
  BY <1>1, <1>2, DefaultInState DEF LoadState

-----------------------------------------------------------------------------
(* Type correctness.                                                       *)
LEMMA InitTypeOK == Init => TypeOK
<1> SUFFICES ASSUME Init PROVE TypeOK
  OBVIOUS
<1>1. md \in File
  <2>1. ASSUME NEW p \in 0..LastPhase, NEW ts \in SUBSET Tasks
        PROVE  Whole([DefaultState EXCEPT !.phase = p, !.tasks = ts]) \in File
    BY DefaultInState, FilesAreFiles DEF State
  <2> QED
    BY <2>1, FilesAreFiles DEF Init
<1>2. LoadState \in State
  <2>1. md.state \in State /\ ParseStateMd(md.state) \in State
    BY <1>1 DEF File, ParseStateMd, State
  <2> QED
    BY <2>1, DefaultInState DEF LoadState, Init, Absent
<1> QED
  BY <1>1, <1>2, FilesAreFiles, DefaultInState DEF Init, TypeOK

(* Every step of a command keeps the types.                                *)
LEMMA NextTypeOK ==
    ASSUME TypeOK, [Next]_vars
    PROVE  TypeOK'
<1> USE FilesAreFiles
<1>1. ASSUME NEW s \in State, Save(s) PROVE TypeOK'
  BY <1>1 DEF TypeOK, Save
<1>2. CASE Load
  BY <1>2, LoadInState DEF TypeOK, Load, LoadWith
<1>3. CASE LoadMigrating
  BY <1>3, LoadInState DEF TypeOK, LoadMigrating, WriteJson, LoadWith
<1>4. CASE LoadBackup
  BY <1>4, LoadInState DEF TypeOK, LoadBackup, LoadWith
<1>5. CASE Repair
  BY <1>5 DEF TypeOK, Repair
<1>6. CASE Close
  BY <1>6 DEF TypeOK, Close
<1>7. CASE AdvancePhase
  <2>1. [state EXCEPT !.phase = @ + 1] \in State
    BY <1>7, PhaseAssumption DEF TypeOK, State, AdvancePhase
  <2> QED
    BY <1>1, <1>7, <2>1 DEF AdvancePhase
<1>8. CASE AddCheckpoint
  <2>1. [state EXCEPT !.checkpoints = @ + 1] \in State
    BY DEF TypeOK, State
  <2> QED
    BY <1>1, <1>8, <2>1 DEF AddCheckpoint
<1>9. CASE InitSave
  BY <1>1, <1>9 DEF InitSave, TypeOK
<1>10. ASSUME NEW t \in Tasks, AddTask(t) PROVE TypeOK'
  <2>1. [state EXCEPT !.tasks = @ \cup {t}] \in State
    BY DEF TypeOK, State
  <2> QED
    BY <1>1, <1>10, <2>1 DEF AddTask
<1>11. ASSUME NEW f \in Fleets, FleetRun(f) PROVE TypeOK'
  <2>1. [state EXCEPT !.fleet = f] \in State
    BY DEF TypeOK, State
  <2> QED
    BY <1>1, <1>11, <2>1 DEF FleetRun
<1>12. CASE CopyJson
  BY <1>12 DEF TypeOK, CopyJson
<1>13. CASE CopyMd
  BY <1>13 DEF TypeOK, CopyMd
<1>14. CASE ReplaceJson
  BY <1>14 DEF TypeOK, ReplaceJson
<1>15. CASE ReplaceMd
  BY <1>15 DEF TypeOK, ReplaceMd
<1>16. CASE RestoreJson
  BY <1>16 DEF TypeOK, RestoreJson
<1>17. CASE Kill
  BY <1>17 DEF TypeOK, Kill
<1>18. CASE UNCHANGED vars
  BY <1>18 DEF TypeOK, vars
<1> QED
  BY <1>2, <1>3, <1>4, <1>5, <1>6, <1>7, <1>8, <1>9, <1>10, <1>11, <1>12, <1>13, <1>14,
     <1>15, <1>16, <1>17, <1>18 DEF Next

(* Whatever a command does or is interrupted in, every file of PDState     *)
(* holds a state of a configured phase or does not load.                   *)
THEOREM TypeCorrect == Spec => []TypeOK
BY InitTypeOK, NextTypeOK, PTL DEF Spec

-----------------------------------------------------------------------------
(* What each step of _write_transaction may rely on: the files it has not  *)
(* touched yet are those it began with, and the backup of a STATE.json     *)
(* that existed is a copy of it.                                           *)
TransactionInv ==
    /\ pc # "idle" => outcome = "none"
    /\ json.kind = "absent" => json = Absent
    /\ jsonBak.kind = "absent" => jsonBak = Absent
    /\ pc \in {"copyJson", "copyMd", "replaceJson"} => before = <<json, md>>
    /\ pc \in {"copyMd", "replaceJson"} => (json.kind # "absent" => jsonBak = json)
    /\ pc \in {"replaceMd", "restoreJson"} =>
           /\ json = Whole(state) /\ before[2] = md /\ before = <<before[1], before[2]>>
           /\ before[1].kind = "absent" => before[1] = Absent
           /\ before[1].kind # "absent" => jsonBak = before[1]
    /\ RestoredOnFailure

(* Every step keeps what _write_transaction relies on.                     *)
LEMMA NextTransactionInv ==
    ASSUME TransactionInv, [Next]_vars
    PROVE  TransactionInv'
<1> USE DEF TransactionInv, RestoredOnFailure
<1>1. ASSUME NEW s, Save(s) PROVE TransactionInv'
  BY <1>1 DEF Save
<1>2. CASE Load
  BY <1>2 DEF Load, LoadWith
<1>3. CASE LoadMigrating
  BY <1>3 DEF LoadMigrating, WriteJson, LoadWith, Whole
<1>4. CASE LoadBackup
  BY <1>4 DEF LoadBackup, LoadWith
<1>5. CASE Repair
  BY <1>5 DEF Repair, Torn
<1>6. CASE Close
  BY <1>6 DEF Close
<1>7. CASE AdvancePhase
  BY <1>1, <1>7 DEF AdvancePhase
<1>8. CASE AddCheckpoint
  BY <1>1, <1>8 DEF AddCheckpoint
<1>9. CASE InitSave
  BY <1>1, <1>9 DEF InitSave
<1>10. ASSUME NEW t \in Tasks, AddTask(t) PROVE TransactionInv'
  BY <1>1, <1>10 DEF AddTask
<1>11. ASSUME NEW f \in Fleets, FleetRun(f) PROVE TransactionInv'
  BY <1>1, <1>11 DEF FleetRun
<1>12. CASE CopyJson
  BY <1>12 DEF CopyJson, Torn
<1>13. CASE CopyMd
  BY <1>13 DEF CopyMd
<1>14. CASE ReplaceJson
  BY <1>14 DEF ReplaceJson, Whole
<1>15. CASE ReplaceMd
  BY <1>15 DEF ReplaceMd
<1>16. CASE RestoreJson
  BY <1>16 DEF RestoreJson, Torn, Whole
<1>17. CASE Kill
  BY <1>17 DEF Kill, Torn
<1>18. CASE UNCHANGED vars
  BY <1>18 DEF vars
<1> QED
  BY <1>2, <1>3, <1>4, <1>5, <1>6, <1>7, <1>8, <1>9, <1>10, <1>11, <1>12, <1>13, <1>14,
     <1>15, <1>16, <1>17, <1>18 DEF Next

(* A save that raises, whatever it was doing, has left STATE.json and      *)
(* STATE.md as they were (_write_transaction).                             *)
THEOREM RaisingChangesNothing == Spec => []RestoredOnFailure
<1>1. Init => TransactionInv
  BY DEF Init, TransactionInv, RestoredOnFailure
<1>2. TransactionInv => RestoredOnFailure
  BY DEF TransactionInv
<1> QED
  BY <1>1, <1>2, NextTransactionInv, PTL DEF Spec

-----------------------------------------------------------------------------
Known == {acked} \cup tried

(* What STATE.md alone would give.                                         *)
Mirror == IF md.kind = "whole" THEN ParseStateMd(md.state) ELSE DefaultState

(* Every source a load may turn to holds a known state; a command that has *)
(* a torn STATE.json in front of it when it saves, which it will copy over *)
(* the backup, has failed to repair it.  STATE.md mirrors the state whose  *)
(* save returned last.                                                     *)
SourcesInv ==
    /\ json.kind \in {"whole", "torn", "absent"}
    /\ Mirror = ParseStateMd(acked)
    /\ json.kind = "whole" => json.state \in Known
    /\ json.kind = "torn" => IF jsonBak.kind = "whole" THEN jsonBak.state \in Known
                             ELSE unrepaired
    /\ json.kind = "absent" => Mirror \in Known
    /\ pc \notin {"idle", "repair"} /\ json.kind = "torn" => unrepaired
    /\ pc = "repair" => json.kind = "torn" /\ jsonBak.kind = "whole"
    /\ pc \in {"copyJson", "copyMd", "replaceJson", "replaceMd", "restoreJson"} => state \in Known
    /\ pc \in {"replaceMd", "restoreJson"} =>
           /\ before[1].kind \in {"whole", "torn", "absent"}
           /\ before[1].kind = "absent" => Mirror \in Known
           /\ before[1].kind = "torn" => unrepaired
           /\ before[1].kind = "whole" => before[1].state \in Known

(* Every step keeps a source of a saved state in place.                    *)
LEMMA NextSourcesInv ==
    ASSUME TransactionInv, SourcesInv, [Next]_vars
    PROVE  SourcesInv'
<1> USE DEF SourcesInv, Known, Mirror
<1>1. ASSUME NEW s, Save(s) PROVE SourcesInv'
  BY <1>1 DEF Save
<1>2. CASE Load
  BY <1>2 DEF Load, LoadWith, OnlyBackup, OnlyMarkdown
<1>3. CASE LoadMigrating
  BY <1>3 DEF LoadMigrating, WriteJson, LoadWith, LoadState, OnlyMarkdown, Whole
<1>4. CASE LoadBackup
  BY <1>4 DEF LoadBackup, LoadWith, OnlyBackup
<1>5. CASE Repair
  BY <1>5 DEF Repair, Torn
<1>6. CASE Close
  BY <1>6 DEF Close
<1>7. CASE AdvancePhase
  BY <1>1, <1>7 DEF AdvancePhase
<1>8. CASE AddCheckpoint
  BY <1>1, <1>8 DEF AddCheckpoint
<1>9. CASE InitSave
  BY <1>1, <1>9 DEF InitSave
<1>10. ASSUME NEW t \in Tasks, AddTask(t) PROVE SourcesInv'
  BY <1>1, <1>10 DEF AddTask
<1>11. ASSUME NEW f \in Fleets, FleetRun(f) PROVE SourcesInv'
  BY <1>1, <1>11 DEF FleetRun
<1>12. CASE CopyJson
  BY <1>12 DEF CopyJson, Torn
<1>13. CASE CopyMd
  BY <1>13 DEF CopyMd
<1>14. CASE ReplaceJson
  BY <1>14 DEF ReplaceJson, Whole, TransactionInv
<1>15. CASE ReplaceMd
  BY <1>15 DEF ReplaceMd, Whole, TransactionInv
<1>16. CASE RestoreJson
  BY <1>16 DEF RestoreJson, Torn, Whole, Absent, TransactionInv
<1>17. CASE Kill
  BY <1>17 DEF Kill, Torn, TransactionInv
<1>18. CASE UNCHANGED vars
  BY <1>18 DEF vars
<1> QED
  BY <1>2, <1>3, <1>4, <1>5, <1>6, <1>7, <1>8, <1>9, <1>10, <1>11, <1>12, <1>13, <1>14,
     <1>15, <1>16, <1>17, <1>18 DEF Next

(* No interruption of a save, of its recovery or of a repair loses a saved *)
(* state; only after a repair that failed may its checkpoints be lost.     *)
THEOREM SavesAreSafe == Spec => []SavedStateSurvives
<1>1. Init => TransactionInv /\ SourcesInv
  <2> SUFFICES ASSUME Init PROVE TransactionInv /\ SourcesInv
    OBVIOUS
  <2>1. /\ json = Absent /\ jsonBak = Absent /\ pc = "idle" /\ outcome = "none"
        /\ acked = LoadState
    BY DEF Init
  <2>2. LoadState = Mirror
    BY <2>1 DEF LoadState, Mirror, Absent
  <2>3. Mirror = ParseStateMd(Mirror)
    <3>1. \A s : ParseStateMd(ParseStateMd(s)) = ParseStateMd(s)
      BY DEF ParseStateMd
    <3>2. ParseStateMd(DefaultState) = DefaultState
      BY DEF ParseStateMd, DefaultState
    <3> QED
      BY <3>1, <3>2 DEF Mirror
  <2> QED
    BY <2>1, <2>2, <2>3 DEF TransactionInv, RestoredOnFailure, SourcesInv, Known, Absent
<1>2. SourcesInv => SavedStateSurvives
  BY DEF SourcesInv, SavedStateSurvives, LoadState, Known, Mirror
<1> QED
  BY <1>1, <1>2, NextTransactionInv, NextSourcesInv, PTL DEF Spec

-----------------------------------------------------------------------------
(* Feature directories.  A directory counts as 0 when there is none, and   *)
(* what init has finished, or is at work on, is a directory.               *)
DirTypes ==
    /\ made \in Nat /\ dir \in [Names -> Nat]
    /\ archive \in [Names -> Seq(Nat)]
    /\ making \subseteq Names /\ \A n \in making : dir[n] # 0
    /\ 0 \notin inits

InPlace(d) == \E n \in Names : dir[n] = d /\ d \in stateful
InArchive(d) == \E n \in Names : \E i \in DOMAIN archive[n] : archive[n][i] = d

DirInv == DirTypes /\ \A d \in inits \ deleted : InPlace(d) \/ InArchive(d)

(* A directory that no step touches is accounted for as before.            *)
LEMMA StaysInPlace ==
    ASSUME NEW d, InPlace(d), \A n \in Names : dir[n] = d => dir'[n] = d,
           d \in stateful'
    PROVE  InPlace(d)'
BY DEF InPlace

(* So is one in the archive.                                               *)
LEMMA StaysInArchive ==
    ASSUME NEW d, InArchive(d), archive' = archive
    PROVE  InArchive(d)'
BY DEF InArchive

(* Every command, and every kill, keeps account of the directories.        *)
LEMMA NextDirInv ==
    ASSUME DirInv, [DirNext]_dirVars
    PROVE  DirInv'
<1> USE DEF DirInv
<1>1. ASSUME NEW n \in Names, MakeDirectory(n) PROVE DirInv'
  <2>1. DirTypes'
    BY <1>1 DEF MakeDirectory, DirTypes
  <2>2. ASSUME NEW d \in inits' \ deleted' PROVE InPlace(d)' \/ InArchive(d)'
    <3>1. d # 0 /\ d \in inits \ deleted
      BY <1>1, <2>2 DEF MakeDirectory, DirTypes
    <3>2. CASE InPlace(d)
      <4>1. \A m \in Names : dir[m] = d => dir'[m] = d
        BY <1>1, <3>1 DEF MakeDirectory, DirTypes
      <4>2. d \in stateful'
        BY <1>1, <3>2 DEF MakeDirectory, InPlace
      <4> QED
        BY <3>2, <4>1, <4>2, StaysInPlace
    <3>3. CASE InArchive(d)
      BY <1>1, <3>3, StaysInArchive DEF MakeDirectory
    <3> QED
      BY <3>1, <3>2, <3>3
  <2> QED
    BY <2>1, <2>2
<1>2. CASE SaveFirstState
  <2>1. PICK n \in making :
            /\ stateful' = stateful \cup {dir[n]} /\ inits' = inits \cup {dir[n]}
            /\ making' = {} /\ UNCHANGED <<made, dir, archive, deleted, answered>>
    BY <1>2 DEF SaveFirstState
  <2>2. DirTypes'
    BY <2>1 DEF DirTypes
  <2>3. ASSUME NEW d \in inits' \ deleted' PROVE InPlace(d)' \/ InArchive(d)'
    <3>1. CASE d = dir[n]
      BY <2>1, <3>1 DEF InPlace, DirTypes
    <3>2. CASE d # dir[n] /\ InPlace(d)
      BY <2>1, <3>2, StaysInPlace DEF InPlace
    <3>3. CASE d # dir[n] /\ InArchive(d)
      BY <2>1, <3>3, StaysInArchive
    <3> QED
      BY <2>1, <3>1, <3>2, <3>3
  <2> QED
    BY <2>2, <2>3
<1>3. CASE InitKilled
  BY <1>3 DEF InitKilled, DirTypes, InPlace, InArchive
<1>4. CASE SaveState
  BY <1>4 DEF SaveState, DirTypes, InPlace, InArchive
<1>5. CASE RemoveTree
  <2>1. PICK n \in Names :
            /\ making = {} /\ UNCHANGED <<made, making, inits, archive>>
            /\ dir' = [dir EXCEPT ![n] = 0] /\ stateful' = stateful \ {dir[n]}
            /\ deleted' = deleted \cup {dir[n]}
    BY <1>5 DEF RemoveTree, DeleteOf
  <2>2. DirTypes'
    BY <2>1 DEF DirTypes
  <2>3. ASSUME NEW d \in inits' \ deleted' PROVE InPlace(d)' \/ InArchive(d)'
    <3>1. d # dir[n] /\ d \in inits \ deleted
      BY <2>1, <2>3
    <3>2. CASE InPlace(d)
      <4>1. \A m \in Names : dir[m] = d => dir'[m] = d
        BY <2>1, <3>1 DEF DirTypes
      <4>2. d \in stateful'
        BY <2>1, <3>1, <3>2 DEF InPlace
      <4> QED
        BY <3>2, <4>1, <4>2, StaysInPlace
    <3>3. CASE InArchive(d)
      BY <2>1, <3>3, StaysInArchive
    <3> QED
      BY <3>1, <3>2, <3>3
  <2> QED
    BY <2>2, <2>3
<1>6. CASE RemovalKilled
  <2>1. PICK n \in Names :
            /\ UNCHANGED <<made, dir, archive, making, inits>>
            /\ stateful' \in {stateful, stateful \ {dir[n]}} /\ deleted' = deleted \cup {dir[n]}
    BY <1>6 DEF RemovalKilled
  <2>2. DirTypes'
    BY <2>1 DEF DirTypes
  <2>3. ASSUME NEW d \in inits' \ deleted' PROVE InPlace(d)' \/ InArchive(d)'
    <3>1. d # dir[n] /\ d \in inits \ deleted
      BY <2>1, <2>3
    <3>2. CASE InPlace(d)
      BY <2>1, <3>1, <3>2, StaysInPlace DEF InPlace
    <3>3. CASE InArchive(d)
      BY <2>1, <3>3, StaysInArchive
    <3> QED
      BY <3>1, <3>2, <3>3
  <2> QED
    BY <2>2, <2>3
<1>7. CASE ArchiveDirectory
  <2>1. PICK n \in Names :
            /\ making = {} /\ UNCHANGED <<made, making, inits, stateful, deleted>>
            /\ archive' = [archive EXCEPT ![n] = Append(archive[n], dir[n])]
            /\ dir' = [dir EXCEPT ![n] = 0]
    BY <1>7 DEF ArchiveDirectory, DeleteOf, Archived
  <2>2. archive[n] \in Seq(Nat) /\ dir[n] \in Nat
    BY DEF DirTypes
  <2>3. DirTypes'
    BY <2>1, <2>2 DEF DirTypes
  <2>4. ASSUME NEW d \in inits' \ deleted' PROVE InPlace(d)' \/ InArchive(d)'
    <3>1. d \in inits \ deleted
      BY <2>1, <2>4
    <3>2. CASE InPlace(d) /\ d # dir[n]
      <4>1. \A m \in Names : dir[m] = d => dir'[m] = d
        BY <2>1, <3>2 DEF DirTypes
      <4> QED
        BY <2>1, <3>2, <4>1, StaysInPlace DEF InPlace
    <3>3. CASE d = dir[n]
      <4>1. archive'[n] = Append(archive[n], dir[n])
        BY <2>1 DEF DirTypes
      <4>2. Len(archive[n]) + 1 \in DOMAIN archive'[n] /\ archive'[n][Len(archive[n]) + 1] = d
        BY <2>2, <3>3, <4>1
      <4> QED
        BY <4>2 DEF InArchive
    <3>4. CASE InArchive(d)
      <4>0. PICK m \in Names : \E i \in DOMAIN archive[m] : archive[m][i] = d
        BY <3>4 DEF InArchive
      <4>1. PICK i \in DOMAIN archive[m] : archive[m][i] = d
        BY <4>0
      <4>2. archive[m] \in Seq(Nat)
        BY DEF DirTypes
      <4>3. archive'[m] \in {archive[m], Append(archive[m], dir[n])}
        BY <2>1 DEF DirTypes
      <4>4. \A s \in Seq(Nat), x \in Nat : \A j \in DOMAIN s :
                j \in DOMAIN Append(s, x) /\ Append(s, x)[j] = s[j]
        OBVIOUS
      <4>5. i \in DOMAIN archive'[m] /\ archive'[m][i] = d
        BY <2>2, <4>1, <4>2, <4>3, <4>4, Zenon
      <4> QED
        BY <4>5 DEF InArchive
    <3> QED
      BY <3>1, <3>2, <3>3, <3>4
  <2> QED
    BY <2>3, <2>4
<1>8. CASE UNCHANGED dirVars
  BY <1>8 DEF dirVars, DirTypes, InPlace, InArchive
<1> QED
  BY <1>1, <1>2, <1>3, <1>4, <1>5, <1>6, <1>7, <1>8 DEF DirNext

(* However features are made, archived, made again and deleted, and        *)
(* wherever a command is killed: one whose init returned is found by its   *)
(* name, or is in the archive, or was deleted.                             *)
THEOREM FeaturesAccounted == DirSpec => []FeaturesAccountedFor
<1>1. DirInit => DirInv
  BY DEF DirInit, DirInv, DirTypes
<1>2. DirInv => FeaturesAccountedFor
  <2> SUFFICES ASSUME DirInv, NEW d \in inits \ deleted
               PROVE  \/ \E n \in Names : dir[n] = d /\ n \in Found({n})
                      \/ \E n \in Names : \E i \in DOMAIN archive[n] : archive[n][i] = d
    BY DEF FeaturesAccountedFor
  <2>1. CASE InPlace(d)
    <3>1. PICK n \in Names : dir[n] = d /\ d \in stateful
      BY <2>1 DEF InPlace
    <3>2. n \in Found({n})
      BY <3>1 DEF Found
    <3> QED
      BY <3>1, <3>2
  <2>2. CASE InArchive(d)
    BY <2>2 DEF InArchive
  <2> QED
    BY <2>1, <2>2 DEF DirInv
<1> QED
  BY <1>1, <1>2, NextDirInv, PTL DEF DirSpec

-----------------------------------------------------------------------------
(* The activity bus.                                                       *)
(* An event has a status if and only if it is a session's.                 *)
Statuses == {"waiting", "running", "done"}
StatusesOf(run) == IF run \in Sessions THEN Statuses ELSE {""}
Events == {ev \in [run : Runs, ts : Nat, status : Statuses \cup {""}, legible : BOOLEAN] :
              ev.status \in StatusesOf(ev.run)}
Marks == [Runs -> Nat]

(* An event that is a line of the bus, or one that an emitter is about to  *)
(* append, covers a watermark that is not above it.                        *)
CoveredBy(lines, r, mark) == \E i \in DOMAIN lines : lines[i].run = r /\ lines[i].ts >= mark
Covers(lines, of) == \A r \in Runs : of[r] > 0 => CoveredBy(lines, r, of[r])

BusTypes ==
    /\ wall \in Nat
    /\ db \in [Runs -> [began : Nat, active : Nat, ended : Nat]]
    /\ bus \in Seq(Events)
    /\ marks \in [whole : BOOLEAN, of : Marks]
    /\ emitter \in [Emitters -> [at : {"read", "append", "truncate", "fill"},
                                 fresh : Seq(Events), marks : Marks]]

(* An emitter that still has to append has new watermarks only for what it *)
(* is going to append; the others are covered, as are those of state.json. *)
EmitterCovered(e) ==
    /\ emitter[e].at \in {"truncate", "fill"} => Covers(bus, emitter[e].marks)
    /\ emitter[e].at = "append" =>
          \A r \in Runs : emitter[e].marks[r] > 0 =>
              \/ CoveredBy(bus, r, emitter[e].marks[r])
              \/ CoveredBy(emitter[e].fresh, r, emitter[e].marks[r])

BusInv ==
    /\ BusTypes
    /\ Covers(bus, marks.of)
    /\ \A e \in Emitters : EmitterCovered(e)

(* No watermarks are covered by anything.                                  *)
LEMMA NoMarksCovered == NoMarks \in Marks /\ \A lines : Covers(lines, NoMarks)
BY DEF NoMarks, Marks, Covers

LEMMA RestingIsTyped ==
    Resting \in [at : {"read", "append", "truncate", "fill"}, fresh : Seq(Events), marks : Marks]
BY NoMarksCovered DEF Resting

(* What is on the bus stays there, so what it covers stays covered.        *)
LEMMA LongerCovers ==
    ASSUME NEW b \in Seq(Events), NEW lines \in Seq(Events), NEW r, NEW mark,
           CoveredBy(b, r, mark) \/ CoveredBy(lines, r, mark)
    PROVE  CoveredBy(b \o lines, r, mark)
<1>1. ASSUME NEW i \in DOMAIN b PROVE i \in DOMAIN (b \o lines) /\ (b \o lines)[i] = b[i]
  OBVIOUS
<1>2. ASSUME NEW i \in DOMAIN lines
      PROVE  Len(b) + i \in DOMAIN (b \o lines) /\ (b \o lines)[Len(b) + i] = lines[i]
  OBVIOUS
<1> QED
  BY <1>1, <1>2, Zenon DEF CoveredBy

(* The lines as they are written: only whether they are legible changes.   *)
LEMMA WrittenCovers ==
    ASSUME BusTypes, NEW lines \in Seq(Events)
    PROVE  /\ Written(lines) \in Seq(Events)
           /\ \A r, mark : CoveredBy(bus, r, mark) \/ CoveredBy(lines, r, mark)
                             => CoveredBy(Written(lines), r, mark)
<1> DEFINE glued == [i \in DOMAIN lines |-> [lines[i] EXCEPT !.legible = ~(cut /\ i = 1)]]
<1>1. \A i \in DOMAIN lines : lines[i] \in Events
  OBVIOUS
<1>2. \A i \in DOMAIN lines :
          glued[i] \in Events /\ glued[i].run = lines[i].run /\ glued[i].ts = lines[i].ts
  BY <1>1 DEF Events
<1>3. glued \in Seq(Events) /\ DOMAIN glued = DOMAIN lines
  BY <1>2
<1>4. bus \in Seq(Events) /\ Written(lines) = bus \o glued
  BY DEF BusTypes, Written
<1> HIDE DEF glued
<1>5. \A r, mark : CoveredBy(lines, r, mark) => CoveredBy(glued, r, mark)
  BY <1>2, <1>3 DEF CoveredBy
<1>6. \A r, mark : CoveredBy(bus, r, mark) \/ CoveredBy(glued, r, mark) => CoveredBy(bus \o glued, r, mark)
  BY <1>3, <1>4, LongerCovers
<1> QED
  BY <1>3, <1>4, <1>5, <1>6

(* The events of a query are a sequence of events.                         *)
LEMMA QueriesGiveEvents ==
    ASSUME BusTypes
    PROVE  SessionEvents \subseteq Seq(Events) /\ GatewayEvents \subseteq Seq(Events)
<1>1. ASSUME NEW S, S \subseteq Runs, IsFiniteSet(S), NEW q \in SetToSeqs(S)
      PROVE  \E n \in Nat : q \in [1 .. n -> S]
  BY <1>1, FS_CardinalityType DEF SetToSeqs
<1>2. IsFiniteSet(Sessions) /\ IsFiniteSet(Gateways) /\ Sessions \subseteq Runs /\ Gateways \subseteq Runs
  BY BusAssumption DEF Runs
<1>3. ASSUME NEW r \in Runs, NEW status \in StatusesOf(r) PROVE Event(r, status) \in Events
  <2>1. status \in Statuses \cup {""}
    BY DEF StatusesOf
  <2>2. db[r].active \in Nat
    BY DEF BusTypes
  <2> QED
    BY <2>1, <2>2 DEF Event, Events
<1>4. SessionEvents \subseteq Seq(Events)
  <2> SUFFICES ASSUME NEW x \in SessionEvents PROVE x \in Seq(Events)
    OBVIOUS
  <2> DEFINE status(s) == IF db[s].ended > 0 THEN "done"
                          ELSE IF wall - db[s].active <= RunningFresh THEN "running" ELSE "waiting"
             recent == {s \in Sessions : db[s].began > 0 /\ db[s].active >= wall - Window}
  <2>1. PICK q \in SetToSeqs(Fresh(recent)) : x = [i \in DOMAIN q |-> Event(q[i], status(q[i]))]
    BY DEF SessionEvents, InOrder
  <2>2. Fresh(recent) \subseteq Sessions /\ IsFiniteSet(Fresh(recent))
    BY <1>2, FS_Subset DEF Fresh
  <2>3. PICK n \in Nat : q \in [1 .. n -> Fresh(recent)]
    BY <1>1, <1>2, <2>1, <2>2
  <2>4. \A i \in 1 .. n : q[i] \in Runs /\ q[i] \in Sessions
    BY <1>2, <2>2, <2>3
  <2>5. \A s \in Sessions : status(s) \in StatusesOf(s)
    BY Zenon DEF Statuses, StatusesOf
  <2>6. \A i \in 1 .. n : Event(q[i], status(q[i])) \in Events
    BY <1>3, <2>4, <2>5, Zenon
  <2> HIDE DEF status, recent
  <2> QED
    BY <2>1, <2>3, <2>6
<1>5. GatewayEvents \subseteq Seq(Events)
  <2> SUFFICES ASSUME NEW x \in GatewayEvents PROVE x \in Seq(Events)
    OBVIOUS
  <2> DEFINE known == {g \in Gateways : db[g].began > 0}
  <2>1. PICK q \in SetToSeqs(Fresh(known)) : x = [i \in DOMAIN q |-> Event(q[i], "")]
    BY DEF GatewayEvents, InOrder
  <2>2. Fresh(known) \subseteq Gateways /\ IsFiniteSet(Fresh(known))
    BY <1>2, FS_Subset DEF Fresh
  <2>3. PICK n \in Nat : q \in [1 .. n -> Fresh(known)]
    BY <1>1, <1>2, <2>1, <2>2
  <2>4. \A i \in 1 .. n : q[i] \in Runs /\ "" \in StatusesOf(q[i])
    BY <1>2, <2>2, <2>3, BusAssumption DEF StatusesOf
  <2> DEFINE beat(g) == Event(g, "")
  <2>5. \A i \in 1 .. n : beat(q[i]) \in Events
    BY <1>3, <2>4, Zenon
  <2>6. x = [i \in 1 .. n |-> beat(q[i])]
    BY <2>1, <2>3
  <2> HIDE DEF known, beat
  <2> QED
    BY <2>5, <2>6
<1> QED
  BY <1>4, <1>5

(* New watermarks are the old ones or times of fresh events.               *)
LEMMA AdvancedIsCovered ==
    ASSUME NEW of \in Marks, NEW fresh \in Seq(Events)
    PROVE  /\ Advanced(of, fresh) \in Marks
           /\ \A r \in Runs : \/ Advanced(of, fresh)[r] = of[r]
                              \/ CoveredBy(fresh, r, Advanced(of, fresh)[r])
<1>1. \A i \in DOMAIN fresh : fresh[i] \in Events
  OBVIOUS
<1>2. ASSUME NEW r \in Runs
      PROVE  /\ Advanced(of, fresh)[r] \in Nat
             /\ \/ Advanced(of, fresh)[r] = of[r]
                \/ CoveredBy(fresh, r, Advanced(of, fresh)[r])
  <2>1. CASE \E i \in DOMAIN fresh : fresh[i].run = r
    <3> DEFINE first == CHOOSE i \in DOMAIN fresh : fresh[i].run = r
    <3>1. first \in DOMAIN fresh /\ fresh[first].run = r
      BY <2>1
    <3>2. Advanced(of, fresh)[r] = fresh[first].ts
      BY <2>1 DEF Advanced
    <3> HIDE DEF first
    <3>3. fresh[first].ts \in Nat
      BY <1>1, <3>1 DEF Events
    <3> QED
      BY <3>1, <3>2, <3>3 DEF CoveredBy
  <2>2. CASE ~\E i \in DOMAIN fresh : fresh[i].run = r
    BY <2>2 DEF Advanced, Marks
  <2> QED
    BY <2>1, <2>2
<1>3. Advanced(of, fresh) = [r \in Runs |-> Advanced(of, fresh)[r]]
  BY DEF Advanced
<1> QED
  BY <1>2, <1>3 DEF Marks

(* What a step of one emitter leaves of the invariant to show: what it     *)
(* covers itself, when nothing that the bus covers gets lost.              *)
LEMMA OneEmitterMoves ==
    ASSUME BusInv, BusTypes', NEW e \in Emitters,
           \A r, mark : CoveredBy(bus, r, mark) => CoveredBy(bus', r, mark),
           \A f \in Emitters \ {e} : emitter'[f] = emitter[f],
           Covers(bus', marks'.of), EmitterCovered(e)'
    PROVE  BusInv'
<1>1. ASSUME NEW f \in Emitters \ {e} PROVE EmitterCovered(f)'
  BY DEF BusInv, EmitterCovered, Covers
<1> QED
  BY <1>1 DEF BusInv

(* Every step of the gateway and of every emitter keeps the watermarks     *)
(* covered.                                                                *)
LEMMA NextBusInv ==
    ASSUME BusInv, [BusNext]_busVars
    PROVE  BusInv'
<1> DEFINE Where == [at : {"read", "append", "truncate", "fill"}, fresh : Seq(Events), marks : Marks]
<1>0. BusTypes /\ Covers(bus, marks.of) /\ \A e \in Emitters : EmitterCovered(e)
  BY DEF BusInv
<1>1. ASSUME BusTypes', UNCHANGED <<bus, marks, emitter>> PROVE BusInv'
  BY <1>0, <1>1 DEF BusInv, EmitterCovered
<1>2. CASE TimePasses
  BY <1>0, <1>1, <1>2 DEF TimePasses, BusTypes
<1>3. ASSUME NEW r \in Runs, Activity(r) PROVE BusInv'
  <2>1. db' \in [Runs -> [began : Nat, active : Nat, ended : Nat]]
    BY <1>0, <1>3 DEF Activity, BusTypes
  <2> QED
    BY <1>0, <1>1, <1>3, <2>1 DEF Activity, BusTypes
<1>4. ASSUME NEW s \in Sessions, SessionEnds(s) PROVE BusInv'
  <2>1. s \in Runs
    BY DEF Runs
  <2>2. db' \in [Runs -> [began : Nat, active : Nat, ended : Nat]]
    BY <1>0, <1>4, <2>1 DEF SessionEnds, BusTypes
  <2> QED
    BY <1>0, <1>1, <1>4, <2>2 DEF SessionEnds, BusTypes
<1>5. ASSUME NEW e \in Emitters PROVE emitter \in [Emitters -> Where] /\ emitter[e] \in Where
  BY <1>0 DEF BusTypes
<1>6. ASSUME NEW e \in Emitters, NEW where \in Where, emitter' = [emitter EXCEPT ![e] = where]
      PROVE  /\ emitter' \in [Emitters -> Where] /\ emitter'[e] = where
             /\ \A f \in Emitters \ {e} : emitter'[f] = emitter[f]
  BY <1>5, <1>6
<1>7. Resting \in Where /\ Resting.at = "read"
  BY RestingIsTyped DEF Resting
<1>8. ASSUME NEW e \in Emitters, Read(e) PROVE BusInv'
  <2>1. PICK sessions \in SessionEvents, gateways \in GatewayEvents :
            LET fresh == sessions \o gateways
            IN /\ emitter' = [emitter EXCEPT ![e] = [at |-> "append", fresh |-> fresh,
                                                     marks |-> Advanced(Loaded, fresh)]]
               /\ UNCHANGED <<wall, db, bus, cut, marks>>
    BY <1>8 DEF Read, After
  <2> DEFINE fresh == sessions \o gateways
  <2>2. fresh \in Seq(Events)
    BY <1>0, QueriesGiveEvents, ConcatProperties
  <2> HIDE DEF fresh
  <2>3. Loaded \in Marks /\ Covers(bus, Loaded)
    BY <1>0, NoMarksCovered DEF Loaded, BusTypes
  <2> DEFINE new == Advanced(Loaded, fresh)
             where == [at |-> "append", fresh |-> fresh, marks |-> new]
  <2>4. new \in Marks /\ \A r \in Runs : new[r] = Loaded[r] \/ CoveredBy(fresh, r, new[r])
    BY <2>2, <2>3, AdvancedIsCovered
  <2>5. emitter' = [emitter EXCEPT ![e] = where] /\ UNCHANGED <<wall, db, bus, cut, marks>>
    BY <2>1 DEF fresh
  <2> HIDE DEF new
  <2>6. where \in Where
    BY <2>2, <2>4
  <2>7. where.at = "append" /\ where.fresh = fresh /\ where.marks = new
    OBVIOUS
  <2> HIDE DEF where
  <2>8. emitter' \in [Emitters -> Where] /\ emitter'[e] = where /\ \A f \in Emitters \ {e} : emitter'[f] = emitter[f]
    BY <1>6, <2>5, <2>6
  <2>9. BusTypes'
    BY <1>0, <2>5, <2>8 DEF BusTypes
  <2>10. EmitterCovered(e)'
    BY <2>3, <2>4, <2>5, <2>7, <2>8 DEF EmitterCovered, Covers
  <2> QED
    BY <1>0, <2>5, <2>8, <2>9, <2>10, OneEmitterMoves
<1>9. ASSUME NEW e \in Emitters, AppendEvents(e) PROVE BusInv'
  <2>1. /\ emitter[e].at = "append" /\ bus' = Written(emitter[e].fresh)
        /\ UNCHANGED <<wall, db, marks>>
        /\ emitter' = [emitter EXCEPT ![e] = [emitter[e] EXCEPT !.at = "truncate"]]
    BY <1>5, <1>9 DEF AppendEvents, Moved, After
  <2> DEFINE where == [emitter[e] EXCEPT !.at = "truncate"]
  <2>2. where \in Where /\ where.at = "truncate" /\ where.marks = emitter[e].marks
        /\ emitter[e].fresh \in Seq(Events)
    BY <1>5
  <2> HIDE DEF where
  <2>3. emitter' \in [Emitters -> Where] /\ emitter'[e] = where /\ \A f \in Emitters \ {e} : emitter'[f] = emitter[f]
    BY <1>6, <2>1, <2>2 DEF where
  <2>4. /\ bus' \in Seq(Events)
        /\ \A r, mark : CoveredBy(bus, r, mark) \/ CoveredBy(emitter[e].fresh, r, mark)
                          => CoveredBy(bus', r, mark)
    BY <1>0, <2>1, <2>2, WrittenCovers
  <2>5. BusTypes'
    BY <1>0, <2>1, <2>3, <2>4 DEF BusTypes
  <2>6. Covers(bus', marks'.of)
    BY <1>0, <2>1, <2>4 DEF Covers
  <2>7. EmitterCovered(e)'
    <3>1. EmitterCovered(e)
      BY <1>0
    <3>2. \A r \in Runs : emitter[e].marks[r] > 0 => CoveredBy(bus', r, emitter[e].marks[r])
      BY <2>1, <2>4, <3>1 DEF EmitterCovered
    <3>3. Covers(bus', where.marks)
      BY <2>2, <3>2 DEF Covers
    <3> QED
      BY <2>2, <2>3, <3>3 DEF EmitterCovered
  <2> QED
    BY <2>3, <2>4, <2>5, <2>6, <2>7, OneEmitterMoves
<1>10. ASSUME NEW e \in Emitters, AppendCutShort(e) PROVE BusInv'
  <2>1. PICK n \in 0 .. Len(emitter[e].fresh) - 1 : bus' = Written(SubSeq(emitter[e].fresh, 1, n))
    BY <1>10 DEF AppendCutShort
  <2>2. emitter' = [emitter EXCEPT ![e] = Resting] /\ UNCHANGED <<wall, db, marks>>
    BY <1>10 DEF AppendCutShort
  <2>3. emitter[e].fresh \in Seq(Events)
    BY <1>5
  <2>4. SubSeq(emitter[e].fresh, 1, n) \in Seq(Events)
    <3>1. \A i \in 1 .. n : emitter[e].fresh[i] \in Events
      BY <2>3, <2>1
    <3> QED
      BY <2>3, <3>1, SubSeqProperties
  <2>5. bus' \in Seq(Events) /\ \A r, mark : CoveredBy(bus, r, mark) => CoveredBy(bus', r, mark)
    BY <1>0, <2>1, <2>4, WrittenCovers
  <2>6. emitter' \in [Emitters -> Where] /\ emitter'[e] = Resting /\ \A f \in Emitters \ {e} : emitter'[f] = emitter[f]
    BY <1>6, <1>7, <2>2
  <2>7. BusTypes'
    BY <1>0, <2>2, <2>5, <2>6 DEF BusTypes
  <2>8. Covers(bus', marks'.of)
    BY <1>0, <2>2, <2>5 DEF Covers
  <2>9. EmitterCovered(e)'
    BY <1>7, <2>6 DEF EmitterCovered
  <2> QED
    BY <2>5, <2>6, <2>7, <2>8, <2>9, OneEmitterMoves
<1>11. ASSUME NEW e \in Emitters, TruncateState(e) PROVE BusInv'
  <2>1. /\ emitter[e].at = "truncate" /\ UNCHANGED <<wall, db, bus>>
        /\ marks' = [whole |-> FALSE, of |-> NoMarks]
        /\ emitter' = [emitter EXCEPT ![e] = [emitter[e] EXCEPT !.at = "fill"]]
    BY <1>5, <1>11 DEF TruncateState, Moved, After
  <2> DEFINE where == [emitter[e] EXCEPT !.at = "fill"]
  <2>2. where \in Where /\ where.at = "fill" /\ where.marks = emitter[e].marks
    BY <1>5
  <2> HIDE DEF where
  <2>3. emitter' \in [Emitters -> Where] /\ emitter'[e] = where /\ \A f \in Emitters \ {e} : emitter'[f] = emitter[f]
    BY <1>6, <2>1, <2>2 DEF where
  <2>4. marks' \in [whole : BOOLEAN, of : Marks] /\ Covers(bus', marks'.of)
    BY <2>1, NoMarksCovered
  <2>5. BusTypes'
    BY <1>0, <2>1, <2>3, <2>4 DEF BusTypes
  <2>6. EmitterCovered(e)'
    BY <1>0, <2>1, <2>2, <2>3 DEF EmitterCovered
  <2> QED
    BY <2>1, <2>3, <2>4, <2>5, <2>6, OneEmitterMoves
<1>12. ASSUME NEW e \in Emitters, FillState(e) PROVE BusInv'
  <2>1. /\ emitter[e].at = "fill" /\ UNCHANGED <<wall, db, bus>>
        /\ \/ marks' = [whole |-> TRUE, of |-> emitter[e].marks]
           \/ marks' = [whole |-> FALSE, of |-> NoMarks]
        /\ emitter' = [emitter EXCEPT ![e] = Resting]
    BY <1>12 DEF FillState, Moved, After
  <2>2. emitter' \in [Emitters -> Where] /\ emitter'[e] = Resting /\ \A f \in Emitters \ {e} : emitter'[f] = emitter[f]
    BY <1>6, <1>7, <2>1
  <2>3. emitter[e].marks \in Marks /\ Covers(bus, emitter[e].marks)
    BY <1>0, <1>5, <2>1 DEF EmitterCovered
  <2>4. marks' \in [whole : BOOLEAN, of : Marks] /\ Covers(bus', marks'.of)
    <3>1. CASE marks' = [whole |-> TRUE, of |-> emitter[e].marks]
      BY <2>1, <2>3, <3>1
    <3>2. CASE marks' = [whole |-> FALSE, of |-> NoMarks]
      BY <3>2, NoMarksCovered
    <3> QED
      BY <2>1, <3>1, <3>2
  <2>5. BusTypes'
    BY <1>0, <2>1, <2>2, <2>4 DEF BusTypes
  <2>6. EmitterCovered(e)'
    BY <1>7, <2>2 DEF EmitterCovered
  <2> QED
    BY <2>1, <2>2, <2>4, <2>5, <2>6, OneEmitterMoves
<1>13. ASSUME NEW e \in Emitters, Killed(e) PROVE BusInv'
  <2>1. emitter' = [emitter EXCEPT ![e] = Resting] /\ UNCHANGED <<wall, db, bus, marks>>
    BY <1>13 DEF Killed
  <2>2. emitter' \in [Emitters -> Where] /\ emitter'[e] = Resting /\ \A f \in Emitters \ {e} : emitter'[f] = emitter[f]
    BY <1>6, <1>7, <2>1
  <2>3. BusTypes' /\ EmitterCovered(e)'
    BY <1>0, <1>7, <2>1, <2>2 DEF BusTypes, EmitterCovered
  <2> QED
    BY <1>0, <2>1, <2>2, <2>3, OneEmitterMoves
<1>14. CASE UNCHANGED busVars
  BY <1>0, <1>1, <1>14 DEF busVars, BusTypes
<1> QED
  BY <1>2, <1>3, <1>4, <1>8, <1>9, <1>10, <1>11, <1>12, <1>13, <1>14 DEF BusNext

LEMMA BusInvHolds == BusSpec => []BusInv
<1>1. BusInit => BusInv
  <2> SUFFICES ASSUME BusInit PROVE BusInv
    OBVIOUS
  <2>1. bus = <<>> /\ marks = [whole |-> FALSE, of |-> NoMarks] /\ emitter = [e \in Emitters |-> Resting]
    BY DEF BusInit
  <2>2. Resting.at = "read"
    BY DEF Resting
  <2>3. \A e \in Emitters : EmitterCovered(e)
    BY <2>1, <2>2 DEF EmitterCovered
  <2>4. BusTypes
    <3>1. wall \in Nat /\ db \in [Runs -> [began : Nat, active : Nat, ended : Nat]]
      BY DEF BusInit
    <3>2. bus \in Seq(Events) /\ marks \in [whole : BOOLEAN, of : Marks]
      BY <2>1, NoMarksCovered
    <3> QED
      BY <2>1, <3>1, <3>2, RestingIsTyped DEF BusTypes
  <2> QED
    BY <2>1, <2>3, <2>4, NoMarksCovered DEF BusInv
<1> QED
  BY <1>1, NextBusInv, PTL DEF BusSpec

(* However emitters overlap, are cut short within a write or lose          *)
(* state.json: a watermark there never suppresses an event of a run unless *)
(* one as recent was written to the bus.                                   *)
THEOREM WatermarksCovered == BusSpec => []WatermarkCovered
<1>1. BusInv => WatermarkCovered
  BY DEF BusInv, Covers, CoveredBy, WatermarkCovered
<1> QED
  BY <1>1, BusInvHolds, PTL

-----------------------------------------------------------------------------
(* The row of an agent is made line by line.  Statuses of one agent have   *)
(* all a rank, or are all empty.                                           *)
StatusesShown(agent) == IF agent = "hermes" THEN Statuses ELSE {""}
Rows == [ts : Nat \cup {-1}, status : Statuses \cup {"", "none"}]

RowAfter(row, ev, agent) ==
    IF ~Counts(ev, agent) THEN row
    ELSE IF row = NoRow THEN [ts |-> ev.ts, status |-> ev.status]
    ELSE [ts |-> IF ev.ts > row.ts THEN ev.ts ELSE row.ts,
          status |-> IF Replaces(ev, row) THEN ev.status ELSE row.status]

(* The k-th of the first n lines is the newest of the agent's, the last    *)
(* one if there are several.                                               *)
IsNewest(lines, agent, k, n) ==
    /\ Counts(lines[k], agent)
    /\ \A j \in 1 .. n : Counts(lines[j], agent) =>
          lines[j].ts < lines[k].ts \/ (lines[j].ts = lines[k].ts /\ j <= k)

(* What the row is after the first n lines: its status may be that of an   *)
(* older line, but not if it is done, the least of the ranks.              *)
RowOfFirst(row, lines, agent, n) ==
    \/ row = NoRow /\ \A j \in 1 .. n : ~Counts(lines[j], agent)
    \/ \E k \in 1 .. n :
          /\ IsNewest(lines, agent, k, n)
          /\ row.ts = lines[k].ts /\ row.status \in StatusesShown(agent)
          /\ row.status = "done" => lines[k].status = "done"

(* A line of an agent has a status of that agent.                          *)
LEMMA StatusOfLine ==
    ASSUME NEW ev \in Events, NEW agent, Counts(ev, agent)
    PROVE  ev.status \in StatusesShown(agent)
<1>1. ev.run \in Runs /\ ev.status \in StatusesOf(ev.run) /\ AgentOf(ev.run) = agent
  BY DEF Events, Counts
<1>2. CASE ev.run \in Sessions
  BY <1>1, <1>2 DEF AgentOf, StatusesOf, StatusesShown
<1>3. CASE ev.run \notin Sessions
  <2>1. agent = ev.run /\ agent # "hermes"
    BY <1>1, <1>3, BusAssumption DEF AgentOf, Runs
  <2> QED
    BY <1>1, <1>3, <2>1 DEF StatusesOf, StatusesShown
<1> QED
  BY <1>2, <1>3

LEMMA RowAfterIsRow ==
    ASSUME NEW row \in Rows, NEW ev \in Events, NEW agent
    PROVE  RowAfter(row, ev, agent) \in Rows
<1>1. ev.ts \in Nat /\ ev.status \in Statuses \cup {""}
  BY DEF Events
<1>2. row.ts \in Nat \cup {-1} /\ row.status \in Statuses \cup {"", "none"}
  BY DEF Rows
<1>3. [ts |-> ev.ts, status |-> ev.status] \in Rows
  BY <1>1 DEF Rows
<1> DEFINE ts == IF ev.ts > row.ts THEN ev.ts ELSE row.ts
           status == IF Replaces(ev, row) THEN ev.status ELSE row.status
<1>4. ts \in Nat \cup {-1} /\ status \in Statuses \cup {"", "none"}
  BY <1>1, <1>2
<1> HIDE DEF ts, status
<1>5. [ts |-> ts, status |-> status] \in Rows
  BY <1>4 DEF Rows
<1> QED
  BY <1>3, <1>5 DEF RowAfter, ts, status

(* A done session's line replaces the status only if none is newer.        *)
LEMMA DoneReplaces ==
    ASSUME NEW ev \in Events, NEW row, NEW agent, Counts(ev, agent), row.status \in StatusesShown(agent),
           Replaces(ev, row), ev.status = "done"
    PROVE  ev.ts >= row.ts
<1>1. ev.status \in StatusesShown(agent)
  BY StatusOfLine
<1>2. row.status \in Statuses
  BY <1>1 DEF StatusesShown
<1>3. ~(Rank("done") > Rank(row.status))
  BY <1>2 DEF Rank, Statuses
<1> QED
  BY <1>3 DEF Replaces

LEMMA OneMoreLine ==
    ASSUME NEW lines \in Seq(Events), NEW agent, NEW n \in Nat, n < Len(lines),
           NEW row \in Rows, RowOfFirst(row, lines, agent, n)
    PROVE  RowOfFirst(RowAfter(row, lines[n + 1], agent), lines, agent, n + 1)
<1> DEFINE ev == lines[n + 1]
           next == RowAfter(row, ev, agent)
<1>1. ev \in Events /\ ev.ts \in Nat /\ \A j \in 1 .. n : lines[j] \in Events /\ lines[j].ts \in Nat
  <2>1. n + 1 \in 1 .. Len(lines) /\ \A j \in 1 .. n : j \in 1 .. Len(lines)
    OBVIOUS
  <2>2. \A j \in 1 .. Len(lines) : lines[j] \in Events
    OBVIOUS
  <2> QED
    BY <2>1, <2>2 DEF Events
<1>2. /\ \A j \in 1 .. n + 1 : j \in 1 .. n \/ j = n + 1
      /\ \A j \in 1 .. n : j \in 1 .. n + 1 /\ j <= n + 1 /\ j # n + 1
      /\ n + 1 \in 1 .. n + 1 /\ n + 1 <= n + 1
  OBVIOUS
<1>3. CASE ~Counts(ev, agent)
  <2>1. next = row
    BY <1>3 DEF RowAfter
  <2>2. CASE row = NoRow /\ \A j \in 1 .. n : ~Counts(lines[j], agent)
    BY <1>2, <1>3, <2>1, <2>2 DEF RowOfFirst
  <2>3. CASE ~(row = NoRow /\ \A j \in 1 .. n : ~Counts(lines[j], agent))
    <3>1. PICK k \in 1 .. n :
              /\ IsNewest(lines, agent, k, n)
              /\ row.ts = lines[k].ts /\ row.status \in StatusesShown(agent)
              /\ row.status = "done" => lines[k].status = "done"
      BY <2>3, Zenon DEF RowOfFirst
    <3>2. IsNewest(lines, agent, k, n + 1)
      BY <1>2, <1>3, <3>1 DEF IsNewest
    <3> QED
      BY <1>2, <2>1, <3>1, <3>2 DEF RowOfFirst
  <2> QED
    BY <2>2, <2>3
<1>4. CASE Counts(ev, agent)
  <2>0. ev.status \in StatusesShown(agent)
    BY <1>1, <1>4, StatusOfLine
  <2>1. CASE row = NoRow /\ \A j \in 1 .. n : ~Counts(lines[j], agent)
    <3>1. next = [ts |-> ev.ts, status |-> ev.status]
      BY <1>4, <2>1 DEF RowAfter
    <3>2. IsNewest(lines, agent, n + 1, n + 1)
      BY <1>2, <1>4, <2>1 DEF IsNewest
    <3> QED
      BY <1>2, <2>0, <3>1, <3>2 DEF RowOfFirst
  <2>2. CASE ~(row = NoRow /\ \A j \in 1 .. n : ~Counts(lines[j], agent))
    <3>1. PICK k \in 1 .. n :
              /\ IsNewest(lines, agent, k, n)
              /\ row.ts = lines[k].ts /\ row.status \in StatusesShown(agent)
              /\ row.status = "done" => lines[k].status = "done"
      BY <2>2, Zenon DEF RowOfFirst
    <3>2. row.ts \in Nat /\ row # NoRow
      BY <1>1, <3>1 DEF NoRow
    <3>3. /\ next.ts = (IF ev.ts > row.ts THEN ev.ts ELSE row.ts)
          /\ next.status = (IF Replaces(ev, row) THEN ev.status ELSE row.status)
      BY <1>4, <3>2 DEF RowAfter
    <3>4. next.status \in StatusesShown(agent)
      BY <2>0, <3>1, <3>3
    <3> HIDE DEF next
    <3>5. CASE ev.ts >= row.ts
      <4>1. IsNewest(lines, agent, n + 1, n + 1)
        <5>1. \A j \in 1 .. n : Counts(lines[j], agent) => lines[j].ts <= lines[k].ts
          BY <1>1, <3>1 DEF IsNewest
        <5>2. \A j \in 1 .. n : Counts(lines[j], agent) => lines[j].ts < ev.ts \/ lines[j].ts = ev.ts
          BY <1>1, <3>1, <3>2, <3>5, <5>1
        <5> QED
          BY <1>2, <1>4, <5>2 DEF IsNewest
      <4>2. next.ts = ev.ts
        BY <1>1, <3>2, <3>3, <3>5
      <4>3. next.status = "done" => ev.status = "done"
        <5>1. CASE ev.status = ""
          <6>1. StatusesShown(agent) = {""}
            BY <2>0, <5>1 DEF StatusesShown, Statuses
          <6> QED
            BY <3>4, <6>1
        <5>2. CASE ev.status # ""
          BY <3>3, <3>5, <5>2 DEF Replaces
        <5> QED
          BY <5>1, <5>2
      <4> QED
        BY <1>2, <3>4, <4>1, <4>2, <4>3 DEF RowOfFirst, next
    <3>6. CASE ~(ev.ts >= row.ts)
      <4>1. IsNewest(lines, agent, k, n + 1)
        <5>1. ev.ts < lines[k].ts
          BY <1>1, <3>1, <3>2, <3>6
        <5> QED
          BY <1>2, <3>1, <5>1 DEF IsNewest
      <4>2. next.ts = lines[k].ts
        BY <1>1, <3>1, <3>2, <3>3, <3>6
      <4>3. next.status = "done" => lines[k].status = "done"
        <5>1. CASE Replaces(ev, row)
          BY <1>1, <1>4, <3>1, <3>3, <3>6, <5>1, DoneReplaces
        <5>2. CASE ~Replaces(ev, row)
          BY <3>1, <3>3, <5>2
        <5> QED
          BY <5>1, <5>2
      <4> QED
        BY <1>2, <3>4, <4>1, <4>2, <4>3 DEF RowOfFirst, next
    <3> QED
      BY <3>5, <3>6
  <2> QED
    BY <2>1, <2>2
<1> QED
  BY <1>3, <1>4

(* The recursive function of Row exists, so its equation holds.            *)
LEMMA RowIsOfLines ==
    ASSUME NEW lines \in Seq(Events), NEW agent
    PROVE  RowOfFirst(Row(lines, agent), lines, agent, Len(lines))
<1> DEFINE N == Len(lines)
           g == [i \in 1 .. N |-> [row \in Rows |-> RowAfter(row, lines[i], agent)]]
           Fold(f) == [i \in 0 .. N |-> IF i = 0 THEN NoRow ELSE RowAfter(f[i - 1], lines[i], agent)]
<1>1. N \in Nat /\ NoRow \in Rows /\ \A i \in 1 .. N : lines[i] \in Events
  BY DEF NoRow, Rows
<1>2. g \in [1 .. N -> [Rows -> Rows]]
  BY <1>1, RowAfterIsRow
<1> HIDE DEF g, N
<1>3. PICK f \in [0 .. N -> Rows] : f[0] = NoRow /\ \A i \in 1 .. N : f[i] = g[i][f[i - 1]]
  <2>1. N \in Nat /\ NoRow \in Rows
    BY <1>1
  <2> QED
    BY <1>2, <2>1, RecursionExists
<1>4. f = Fold(f)
  <2>1. ASSUME NEW i \in 1 .. N PROVE f[i] = RowAfter(f[i - 1], lines[i], agent)
    <3>1. f[i - 1] \in Rows /\ f[i] = g[i][f[i - 1]]
      BY <1>1, <1>3
    <3> QED
      BY <3>1 DEF g
  <2>2. \A i \in 0 .. N : i # 0 => i \in 1 .. N
    BY <1>1
  <2> QED
    BY <1>3, <2>1, <2>2
<1> DEFINE upTo == CHOOSE p : p = Fold(p)
<1>5. upTo = Fold(upTo)
  <2> HIDE DEF Fold
  <2> QED
    BY <1>4
<1>6. Row(lines, agent) = upTo[N]
  BY DEF Row, RowAfter, N
<1> HIDE DEF upTo
<1>7. upTo[0] = NoRow /\ \A i \in 1 .. N : upTo[i] = RowAfter(upTo[i - 1], lines[i], agent)
  BY <1>1, <1>5
<1> HIDE DEF Fold
<1> DEFINE T == {n \in Nat : n <= N => upTo[n] \in Rows /\ RowOfFirst(upTo[n], lines, agent, n)}
<1>8. 0 \in T
  BY <1>1, <1>7 DEF RowOfFirst
<1>9. ASSUME NEW n \in T PROVE n + 1 \in T
  <2> SUFFICES ASSUME n + 1 <= N
               PROVE  upTo[n + 1] \in Rows /\ RowOfFirst(upTo[n + 1], lines, agent, n + 1)
    OBVIOUS
  <2>1. n \in Nat /\ n < N /\ n + 1 \in 1 .. N /\ (n + 1) - 1 = n
    BY <1>1
  <2>2. upTo[n] \in Rows /\ RowOfFirst(upTo[n], lines, agent, n)
    BY <1>1, <2>1
  <2>3. upTo[n + 1] = RowAfter(upTo[n], lines[n + 1], agent)
    BY <1>7, <2>1
  <2>4. upTo[n + 1] \in Rows
    BY <1>1, <2>1, <2>2, <2>3, RowAfterIsRow
  <2> QED
    BY <2>1, <2>2, <2>3, <2>4, OneMoreLine DEF N
<1>10. T = Nat
  <2> HIDE DEF T
  <2>1. T \in SUBSET Nat
    BY DEF T
  <2> QED
    BY <1>8, <1>9, <2>1, InductionOnSet
<1> QED
  BY <1>1, <1>6, <1>10 DEF N

(* Whatever emitters write to the bus, in whatever order and however       *)
(* often: an agent is shown as done only if its newest event says so, and  *)
(* its row has the time of that event.                                     *)
THEOREM DoneIsShownRightly == BusSpec => []DoneIsNewest
<1>1. ASSUME BusTypes PROVE DoneIsNewest
  <2> SUFFICES ASSUME NEW agent \in Agents, LinesOf(agent) # {}
               PROVE  /\ Shown(Row(LastLines, agent)) = "done" => LastLines[Newest(agent)].status = "done"
                      /\ Row(LastLines, agent).ts = LastLines[Newest(agent)].ts
    BY DEF DoneIsNewest
  <2> DEFINE lines == LastLines
             row == Row(lines, agent)
  <2>1. lines \in Seq(Events)
    <3>1. bus \in Seq(Events) /\ MaxRead \in Nat
      BY <1>1, BusAssumption DEF BusTypes
    <3> DEFINE from == IF Len(bus) > MaxRead THEN Len(bus) - MaxRead + 1 ELSE 1
    <3>2. Len(bus) \in Nat /\ from \in Int /\ from >= 1
      BY <3>1
    <3> HIDE DEF from
    <3>3. \A i \in from .. Len(bus) : bus[i] \in Events
      BY <3>1, <3>2
    <3>4. SubSeq(bus, from, Len(bus)) \in Seq(Events)
      BY <3>2, <3>3, SubSeqProperties
    <3> QED
      BY <3>4 DEF LastLines, from
  <2>2. DOMAIN lines = 1 .. Len(lines) /\ \A j \in 1 .. Len(lines) : lines[j] \in Events
    BY <2>1
  <2>3. RowOfFirst(row, lines, agent, Len(lines))
    BY <2>1, RowIsOfLines
  <2> HIDE DEF lines, row
  <2>4. PICK k \in 1 .. Len(lines) :
            /\ IsNewest(lines, agent, k, Len(lines))
            /\ row.ts = lines[k].ts /\ row.status \in StatusesShown(agent)
            /\ row.status = "done" => lines[k].status = "done"
    BY <2>2, <2>3, Zenon DEF RowOfFirst, LinesOf, lines
  <2>5. Newest(agent) = k
    <3> DEFINE Is(i) == \A j \in LinesOf(agent) :
                           \/ LastLines[j].ts < LastLines[i].ts
                           \/ LastLines[j].ts = LastLines[i].ts /\ j <= i
    <3>1. k \in LinesOf(agent) /\ Is(k)
      BY <2>2, <2>4 DEF LinesOf, IsNewest, lines
    <3>2. ASSUME NEW i \in LinesOf(agent), Is(i) PROVE i = k
      <4>1. i \in Nat /\ k \in Nat /\ LastLines[i].ts \in Nat /\ LastLines[k].ts \in Nat
        <5>1. i \in 1 .. Len(lines) /\ \A j \in 1 .. Len(lines) : lines[j] \in Events
          BY <2>2 DEF LinesOf, lines
        <5>2. \A ev \in Events : ev.ts \in Nat
          BY DEF Events
        <5>3. i \in Nat /\ k \in Nat /\ lines[i].ts \in Nat /\ lines[k].ts \in Nat
          BY <5>1, <5>2
        <5> QED
          BY <5>3 DEF lines
      <4>2. \/ LastLines[i].ts < LastLines[k].ts
            \/ LastLines[i].ts = LastLines[k].ts /\ i <= k
        BY <3>1
      <4>3. \/ LastLines[k].ts < LastLines[i].ts
            \/ LastLines[k].ts = LastLines[i].ts /\ k <= i
        BY <3>1, <3>2
      <4> QED
        BY <4>1, <4>2, <4>3
    <3> QED
      BY <3>1, <3>2 DEF Newest
  <2>6. Shown(row) = "done" => row.status = "done"
    BY DEF Shown
  <2> QED
    BY <2>4, <2>5, <2>6 DEF lines, row
<1>2. BusInv => DoneIsNewest
  BY <1>1 DEF BusInv
<1> QED
  BY <1>2, BusInvHolds, PTL

-----------------------------------------------------------------------------
(* A property of a part is one of the workspace: each of its steps is one  *)
(* of a part, and leaves the others alone.                                 *)
THEOREM PartsOfWorkspace == WorkspaceSpec => Spec /\ DirSpec /\ BusSpec
<1>1. WorkspaceInit => Init /\ DirInit /\ BusInit
  BY DEF WorkspaceInit
<1>2. [WorkspaceNext]_workspaceVars => [Next]_vars /\ [DirNext]_dirVars /\ [BusNext]_busVars
  <2>1. UNCHANGED workspaceVars => UNCHANGED vars /\ UNCHANGED dirVars /\ UNCHANGED busVars
    BY DEF workspaceVars
  <2> QED
    BY <2>1 DEF WorkspaceNext
<1> QED
  BY <1>1, <1>2, PTL DEF WorkspaceSpec, Spec, DirSpec, BusSpec
=============================================================================
