---------------------------- MODULE FeatureState ----------------------------
(***************************************************************************)
(* PDState (pd.py): the state of one feature, kept in STATE.json and       *)
(* mirrored in STATE.md, each with a .bak beside it, and the commands that *)
(* load it, change it and save it (init, advance, checkpoint,              *)
(* complete-task, fleet-run).                                              *)
(*                                                                         *)
(* One command runs at a time.  It may be killed between any two steps,    *)
(* and a step that writes may raise OSError.  os.replace is atomic;        *)
(* shutil.copy2 is not: interrupted, it leaves a torn file, which is no    *)
(* JSON.  STATE.md is only ever replaced, so it is never torn.  Power      *)
(* stays on: what was written can be read.  Hooks are not modelled.        *)
(*                                                                         *)
(* A state is its phase, its completed tasks, the number of checkpoints    *)
(* and the fleet namespace.                                                *)
(***************************************************************************)
EXTENDS Integers

CONSTANTS
    Tasks,           \* names given to complete-task
    Fleets,          \* values of fleet_state
    LastPhase,       \* index of the last configured phase
    MaxCheckpoints   \* bound on the number of checkpoints

ASSUME PhaseAssumption == LastPhase \in Nat
ASSUME FleetsAssumption == Fleets # {}
ASSUME CheckpointsAssumption == MaxCheckpoints \in Nat

VARIABLES
    json, jsonBak,  \* STATE.json and STATE.json.bak
    md, mdBak,      \* STATE.md and STATE.md.bak
    pc,             \* where the command in progress is
    state,          \* self.state, later the candidate of save()
    before,         \* <<json, md>> when the transaction began
    outcome,        \* how the last save ended
    acked,          \* the last state whose save returned
    tried,          \* the candidates of the saves begun since
    unrepaired      \* the last repair failed, and no command has found a
                    \* STATE.json that loads since

vars == <<json, jsonBak, md, mdBak, pc, state, before, outcome, acked, tried, unrepaired>>

State == [phase : 0..LastPhase, tasks : SUBSET Tasks, checkpoints : Nat, fleet : Fleets]

(* PDState._default_state                                                  *)
DefaultState == [phase |-> 0, tasks |-> {}, checkpoints |-> 0, fleet |-> CHOOSE f \in Fleets : TRUE]

File == [kind : {"absent", "torn", "whole"}, state : State]
Absent == [kind |-> "absent", state |-> DefaultState]
Torn == [kind |-> "torn", state |-> DefaultState]
Whole(s) == [kind |-> "whole", state |-> s]

(* PDState._parse_state_md of what _generate_state_md wrote: checkpoints   *)
(* are printed, but not read back.                                         *)
ParseStateMd(s) == [s EXCEPT !.checkpoints = 0]

(* What PDState._load_state returns, repairs left aside.                   *)
LoadState ==
    IF json.kind = "whole" THEN json.state
    ELSE IF json.kind = "torn" /\ jsonBak.kind = "whole" THEN jsonBak.state
    ELSE IF md.kind = "whole" THEN ParseStateMd(md.state)
    ELSE DefaultState

(* A new feature, or one of the times before STATE.json.                   *)
Init ==
    /\ json = Absent /\ jsonBak = Absent /\ mdBak = Absent
    /\ \/ md = Absent
       \/ \E p \in 0..LastPhase, ts \in SUBSET Tasks :
              md = Whole([DefaultState EXCEPT !.phase = p, !.tasks = ts])
    /\ pc = "idle" /\ state = DefaultState /\ before = <<Absent, Absent>>
    /\ outcome = "none" /\ acked = LoadState /\ tried = {} /\ unrepaired = FALSE

-----------------------------------------------------------------------------
(* PDState._load_state and _load_from_json, at the start of a command.     *)
LoadWith(next) ==
    /\ pc = "idle"
    /\ state' = LoadState
    /\ pc' = next
    /\ outcome' = "none"
    /\ unrepaired' = (unrepaired /\ json.kind = "torn")
    /\ UNCHANGED <<jsonBak, md, mdBak, before, acked, tried>>

OnlyMarkdown == json.kind = "absent" /\ md.kind = "whole"
OnlyBackup == json.kind = "torn" /\ jsonBak.kind = "whole"

Load ==
    /\ ~OnlyMarkdown /\ ~OnlyBackup
    /\ LoadWith("loaded") /\ UNCHANGED json

(* PDState._write_json of a file that was not there, so there is nothing   *)
(* to back up: replaced as a whole, or not, when an OSError is ignored.    *)
WriteJson(s) == json' \in {json, Whole(s)}

(* STATE.md alone: STATE.json is written from it, if that works.           *)
LoadMigrating ==
    /\ OnlyMarkdown
    /\ LoadWith("loaded")
    /\ WriteJson(LoadState)

(* Mutant: the primary is left as it is.                                   *)
LoadUnrepaired ==
    /\ OnlyBackup
    /\ LoadWith("loaded") /\ UNCHANGED json

(* The backup stands in for a primary that does not load ...               *)
LoadBackup ==
    /\ OnlyBackup
    /\ LoadWith("repair") /\ UNCHANGED json

(* ... and is copied over it; an OSError is ignored, and the primary then  *)
(* does not load still.                                                    *)
Repair ==
    /\ pc = "repair"
    /\ \/ json' = jsonBak /\ unrepaired' = FALSE
       \/ json' = Torn /\ unrepaired' = TRUE
    /\ pc' = "loaded"
    /\ UNCHANGED <<jsonBak, md, mdBak, state, before, outcome, acked, tried>>

-----------------------------------------------------------------------------
(* save() of a changed state: the candidate is serialised and both         *)
(* temporary files are written and fsynced, or it raises before any file   *)
(* was touched.                                                            *)
Save(s) ==
    /\ pc = "loaded"
    /\ state' = s
    /\ before' = <<json, md>>
    /\ tried' = tried \cup {s}
    /\ \/ pc' = "copyJson" /\ outcome' = "none"
       \/ pc' = "idle" /\ outcome' = "raised"
    /\ UNCHANGED <<json, jsonBak, md, mdBak, acked, unrepaired>>

(* PDState.advance_phase, add_task, add_checkpoint, the end of fleet-run,  *)
(* and the save of init.                                                   *)
AdvancePhase == state.phase < LastPhase /\ Save([state EXCEPT !.phase = @ + 1])
AddTask(t) == t \notin state.tasks /\ Save([state EXCEPT !.tasks = @ \cup {t}])
AddCheckpoint ==
    state.checkpoints < MaxCheckpoints /\ Save([state EXCEPT !.checkpoints = @ + 1])
FleetRun(f) == Save([state EXCEPT !.fleet = f])
InitSave == jsonBak.kind = "absent" /\ json.kind = "absent" /\ md.kind = "absent" /\ Save(state)

(* A command that has nothing to save.                                     *)
Close ==
    /\ pc = "loaded"
    /\ pc' = "idle"
    /\ UNCHANGED <<json, jsonBak, md, mdBak, state, before, outcome, acked, tried, unrepaired>>

-----------------------------------------------------------------------------
(* PDState._write_transaction.  Each file that exists is copied to its     *)
(* backup, whatever it holds; if a copy raises, nothing was replaced yet.  *)
CopyJson ==
    /\ pc = "copyJson"
    /\ \/ /\ jsonBak' = IF json.kind = "absent" THEN jsonBak ELSE json
          /\ pc' = "copyMd" /\ UNCHANGED outcome
       \/ /\ json.kind # "absent"
          /\ jsonBak' \in {jsonBak, Torn}
          /\ pc' = "idle" /\ outcome' = "raised"
    /\ UNCHANGED <<json, md, mdBak, state, before, acked, tried, unrepaired>>

CopyMd ==
    /\ pc = "copyMd"
    /\ \/ /\ mdBak' = IF md.kind = "absent" THEN mdBak ELSE md
          /\ pc' = "replaceJson" /\ UNCHANGED outcome
       \/ /\ md.kind # "absent"
          /\ mdBak' \in {mdBak, Torn}
          /\ pc' = "idle" /\ outcome' = "raised"
    /\ UNCHANGED <<json, jsonBak, md, state, before, acked, tried, unrepaired>>

(* Then the files are replaced, STATE.json first.                          *)
ReplaceJson ==
    /\ pc = "replaceJson"
    /\ \/ json' = Whole(state) /\ pc' = "replaceMd" /\ UNCHANGED outcome
       \/ UNCHANGED json /\ pc' = "idle" /\ outcome' = "raised"
    /\ UNCHANGED <<jsonBak, md, mdBak, state, before, acked, tried, unrepaired>>

ReplaceMd ==
    /\ pc = "replaceMd"
    /\ \/ /\ md' = Whole(state)
          /\ pc' = "idle" /\ outcome' = "returned"
          /\ acked' = state /\ tried' = {}
       \/ /\ pc' = "restoreJson"
          /\ UNCHANGED <<md, outcome, acked, tried>>
    /\ UNCHANGED <<json, jsonBak, mdBak, state, before, unrepaired>>

(* Mutant: what was replaced stays.                                        *)
RestoreNothing ==
    /\ pc = "restoreJson"
    /\ pc' = "idle" /\ outcome' = "raised"
    /\ UNCHANGED <<json, jsonBak, md, mdBak, state, before, acked, tried, unrepaired>>

(* When STATE.md cannot be replaced, STATE.json is copied back from its    *)
(* backup, or removed if it was not there; if that raises too,             *)
(* TransactionRecoveryError says so.                                       *)
RestoreJson ==
    /\ pc = "restoreJson"
    /\ \/ json' = (IF before[1].kind = "absent" THEN Absent ELSE jsonBak) /\ outcome' = "raised"
       \/ json' \in (IF before[1].kind = "absent" THEN {json} ELSE {json, Torn})
          /\ outcome' = "unrecovered"
    /\ pc' = "idle"
    /\ UNCHANGED <<jsonBak, md, mdBak, state, before, acked, tried, unrepaired>>

(* The command is killed; a copy that was under way leaves a torn file.    *)
Kill ==
    /\ pc # "idle"
    /\ pc' = "idle" /\ outcome' = "killed"
    /\ \/ UNCHANGED <<json, jsonBak, mdBak>>
       \/ pc = "repair" /\ json' = Torn /\ UNCHANGED <<jsonBak, mdBak>>
       \/ /\ pc = "restoreJson" /\ before[1].kind # "absent"
          /\ json' = Torn /\ UNCHANGED <<jsonBak, mdBak>>
       \/ /\ pc = "copyJson" /\ json.kind # "absent"
          /\ jsonBak' = Torn /\ UNCHANGED <<json, mdBak>>
       \/ /\ pc = "copyMd" /\ md.kind # "absent"
          /\ mdBak' = Torn /\ UNCHANGED <<json, jsonBak>>
    /\ UNCHANGED <<md, state, before, acked, tried, unrepaired>>

Next ==
    \/ Load \/ LoadMigrating \/ LoadBackup \/ Repair \/ Close
    \/ AdvancePhase \/ AddCheckpoint \/ InitSave
    \/ \E t \in Tasks : AddTask(t)
    \/ \E f \in Fleets : FleetRun(f)
    \/ CopyJson \/ CopyMd \/ ReplaceJson \/ ReplaceMd \/ RestoreJson \/ Kill

Spec == Init /\ [][Next]_vars

-----------------------------------------------------------------------------
(* Every file holds a state whose phase is configured, or does not load.   *)
TypeOK ==
    /\ json \in File /\ jsonBak \in File /\ md \in File /\ mdBak \in File
    /\ pc \in {"idle", "repair", "loaded", "copyJson", "copyMd", "replaceJson", "replaceMd",
               "restoreJson"}
    /\ state \in State /\ acked \in State
    /\ before \in File \X File
    /\ outcome \in {"none", "returned", "raised", "unrecovered", "killed"}
    /\ tried \in SUBSET State /\ unrepaired \in BOOLEAN

(* save() is a transaction: whatever was killed or raised in a save, in    *)
(* its recovery or in a repair, the next command loads the last state that *)
(* was saved or one that was being saved since.  Less is left only when a  *)
(* repair failed, since the save after it copies the torn STATE.json over  *)
(* the backup: then STATE.md still gives the last saved state without its  *)
(* checkpoints, never an older one.                                        *)
SavedStateSurvives ==
    \/ LoadState \in {acked} \cup tried
    \/ unrepaired /\ LoadState = ParseStateMd(acked)

(* _write_transaction restores both files on failure: a save that raises   *)
(* anything but TransactionRecoveryError has changed neither.              *)
RestoredOnFailure == (pc = "idle" /\ outcome = "raised") => <<json, md>> = before
=============================================================================
