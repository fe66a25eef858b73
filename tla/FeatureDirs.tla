---------------------------- MODULE FeatureDirs ----------------------------
(***************************************************************************)
(* The feature directories under .spec and the commands that make, find    *)
(* and remove them (PD._cmd_init, _find_feature_dir, _cmd_delete and       *)
(* PDState.delete in pd.py).  What is inside a directory is the business   *)
(* of FeatureState; here it has a state file or it has not.                *)
(*                                                                         *)
(* One command runs at a time, and may be killed: init between making the  *)
(* directory and saving the state, delete within the removal of the tree.  *)
(* Moving a directory into the archive is one rename.  No feature is       *)
(* called archive, and no two directories have the same time.              *)
(***************************************************************************)
EXTENDS Naturals, Sequences, SequencesExt, FiniteSets

CONSTANTS
    Names,      \* names of features
    MaxMade     \* bound on the number of directories ever made

ASSUME MadeAssumption == MaxMade \in Nat

VARIABLES
    made,       \* number of directories made so far; a directory is its number
    dir,        \* name -> the directory of that name, 0 if there is none
    stateful,   \* directories with a STATE.json or a STATE.md
    byTime,     \* the directories by their time of modification, newest last
    archive,    \* name -> archive/name, then archive/name/name
    making,     \* the name that init is making a directory for, or {}
    inits,      \* directories whose init returned (history)
    deleted,    \* directories a delete was begun on (history)
    answered    \* the last delete: the feature it named and the one it took (history)

dirVars == <<made, dir, stateful, byTime, archive, making, inits, deleted, answered>>

Nowhere == [named |-> {}, took |-> {}]

DirInit ==
    /\ made = 0
    /\ dir = [n \in Names |-> 0]
    /\ stateful = {} /\ byTime = <<>>
    /\ archive = [n \in Names |-> <<>>]
    /\ making = {} /\ inits = {} /\ deleted = {} /\ answered = Nowhere

Touched(d) == Append(Remove(byTime, d), d)

\* _find_feature_dir: the feature of that name, or the last one modified.
Found(option) ==
    IF option # {} THEN {n \in option : dir[n] \in stateful}
    ELSE LET some == SelectSeq(byTime, LAMBDA d : d \in stateful)
         IN {n \in Names : some # <<>> /\ dir[n] = Last(some)}

\* The value of an optional argument.
Options == {{}} \cup {{n} : n \in Names}

-----------------------------------------------------------------------------
\* A directory of that name, whatever is in it, and init raises.
MakeDirectory(n) ==
    /\ making = {} /\ dir[n] = 0 /\ made < MaxMade
    /\ made' = made + 1
    /\ dir' = [dir EXCEPT ![n] = made + 1]
    /\ byTime' = Append(byTime, made + 1)
    /\ making' = {n}
    /\ UNCHANGED <<stateful, archive, inits, deleted, answered>>

SaveFirstState ==
    \E n \in making :
        /\ stateful' = stateful \cup {dir[n]}
        /\ byTime' = Touched(dir[n])
        /\ inits' = inits \cup {dir[n]}
        /\ making' = {}
        /\ UNCHANGED <<made, dir, archive, deleted, answered>>

InitKilled ==
    /\ making # {}
    /\ making' = {}
    /\ UNCHANGED <<made, dir, stateful, byTime, archive, inits, deleted, answered>>

\* Any other command on a feature that saves its state.
SaveState ==
    \E option \in Options : \E n \in Found(option) :
        /\ making = {}
        /\ byTime' = Touched(dir[n])
        /\ UNCHANGED <<made, dir, stateful, archive, making, inits, deleted, answered>>

-----------------------------------------------------------------------------
\* pd delete [name] [--feature option]: the feature that is asked about is
\* the named one, else the option, else the found one; it must be there.
Named(name, option, n) == IF name # {} THEN name ELSE IF option # {} THEN option ELSE {n}

DeleteOf(name, option, n) ==
    /\ making = {}
    /\ n \in Found(option)
    /\ \A m \in Named(name, option, n) : dir[m] # 0
    /\ answered' = [named |-> Named(name, option, n), took |-> {n}]
    /\ byTime' = Remove(byTime, dir[n])
    /\ UNCHANGED <<made, making, inits>>

RemoveTree ==
    \E name, option \in Options, n \in Names :
        /\ DeleteOf(name, option, n)
        /\ dir' = [dir EXCEPT ![n] = 0]
        /\ stateful' = stateful \ {dir[n]}
        /\ deleted' = deleted \cup {dir[n]}
        /\ UNCHANGED archive

\* Killed within the removal: the directory is there, maybe without state.
RemovalKilled ==
    \E option \in Options, n \in Names :
        /\ making = {} /\ n \in Found(option)
        /\ stateful' \in {stateful, stateful \ {dir[n]}}
        /\ deleted' = deleted \cup {dir[n]}
        /\ byTime' = Touched(dir[n])
        /\ UNCHANGED <<made, dir, archive, making, inits, answered>>

\* Mutant: what is in the archive under the name is replaced.
ArchivedAnew(n) == <<dir[n]>>
\* shutil.move: into archive/name, or if that is there into archive/name/name.
Archived(n) == Append(archive[n], dir[n])

\* If archive/name/name is there as well, it raises.
ArchiveDirectory ==
    \E name, option \in Options, n \in Names :
        /\ DeleteOf(name, option, n)
        /\ Len(archive[n]) < 2
        /\ archive' = [archive EXCEPT ![n] = Archived(n)]
        /\ dir' = [dir EXCEPT ![n] = 0]
        /\ UNCHANGED <<stateful, deleted>>

DirNext ==
    \/ \E n \in Names : MakeDirectory(n)
    \/ SaveFirstState \/ InitKilled \/ SaveState
    \/ RemoveTree \/ RemovalKilled \/ ArchiveDirectory

DirSpec == DirInit /\ [][DirNext]_dirVars

-----------------------------------------------------------------------------
(* Properties                                                              *)

\* Whatever is made, archived and made again under the same name, and
\* wherever a command is killed: a feature whose init returned is in its
\* place, where it can be found by its name, or it is in the archive,
\* or it was deleted.
FeaturesAccountedFor ==
    \A d \in inits \ deleted :
        \/ \E n \in Names : dir[n] = d /\ n \in Found({n})
        \/ \E n \in Names : \E i \in DOMAIN archive[n] : archive[n][i] = d

\* "pd delete <feature> | Delete/archive feature": the feature that is named
\* is the one that goes.
DeletesWhatItNames == answered.took = answered.named
=============================================================================
