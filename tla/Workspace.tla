----------------------------- MODULE Workspace -----------------------------
(***************************************************************************)
(* What the cockpit of a workspace is made from (plan_cockpit_sync.py):    *)
(* the state of a feature, the directories of the features, and the        *)
(* activity bus.  A command works on the files of one feature, or on the   *)
(* directories; the bus is another process's.  They share no state in the  *)
(* model, so a property of one needs only the behaviours in which the      *)
(* others rest in an initial state.                                        *)
(***************************************************************************)
EXTENDS FeatureState, FeatureDirs, ActivityBus

workspaceVars == <<vars, dirVars, busVars>>

AtRest == Init /\ md = Absent

WorkspaceInit == Init /\ DirInit /\ BusInit

WorkspaceNext ==
    \/ DirInit /\ BusInit /\ Next /\ UNCHANGED <<dirVars, busVars>>
    \/ AtRest /\ BusInit /\ DirNext /\ UNCHANGED <<vars, busVars>>
    \/ AtRest /\ DirInit /\ BusNext /\ UNCHANGED <<vars, dirVars>>

WorkspaceSpec == WorkspaceInit /\ [][WorkspaceNext]_workspaceVars
=============================================================================
