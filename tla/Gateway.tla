------------------------------- MODULE Gateway -------------------------------
(***************************************************************************)
(* The gateway's four local parts: the bridge with its journal, the        *)
(* tickets and associations, the subscriptions, and the registration at    *)
(* the host.  They keep separate stores and share no state, so every       *)
(* interleaving of them is equivalent to running one after the other, and  *)
(* a property of one part needs only the behaviours in which the others    *)
(* rest: GatewayNext moves one part while the others are in their initial  *)
(* states.                                                                 *)
(***************************************************************************)
EXTENDS GatewayBridge, GatewayAuth, GatewaySubscription, D1Registration

gatewayVars == <<vars, authVars, subVars, d1Vars>>

GatewayInit == Init /\ AuthInit /\ SubInit /\ D1Init

GatewayNext ==
    \/ AuthInit /\ SubInit /\ D1Init /\ Next /\ UNCHANGED <<authVars, subVars, d1Vars>>
    \/ Init /\ SubInit /\ D1Init /\ AuthNext /\ UNCHANGED <<vars, subVars, d1Vars>>
    \/ Init /\ AuthInit /\ D1Init /\ SubNext /\ UNCHANGED <<vars, authVars, d1Vars>>
    \/ Init /\ AuthInit /\ SubInit /\ D1Next /\ UNCHANGED <<vars, authVars, subVars>>

GatewaySpec == GatewayInit /\ [][GatewayNext]_gatewayVars
=============================================================================
