------------------------------ MODULE MCBridges ------------------------------
(***************************************************************************)
(* The management network and the shared RoT service on small instances.   *)
(* A behaviour runs one of them and holds the other at its initial state.  *)
(***************************************************************************)
EXTENDS EthBridge, RotService, TLC

VARIABLE focus   \* "net" or "rot"

(* Client 1 sends two requests and client 2 one, both on the first view.   *)
MCQuota == 1 :> 2 @@ 2 :> 1
MCView  == 1 :> 1 @@ 2 :> 1

Init == focus \in {"net", "rot"} /\ EthInit /\ RsInit

Next ==
  /\ UNCHANGED focus
  /\ \/ focus = "net" /\ EthNext /\ UNCHANGED rsVars
     \/ focus = "rot" /\ RsNext /\ UNCHANGED ethVars

Fairness ==
  /\ WF_ethVars(focus = "net" /\ Pump) /\ WF_ethVars(focus = "net" /\ SpRuns)
  /\ WF_rsVars(focus = "rot" /\ (TakeJob \/ Exchange))

Spec == Init /\ [][Next]_<<focus, ethVars, rsVars>> /\ Fairness
=============================================================================
