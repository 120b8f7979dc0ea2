----------------------------- MODULE MCRotDevices ----------------------------
(***************************************************************************)
(* The RoT's flash and its boot path on small instances.  A behaviour runs *)
(* one of them and holds the other at its initial state.                   *)
(***************************************************************************)
EXTENDS RotFlash, RotBoot

VARIABLE focus   \* "flash" or "boot"

(* A page whose bytes are all 0xFF, and one that differs in its words.     *)
MCContents == {[r \in Row |-> TRUE], [r \in Row |-> r = 0]}

Init ==
  /\ focus \in {"flash", "boot"}
  /\ RfInit /\ RbInit
  /\ focus = "flash" =>
       pfr = [signed |-> {}, version |-> [c \in Cfpas |-> 0], revoked |-> [c \in Cfpas |-> {}], pref |-> "a"]

Next ==
  /\ UNCHANGED focus
  /\ \/ focus = "flash" /\ RfNext /\ UNCHANGED rbVars
     \/ focus = "boot" /\ RbNext /\ UNCHANGED rfVars

Spec == Init /\ [][Next]_<<focus, rfVars, rbVars>>
=============================================================================
