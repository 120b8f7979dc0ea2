-------------------------------- MODULE MCCore --------------------------------
(***************************************************************************)
(* The Cortex-M core on small instances: one behaviour executes a single   *)
(* data instruction of ThumbOps on every pair of operands, the others run  *)
(* the exceptions of CoreExceptions.                                       *)
(***************************************************************************)
EXTENDS ThumbOps, CoreExceptions

VARIABLE focus   \* what this behaviour runs

(* One priority above the mask, and one not above it, which belongs to the *)
(* interrupt that maybe_interrupt looks at first.                          *)
MCPrio == [i \in Irqs |-> 3 - i]

Init ==
  /\ focus \in {"ops", "tasks"}
  /\ ThumbInit /\ CoreInit
  /\ focus = "tasks" => in.class = "ctl"

Retired == op # <<"fetch">> /\ UNCHANGED opVars

Next ==
  /\ UNCHANGED focus
  /\ \/ focus = "ops" /\ (ThumbNext \/ Retired) /\ UNCHANGED coreVars
     \/ focus = "tasks" /\ CoreNext /\ UNCHANGED opVars

Spec == Init /\ [][Next]_<<focus, opVars, coreVars>>
=============================================================================
