---------------------------- MODULE TaskContexts -----------------------------
(***************************************************************************)
(* What exceptions promise the tasks of the firmware: a task's context     *)
(* (registers, flags, IT state, floating-point registers and stack         *)
(* pointer) is changed by its own instructions alone.  Interrupts, ticks,  *)
(* system calls and context switches come and go between them unseen.      *)
(***************************************************************************)
EXTENDS Naturals

CONSTANTS
  Tasks,
  Idle,     \* no task: kernel or boot code
  Vals,     \* register contents
  ItLen,    \* instructions of an IT block
  Fresh     \* the context a task starts with, a function of the task

VARIABLES
  ctx,      \* the context of every task: [regs, it, fpca, s, sp]
  running   \* the task whose instructions execute, or Idle

vars == <<ctx, running>>

Init == ctx = [t \in Tasks |-> Fresh[t]] /\ running = Idle

(* An instruction writes the registers or, which marks the floating-point  *)
(* context active, the floating-point registers, and moves on in its IT    *)
(* block or opens one.  The stack pointer stays.                           *)
Instruction(t) ==
  /\ running = t /\ running' \in {t, Idle}
  /\ \E v \in Vals :
       \/ ctx' = [ctx EXCEPT ![t].regs = v, ![t].it = IF @ = 0 THEN 0 ELSE @ - 1]
       \/ ctx' = [ctx EXCEPT ![t].s = t, ![t].fpca = TRUE, ![t].it = IF @ = 0 THEN 0 ELSE @ - 1]
       \/ ctx[t].it = 0 /\ ctx' = [ctx EXCEPT ![t].it = ItLen]

(* A system call leaves the IT block where it is: the instruction after it *)
(* runs under the condition of the call itself.  A debugger's halt changes *)
(* nothing either.                                                         *)
SystemCall(t) == running = t /\ running' \in {t, Idle} /\ UNCHANGED ctx

Dispatch(t) == running = Idle /\ running' = t /\ UNCHANGED ctx

Restart == ctx' = [t \in Tasks |-> Fresh[t]] /\ running' = Idle

Next == Restart \/ \E t \in Tasks : Instruction(t) \/ SystemCall(t) \/ Dispatch(t)

Spec == Init /\ [][Next]_vars
=============================================================================
