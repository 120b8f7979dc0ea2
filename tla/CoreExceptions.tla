--------------------------- MODULE CoreExceptions ----------------------------
(***************************************************************************)
(* Exceptions of the emulated Cortex-M core: entry, return, SysTick, the   *)
(* NVIC and PendSV (src/src/cpu.rs, src/src/mem.rs).                       *)
(*                                                                         *)
(* A step is one slot of the run loop: Cpu::step executes an instruction,  *)
(* then maybe_tick and maybe_interrupt may each enter an exception.  The   *)
(* operators take and return the pair of struct Cpu and struct Bus, as the *)
(* code's functions do.  The instructions come from the firmware: boot     *)
(* code on the main stack, a kernel in handler mode that saves and loads   *)
(* PSP and EXC_RETURN, and tasks on their own process stacks.              *)
(*                                                                         *)
(* regs stands for r0-r3, r12, LR, PC and the flags, which travel          *)
(* together, s for the floating-point registers.  A stack cell holds the   *)
(* eight words of a basic frame or the floating-point part of an extended  *)
(* one; the stack grows down and an empty stack points at its top.  it     *)
(* counts the instructions left in the IT block.  The SysTick countdown is *)
(* that of a running, unfrozen clock (TickCoupling has the rest).          *)
(***************************************************************************)
EXTENDS Integers, FiniteSets

CONSTANTS
  NTasks,
  FpTasks,    \* tasks the kernel starts with an extended frame
  Vals,       \* register contents
  ItLen,      \* length of an IT block
  Irqs,
  Polled,     \* those of devices polled after an access: TIM16, HASH, I2C1-4
              \* (the others are the bus's own: Ethernet DMA, flash, UART7)
  Level,      \* those raised while a condition lasts: I2C1-4, UART7
              \* (the others latch an event that collect_irqs consumes)
  Prio,       \* nvic_prio, which the kernel writes at boot
  Rvr,        \* SYST_RVR: instructions per tick
  Masks,      \* the values firmware writes to BASEPRI
  Debugged    \* C_DEBUGEN

Tasks  == 1..NTasks
Boot   == 0                      \* no task yet

ASSUME TaskAssumption == NTasks \in Nat \ {0} /\ ItLen \in Nat /\ 0 \in Vals /\ Vals \subseteq Nat /\ FpTasks \subseteq Tasks
ASSUME TickAssumption == Rvr \in Nat \ {0} /\ Debugged \in BOOLEAN
(* collect_irqs gathers into an array of eight.                            *)
ASSUME IrqAssumption ==
  /\ Irqs \subseteq Nat /\ IsFiniteSet(Irqs) /\ Polled \subseteq Irqs /\ Level \subseteq Irqs
  /\ Cardinality(Polled) <= 8
  /\ Prio \in [Irqs -> Nat] /\ Masks \subseteq Nat

(* Exception numbers                                                       *)
SVC == 11
PENDSV == 14
SYSTICK == 15

StackSize == 2                   \* cells, enough for an extended frame
Top(t)    == (t + 1) * StackSize \* the stack of task t; of boot code for Boot
Cells     == 0..(Top(NTasks) - 1)

VARIABLES
  core,     \* struct Cpu
  bus,      \* struct Bus: stacks, NVIC, devices
  kern,     \* firmware: the current task and what the kernel saved of the others
  mspBase,  \* history: MSP when the first task was entered
  owed,     \* history: events raised whose exception has not been entered
  waited    \* history: slots a deferred context switch has been waiting

coreVars == <<core, bus, kern, mspBase, owed, waited>>

Machine == [core |-> core, bus |-> bus]

(* A frame of 26 words or of 8, in cells.                                  *)
Words(fpca) == IF fpca THEN 2 ELSE 1

Exc(psp, thread, ext) == [psp |-> psp, thread |-> thread, ext |-> ext]
NoExc == Exc(FALSE, FALSE, FALSE)

(* A task starts from a frame the kernel built on its stack.               *)
FreshTask(t) == [psp |-> Top(t) - Words(t \in FpTasks), exc |-> Exc(TRUE, TRUE, t \in FpTasks)]
FreshCell == [regs |-> 0, it |-> 0, ipsr |-> 0]

ResetCore(c) ==
  [c EXCEPT !.mode = "Thread", !.sp = Top(Boot), !.msp = Top(Boot), !.psp = 0, !.sp_is_psp = FALSE,
            !.spsel = FALSE, !.fpca = FALSE, !.it = 0, !.ipsr = 0, !.primask = FALSE,
            !.faultmask = FALSE, !.basepri = 0, !.systick = 0, !.tickint = FALSE,
            !.halted = FALSE, !.bkpt_hit = FALSE]

CoreInit ==
  /\ core = ResetCore(
       [mode |-> "Thread", sp |-> 0, msp |-> 0, psp |-> 0, sp_is_psp |-> FALSE, spsel |-> FALSE,
        fpca |-> FALSE, regs |-> 0, lr |-> NoExc, it |-> 0, s |-> 0, ipsr |-> 0, primask |-> FALSE,
        faultmask |-> FALSE, basepri |-> 0, systick |-> 0, tickint |-> FALSE, halted |-> FALSE,
        bkpt_hit |-> FALSE])
  /\ bus = [ram |-> [a \in Cells |-> FreshCell], nvic_en |-> {}, nvic_pend |-> {},
            pend_pendsv |-> FALSE, dev_touched |-> FALSE, event |-> {}]
  /\ kern = [cur |-> Boot, saved |-> [t \in Tasks |-> FreshTask(t)], done |-> FALSE]
  /\ mspBase = Top(Boot)
  /\ owed = {} /\ waited = 0

-----------------------------------------------------------------------------
(* Entry and return                                                        *)

(* build_xpsr and the registers: the basic frame.                          *)
BuildFrame(c) == [regs |-> c.regs, it |-> c.it, ipsr |-> c.ipsr]

(* A write outside the stacks is dropped by the bus.                       *)
Store(ram, a, v) == IF a \in Cells THEN [ram EXCEPT ![a] = v] ELSE ram

ExceptionEntry(m, vecnum) ==
  LET c == m.core
      base == c.sp - Words(c.fpca)
      basic == Store(m.bus.ram, base, BuildFrame(c))
      ram == IF c.fpca THEN Store(basic, base + 1, [FreshCell EXCEPT !.regs = c.s]) ELSE basic
      banked == IF c.sp_is_psp THEN [c EXCEPT !.psp = base, !.sp = c.msp, !.sp_is_psp = FALSE]
                               ELSE [c EXCEPT !.msp = base, !.sp = base]
  IN [core |-> [banked EXCEPT !.mode = "Handler", !.ipsr = vecnum, !.it = 0,
                              !.lr = Exc(c.sp_is_psp, c.mode = "Thread", c.fpca)],
      bus  |-> [m.bus EXCEPT !.ram = ram]]

(* The unstacked pointer goes to the bank it came from.                    *)
ReturnBank_Both(c, exc, sp) == [c EXCEPT !.psp = IF exc.psp THEN sp ELSE @, !.msp = sp]
ReturnBank(c, exc, sp) == IF exc.psp THEN [c EXCEPT !.psp = sp] ELSE [c EXCEPT !.msp = sp]

(* What is popped is dead: nothing reads below the stack pointer, and the  *)
(* model forgets it.                                                       *)
Popped(ram, base, n) == [a \in Cells |-> IF a \in base..(base + n - 1) THEN FreshCell ELSE ram[a]]

ExceptionReturn(m, exc) ==
  LET base == IF exc.psp THEN m.core.psp ELSE m.core.msp
      frame == IF base \in Cells THEN m.bus.ram[base] ELSE FreshCell
      c == ReturnBank(m.core, exc, base + Words(exc.ext))
      mode == IF exc.thread THEN "Thread" ELSE "Handler"
      spsel == IF exc.thread THEN exc.psp ELSE c.spsel
      usePsp == mode = "Thread" /\ spsel
  IN [m EXCEPT !.bus.ram = Popped(@, base, Words(exc.ext)), !.core =
       [c EXCEPT !.regs = frame.regs, !.it = frame.it, !.ipsr = frame.ipsr, !.fpca = exc.ext,
                 !.s = IF exc.ext /\ base + 1 \in Cells THEN m.bus.ram[base + 1].regs ELSE @,
                 !.mode = mode, !.spsel = spsel, !.sp_is_psp = usePsp,
                 !.sp = IF usePsp THEN c.psp ELSE c.msp, !.lr = NoExc]]

(* pop {.., pc}: the write-back goes to the stack in use before the return *)
(* switches it.                                                            *)
PopReturn_LateWriteback(m, exc) ==
  LET n == ExceptionReturn(m, exc) IN [n EXCEPT !.core.sp = @ + 1]
PopReturn(m, exc) == ExceptionReturn([m EXCEPT !.core.sp = @ + 1], exc)

(* MSR CONTROL and MSR PSP                                                 *)
SetControl(c, spsel, fpca) ==
  LET now == c.mode = "Thread" /\ spsel
      d == [c EXCEPT !.spsel = spsel, !.fpca = fpca]
  IN IF c.sp_is_psp = now THEN d
     ELSE IF c.sp_is_psp THEN [d EXCEPT !.psp = c.sp, !.sp = c.msp, !.sp_is_psp = now]
                         ELSE [d EXCEPT !.msp = c.sp, !.sp = c.psp, !.sp_is_psp = now]

WritePsp(c, v) == [c EXCEPT !.psp = v, !.sp = IF c.sp_is_psp THEN v ELSE @]

-----------------------------------------------------------------------------
(* Interrupts                                                              *)

MaybeTick(m) ==
  LET n == (IF m.core.systick = 0 THEN Rvr ELSE m.core.systick) - 1
      t == [m EXCEPT !.core.systick = IF n = 0 THEN Rvr ELSE n]
  IN IF ~m.core.tickint THEN m
     ELSE IF n = 0 /\ m.core.mode = "Thread" /\ ~m.core.primask THEN ExceptionEntry(t, SYSTICK)
     ELSE t

CollectIrqs(b) ==
  LET raised == IF b.dev_touched THEN b.event ELSE b.event \ Polled
  IN [b EXCEPT !.dev_touched = FALSE, !.nvic_pend = @ \cup raised, !.event = @ \ (raised \ Level)]

(* The lowest-numbered enabled and pending interrupt.                      *)
NextIrq(b) ==
  LET act == b.nvic_en \cap b.nvic_pend
  IN {i \in act : \A j \in act : i <= j}

MaybeInterrupt_ClearsMasked(m) ==
  LET b == CollectIrqs(m.bus)
      c == m.core
      next == NextIrq(b)
      taken == {i \in next : c.basepri = 0 \/ Prio[i] < c.basepri}
      d == [b EXCEPT !.nvic_pend = @ \ next]
  IN IF c.mode # "Thread" \/ c.primask \/ c.faultmask THEN [m EXCEPT !.bus = b]
     ELSE IF taken # {} THEN ExceptionEntry([m EXCEPT !.bus = d], 16 + CHOOSE i \in taken : TRUE)
     ELSE IF b.pend_pendsv THEN ExceptionEntry([m EXCEPT !.bus = [d EXCEPT !.pend_pendsv = FALSE]], PENDSV)
     ELSE [m EXCEPT !.bus = d]
MaybeInterrupt_MaskedEnds(m) ==
  LET b == CollectIrqs(m.bus)
      c == m.core
      next == NextIrq(b)
      taken == {i \in next : c.basepri = 0 \/ Prio[i] < c.basepri}
  IN IF c.mode # "Thread" \/ c.primask \/ c.faultmask THEN [m EXCEPT !.bus = b]
     ELSE IF taken # {} THEN ExceptionEntry([m EXCEPT !.bus = [b EXCEPT !.nvic_pend = @ \ taken]],
                                            16 + CHOOSE i \in taken : TRUE)
     ELSE IF next = {} /\ b.pend_pendsv
          THEN ExceptionEntry([m EXCEPT !.bus = [b EXCEPT !.pend_pendsv = FALSE]], PENDSV)
     ELSE [m EXCEPT !.bus = b]
MaybeInterrupt(m) ==
  LET b == CollectIrqs(m.bus)
      c == m.core
      taken == {i \in NextIrq(b) : c.basepri = 0 \/ Prio[i] < c.basepri}
  IN IF c.mode # "Thread" \/ c.primask \/ c.faultmask THEN [m EXCEPT !.bus = b]
     ELSE IF taken # {} THEN ExceptionEntry([m EXCEPT !.bus = [b EXCEPT !.nvic_pend = @ \ taken]],
                                            16 + CHOOSE i \in taken : TRUE)
     ELSE IF b.pend_pendsv THEN ExceptionEntry([m EXCEPT !.bus = [b EXCEPT !.pend_pendsv = FALSE]], PENDSV)
     ELSE [m EXCEPT !.bus = b]

Masked(c) == c.primask \/ c.faultmask

(* One slot of the run loop, after the instruction.                        *)
Slot(m) ==
  LET t == MaybeTick(m)
      n == MaybeInterrupt(t)
  IN /\ core' = n.core /\ bus' = n.bus
     /\ owed' = (owed \cup (m.bus.event \ Level))
                  \ (IF t.core.mode = "Thread" /\ n.core.mode = "Handler" THEN {n.core.ipsr - 16} ELSE {})
     /\ waited' = IF bus.pend_pendsv /\ n.bus.pend_pendsv /\ ~Masked(n.core) THEN waited + 1 ELSE 0

ItCount(c) == [c EXCEPT !.it = IF @ = 0 THEN 0 ELSE @ - 1]

-----------------------------------------------------------------------------
(* Instructions in thread mode: of a task, or of the boot code that sets   *)
(* the masks and the tick up.                                              *)

ThreadRuns == core.mode = "Thread" /\ ~core.halted
InTask     == ThreadRuns /\ kern.cur # Boot
InBoot     == ThreadRuns /\ kern.cur = Boot

Compute(v) ==
  /\ InTask
  /\ Slot([Machine EXCEPT !.core = ItCount([core EXCEPT !.regs = v])])
  /\ UNCHANGED <<kern, mspBase>>

OpenItBlock ==
  /\ InTask /\ core.it = 0
  /\ Slot([Machine EXCEPT !.core.it = ItLen])
  /\ UNCHANGED <<kern, mspBase>>

(* A floating-point instruction marks the context active; it writes the    *)
(* number of the task.                                                     *)
TryVfp ==
  /\ InTask
  /\ Slot([Machine EXCEPT !.core = ItCount([core EXCEPT !.s = kern.cur, !.fpca = TRUE])])
  /\ UNCHANGED <<kern, mspBase>>

(* A device access: start something that raises an event, or end the       *)
(* condition of a level (STOP, reading the last UART byte).                *)
DeviceAccess(i) ==
  /\ InTask
  /\ LET m == [core |-> ItCount(core), bus |-> [bus EXCEPT !.dev_touched = TRUE]]
     IN \/ i \in Polled /\ Slot([m EXCEPT !.bus.event = @ \cup {i}])
        \/ i \in Level /\ Slot([m EXCEPT !.bus.event = @ \ {i}])
  /\ UNCHANGED <<kern, mspBase>>

(* The entry stacks ITSTATE as it is and clears it; step advances what is  *)
(* left, nothing.  The boot code starts the tasks unmasked, the tick on.   *)
SystemCall ==
  /\ ThreadRuns /\ (InBoot => ~core.primask /\ core.tickint)
  /\ LET m == ExceptionEntry(Machine, SVC) IN Slot([m EXCEPT !.core = ItCount(m.core)])
  /\ UNCHANGED <<kern, mspBase>>

(* BKPT halts a debugged core.  The slot of the instruction still ticks.   *)
Bkpt ==
  /\ InTask /\ Debugged
  /\ Slot([Machine EXCEPT !.core = ItCount([core EXCEPT !.halted = TRUE, !.bkpt_hit = TRUE])])
  /\ UNCHANGED <<kern, mspBase>>

(* The boot code turns the tick on and writes the masks.                   *)
BootSetup(primask, basepri) ==
  /\ InBoot
  /\ Slot([Machine EXCEPT !.core = [core EXCEPT !.tickint = TRUE, !.primask = primask,
                                                !.basepri = basepri]])
  /\ UNCHANGED <<kern, mspBase>>

-----------------------------------------------------------------------------
(* The kernel, in handler mode.  Its body runs once, then it returns.  It  *)
(* clobbers the registers.                                                 *)

InHandler == core.mode = "Handler" /\ ~core.halted
Switches  == core.ipsr \in {SVC, PENDSV}
Scratch   == 0

(* An interrupt or tick handler pushes its own frame, disables the line    *)
(* (ICER) and perhaps asks for a context switch (ICSR).                    *)
IsrBody ==
  /\ InHandler /\ ~kern.done /\ ~Switches
  /\ \E sv \in BOOLEAN :
       /\ Slot([core |-> [core EXCEPT !.regs = Scratch, !.sp = @ - 1],
                bus  |-> [bus EXCEPT !.nvic_en = @ \ {core.ipsr - 16},
                                     !.pend_pendsv = @ \/ sv]])
       /\ kern' = [kern EXCEPT !.done = TRUE]
  /\ UNCHANGED mspBase

(* A system call or PendSV: save the task's PSP and EXC_RETURN, perhaps    *)
(* enable an interrupt (ISER), and load the next task's.  The first call   *)
(* comes from the boot code; its frame stays behind.  What was saved of    *)
(* the task that runs is dead and forgotten.                               *)
SwitchBody(next) ==
  /\ InHandler /\ ~kern.done /\ Switches
  /\ kern.cur = Boot => core.ipsr = SVC
  /\ LET saved == IF kern.cur = Boot THEN kern.saved
                  ELSE [kern.saved EXCEPT ![kern.cur] = [psp |-> core.psp, exc |-> core.lr]]
         c == IF kern.cur = Boot THEN SetControl(core, FALSE, FALSE) ELSE core
     IN /\ \E on \in SUBSET Irqs :
             /\ Cardinality(on) <= 1
             /\ Slot([core |-> [WritePsp(c, saved[next].psp) EXCEPT !.regs = Scratch, !.lr = saved[next].exc],
                      bus  |-> [bus EXCEPT !.nvic_en = @ \cup on]])
        /\ kern' = [kern EXCEPT !.cur = next, !.saved = [saved EXCEPT ![next] = FreshTask(next)],
                             !.done = TRUE]
        /\ mspBase' = IF kern.cur = Boot THEN core.msp ELSE mspBase

(* The boot code has no deferred switch to make.                           *)
PendSvInBoot ==
  /\ InHandler /\ ~kern.done /\ core.ipsr = PENDSV /\ kern.cur = Boot
  /\ Slot(Machine) /\ kern' = [kern EXCEPT !.done = TRUE]
  /\ UNCHANGED mspBase

(* POP into PC by a handler that pushed, or BX LR.                         *)
HandlerReturn ==
  /\ InHandler /\ kern.done
  /\ IF Switches THEN Slot(ExceptionReturn(Machine, core.lr)) ELSE Slot(PopReturn(Machine, core.lr))
  /\ kern' = [kern EXCEPT !.done = FALSE]
  /\ UNCHANGED mspBase

-----------------------------------------------------------------------------
(* Between slots: the host, the debugger, a reset.                         *)

(* pump_eth, pump_uart, the flash controller.                              *)
BusEvent(i) ==
  /\ i \notin bus.event
  /\ bus' = [bus EXCEPT !.event = @ \cup {i}]
  /\ UNCHANGED <<core, kern, mspBase, owed, waited>>

(* The debugger moves the core on and lets it run.                         *)
Resume ==
  /\ core.halted
  /\ core' = [core EXCEPT !.halted = FALSE, !.bkpt_hit = FALSE]
  /\ UNCHANGED <<bus, kern, mspBase, owed, waited>>

(* reset_for_reboot and reset_exception_sources; the boot code sets the    *)
(* tasks up again.  Device state stays.                                    *)
Reset ==
  /\ core' = ResetCore(core)
  /\ bus' = [bus EXCEPT !.nvic_en = {}, !.nvic_pend = {}, !.pend_pendsv = FALSE,
                        !.ram = [a \in Cells |-> FreshCell]]
  /\ kern' = [kern EXCEPT !.cur = Boot, !.saved = [t \in Tasks |-> FreshTask(t)],
                          !.done = FALSE]
  /\ mspBase' = Top(Boot) /\ owed' = bus.event \ Level /\ waited' = 0

Thread ==
  \/ \E v \in Vals : Compute(v)
  \/ TryVfp \/ OpenItBlock \/ SystemCall \/ Bkpt
  \/ \E i \in Irqs : DeviceAccess(i)
  \/ \E p \in BOOLEAN, n \in Masks : BootSetup(p, n)

Kernel ==
  \/ IsrBody \/ PendSvInBoot \/ HandlerReturn
  \/ \E t \in Tasks : SwitchBody(t)

Environment ==
  \/ Resume \/ Reset
  \/ \E i \in Irqs \ Polled : BusEvent(i)

CoreNext == Thread \/ Kernel \/ Environment

CoreSpec == CoreInit /\ [][CoreNext]_coreVars

-----------------------------------------------------------------------------
(* The context of a task is in the core while it runs, on its stack while  *)
(* it does not.                                                            *)

Context(regs, it, fpca, s, sp) ==
  [regs |-> regs, it |-> it, fpca |-> fpca, s |-> IF fpca THEN s ELSE 0, sp |-> sp]

Stacked(psp, exc) ==
  LET f == IF psp \in Cells THEN bus.ram[psp] ELSE FreshCell
      s == IF psp + 1 \in Cells THEN bus.ram[psp + 1].regs ELSE 0
  IN Context(f.regs, f.it, exc.ext, s, psp + Words(exc.ext))

TaskContext(t) ==
  IF t # kern.cur THEN Stacked(kern.saved[t].psp, kern.saved[t].exc)
  ELSE IF core.mode = "Handler" THEN Stacked(core.psp, core.lr)
  ELSE Context(core.regs, core.it, core.fpca, core.s, core.sp)

TC == INSTANCE TaskContexts WITH
  Idle <- Boot,
  Fresh <- [t \in Tasks |-> Context(0, 0, t \in FpTasks, 0, Top(t))],
  ctx <- [t \in Tasks |-> TaskContext(t)],
  running <- IF core.mode = "Thread" THEN kern.cur ELSE Boot

(* Whatever is interrupted, switched away from and returned to in whatever *)
(* order (exception_entry, exception_return, FPCA and the frame size, the  *)
(* banked stack pointers), a task finds its registers, IT block and stack  *)
(* pointer as its own last instruction left them.                          *)
TasksUndisturbed == TC!Spec

(* The main stack does not creep: whenever a task runs, MSP is where it    *)
(* was when the first task was entered, so handlers can nest their frames  *)
(* on it for ever.                                                         *)
MainStackLevel == core.sp_is_psp => core.msp = mspBase

(* No event is lost: what a device or the bus raised (take_irq, eth.irq,   *)
(* the erase interrupt) is latched or pending until its exception is       *)
(* entered, whatever is masked, disabled or served first meanwhile.        *)
EventKept == owed \subseteq bus.event \cup bus.nvic_pend

(* A deferred context switch (PENDSVSET) is taken within a bounded number  *)
(* of slots: a handler of two slots for every interrupt maybe_interrupt    *)
(* serves first, each once since a handler disables its line, and for a    *)
(* tick.  Interrupts that keep coming do not starve it, as long as the     *)
(* tick period is longer than a slot for each interrupt and two more.      *)
SwitchLatency == waited <= 2 * (Cardinality(Irqs) + 1)
=============================================================================
