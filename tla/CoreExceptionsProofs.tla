------------------------ MODULE CoreExceptionsProofs -------------------------
(***************************************************************************)
(* Proofs about exceptions, for any number of tasks and interrupts.        *)
(***************************************************************************)
EXTENDS CoreExceptions, FiniteSetTheorems, TLAPS

USE TaskAssumption, TickAssumption, IrqAssumption

-----------------------------------------------------------------------------
(* Types                                                                   *)

ExcReturn == [psp : BOOLEAN, thread : BOOLEAN, ext : BOOLEAN]
Cell      == [regs : Nat, it : Nat, ipsr : Nat]

CoreState ==
  [mode : {"Thread", "Handler"}, sp : Int, msp : Int, psp : Int, sp_is_psp : BOOLEAN,
   spsel : BOOLEAN, fpca : BOOLEAN, regs : Nat, lr : ExcReturn, it : Nat, s : Nat, ipsr : Nat,
   primask : BOOLEAN, faultmask : BOOLEAN, basepri : Nat, systick : Nat, tickint : BOOLEAN,
   halted : BOOLEAN, bkpt_hit : BOOLEAN]

BusState ==
  [ram : [Cells -> Cell], nvic_en : SUBSET Irqs, nvic_pend : SUBSET Irqs, pend_pendsv : BOOLEAN,
   dev_touched : BOOLEAN, event : SUBSET Irqs]

Machines == [core : CoreState, bus : BusState]

SavedTask == [psp : Int, exc : ExcReturn]

TypeOK ==
  /\ core \in CoreState /\ bus \in BusState
  /\ kern \in [cur : Tasks \cup {Boot}, saved : [Tasks -> SavedTask], done : BOOLEAN]
  /\ mspBase \in Int /\ owed \subseteq Irqs /\ waited \in Nat

-----------------------------------------------------------------------------
(* Where the stack pointers are, in thread and in handler mode, in the     *)
(* boot code and in a task: a handler runs on the main stack, its return   *)
(* goes back to the stack of the one it interrupted, and what is stacked   *)
(* of that one lies at the top of its own stack.                           *)

ThreadShape(c, cur, base) ==
  c.mode = "Thread" =>
    /\ cur = Boot  => ~c.sp_is_psp /\ c.sp = Top(Boot) /\ c.msp = Top(Boot) /\ ~c.fpca
    /\ cur # Boot => c.sp_is_psp /\ c.sp = Top(cur) /\ c.msp = base

HandlerShape(c, cur, base) ==
  c.mode = "Handler" =>
    /\ ~c.sp_is_psp /\ c.lr.thread
    /\ cur = Boot  => ~c.lr.psp /\ ~c.lr.ext /\ c.msp = Top(Boot) - 1
    /\ cur # Boot => c.lr.psp /\ c.psp = Top(cur) - Words(c.lr.ext) /\ c.msp = base

Shape(c, cur, base) == ThreadShape(c, cur, base) /\ HandlerShape(c, cur, base)

SavedShape(saved) ==
  \A t \in Tasks : /\ saved[t].exc.psp /\ saved[t].exc.thread
                   /\ saved[t].psp = Top(t) - Words(saved[t].exc.ext)

(* TaskContext of a machine m on which task cur runs.                      *)
StackedIn(ram, psp, exc) ==
  LET f == IF psp \in Cells THEN ram[psp] ELSE FreshCell
      s == IF psp + 1 \in Cells THEN ram[psp + 1].regs ELSE 0
  IN Context(f.regs, f.it, exc.ext, s, psp + Words(exc.ext))

ContextIn(m, cur, saved, t) ==
  IF t # cur THEN StackedIn(m.bus.ram, saved[t].psp, saved[t].exc)
  ELSE IF m.core.mode = "Handler" THEN StackedIn(m.bus.ram, m.core.psp, m.core.lr)
  ELSE Context(m.core.regs, m.core.it, m.core.fpca, m.core.s, m.core.sp)

-----------------------------------------------------------------------------
(* Entry                                                                   *)

LEMMA CellArith ==
  /\ \A t \in Tasks \cup {Boot} : /\ Top(t) \in Nat /\ Top(t) - 1 \in Cells /\ Top(t) - 2 \in Cells
                                  /\ Top(t) \in Int
  /\ \A t, u \in Tasks \cup {Boot} : t # u =>
       {Top(t) - 1, Top(t) - 2} \cap {Top(u) - 1, Top(u) - 2} = {}
<1>1. NTasks \in Nat /\ \A t \in Tasks \cup {Boot} : t \in Nat /\ t <= NTasks
  BY DEF Tasks, Boot
<1> HIDE DEF Boot
<1>2. \A t \in Nat : Top(t) = 2 * t + 2
  BY DEF Top, StackSize
<1>3. Cells = 0..(2 * NTasks + 1)
  BY <1>1, <1>2 DEF Cells
<1>4. \A t \in Tasks \cup {Boot} : /\ Top(t) \in Nat /\ Top(t) - 1 \in Cells
                                      /\ Top(t) - 2 \in Cells /\ Top(t) \in Int
  <2> SUFFICES ASSUME NEW t \in Tasks \cup {Boot}
               PROVE  /\ Top(t) \in Nat /\ Top(t) - 1 \in Cells /\ Top(t) - 2 \in Cells
                      /\ Top(t) \in Int
    OBVIOUS
  <2>1. t \in Nat /\ t <= NTasks /\ Top(t) = 2 * t + 2
    BY <1>1, <1>2
  <2> QED BY <1>3, <2>1
<1>5. \A t, u \in Tasks \cup {Boot} : t # u =>
        {Top(t) - 1, Top(t) - 2} \cap {Top(u) - 1, Top(u) - 2} = {}
  <2> SUFFICES ASSUME NEW t \in Tasks \cup {Boot}, NEW u \in Tasks \cup {Boot}, t # u
               PROVE  {Top(t) - 1, Top(t) - 2} \cap {Top(u) - 1, Top(u) - 2} = {}
    OBVIOUS
  <2>1. t \in Nat /\ u \in Nat /\ Top(t) = 2 * t + 2 /\ Top(u) = 2 * u + 2
    BY <1>1, <1>2
  <2> QED BY <2>1
<1> QED BY <1>4, <1>5

(* The memory an entry leaves: the frame at the top of the stack.          *)
EntryRam(m) ==
  LET c == m.core
      base == c.sp - Words(c.fpca)
      basic == Store(m.bus.ram, base, BuildFrame(c))
  IN IF c.fpca THEN Store(basic, base + 1, [FreshCell EXCEPT !.regs = c.s]) ELSE basic

EntryResult(m, v, e) ==
  /\ e \in Machines
  /\ e.bus = [m.bus EXCEPT !.ram = EntryRam(m)] /\ e.bus.ram = EntryRam(m)
  /\ e.core.mode = "Handler" /\ e.core.sp_is_psp = FALSE /\ e.core.it = 0 /\ e.core.ipsr = v
  /\ e.core.lr.psp = m.core.sp_is_psp /\ e.core.lr.ext = m.core.fpca
  /\ m.core.mode = "Thread" => e.core.lr.thread
  /\ m.core.sp_is_psp => /\ e.core.psp = m.core.sp - Words(m.core.fpca)
                         /\ e.core.msp = m.core.msp
  /\ ~m.core.sp_is_psp => e.core.msp = m.core.sp - Words(m.core.fpca)
  /\ e.core.primask = m.core.primask /\ e.core.faultmask = m.core.faultmask
  /\ e.core.halted = m.core.halted

LEMMA EntryFields ==
  ASSUME NEW m \in Machines, NEW v \in Nat, EntryRam(m) \in [Cells -> Cell]
  PROVE  EntryResult(m, v, ExceptionEntry(m, v))
<1> DEFINE c == m.core
           base == c.sp - Words(c.fpca)
           e == ExceptionEntry(m, v)
           d == e.core
           exc == Exc(c.sp_is_psp, c.mode = "Thread", c.fpca)
<1>1. c \in CoreState /\ m.bus \in BusState
  BY DEF Machines
<1>2. base \in Int /\ exc \in ExcReturn
  BY <1>1 DEF CoreState, Words, Exc, ExcReturn
<1>3. e = [core |-> d, bus |-> [m.bus EXCEPT !.ram = EntryRam(m)]]
  <2>2. e.bus = [m.bus EXCEPT !.ram = EntryRam(m)]
    BY DEF ExceptionEntry, EntryRam
  <2>3. e = [core |-> e.core, bus |-> e.bus]
    BY DEF ExceptionEntry
  <2> QED BY <2>2, <2>3
<1>4. /\ c.sp_is_psp =>
           d = [[c EXCEPT !.psp = base, !.sp = c.msp, !.sp_is_psp = FALSE]
                  EXCEPT !.mode = "Handler", !.ipsr = v, !.it = 0, !.lr = exc]
      /\ ~c.sp_is_psp =>
           d = [[c EXCEPT !.msp = base, !.sp = base]
                  EXCEPT !.mode = "Handler", !.ipsr = v, !.it = 0, !.lr = exc]
  BY DEF ExceptionEntry
<1> HIDE DEF d, e, exc, base, c
<1>5. /\ d \in CoreState
      /\ d.mode = "Handler" /\ d.sp_is_psp = FALSE /\ d.it = 0 /\ d.ipsr = v /\ d.lr = exc
      /\ d.primask = c.primask /\ d.faultmask = c.faultmask /\ d.halted = c.halted
      /\ c.sp_is_psp => d.psp = base /\ d.msp = c.msp
      /\ ~c.sp_is_psp => d.msp = base
  <2>1. c.sp_is_psp \in BOOLEAN
    BY <1>1 DEF CoreState
  <2>2. CASE c.sp_is_psp = TRUE
    <3>1. d = [[c EXCEPT !.psp = base, !.sp = c.msp, !.sp_is_psp = FALSE]
                  EXCEPT !.mode = "Handler", !.ipsr = v, !.it = 0, !.lr = exc]
      BY <1>4, <2>2
    <3>2. d.mode = "Handler" /\ d.sp_is_psp = FALSE /\ d.it = 0 /\ d.ipsr = v /\ d.lr = exc
      /\ d.primask = c.primask /\ d.faultmask = c.faultmask /\ d.halted = c.halted
      /\ d.psp = base /\ d.msp = c.msp
      BY <1>1, <3>1 DEF CoreState
    <3>3. d \in CoreState
      BY <1>1, <1>2, <3>1 DEF CoreState
    <3> QED BY <2>2, <3>2, <3>3
  <2>3. CASE c.sp_is_psp = FALSE
    <3>1. d = [[c EXCEPT !.msp = base, !.sp = base]
                  EXCEPT !.mode = "Handler", !.ipsr = v, !.it = 0, !.lr = exc]
      BY <1>4, <2>3
    <3>2. d.mode = "Handler" /\ d.sp_is_psp = FALSE /\ d.it = 0 /\ d.ipsr = v /\ d.lr = exc
      /\ d.primask = c.primask /\ d.faultmask = c.faultmask /\ d.halted = c.halted
      /\ d.msp = base
      BY <1>1, <2>3, <3>1 DEF CoreState
    <3>3. d \in CoreState
      BY <1>1, <1>2, <3>1 DEF CoreState
    <3> QED BY <2>3, <3>2, <3>3
  <2> QED BY <2>1, <2>2, <2>3
<1>6. [m.bus EXCEPT !.ram = EntryRam(m)] \in BusState
      /\ [m.bus EXCEPT !.ram = EntryRam(m)].ram = EntryRam(m)
  BY <1>1 DEF BusState
<1>7. e \in Machines
  BY <1>3, <1>5, <1>6 DEF Machines
<1>8. e.bus = [m.bus EXCEPT !.ram = EntryRam(m)]
  BY <1>3
<1>9. exc.psp = c.sp_is_psp /\ exc.ext = c.fpca
  BY DEF exc, Exc
<1>10. c.mode = "Thread" => exc.thread
  BY DEF exc, Exc
<1> QED BY <1>5, <1>6, <1>7, <1>8, <1>9, <1>10 DEF e, d, c, base, EntryResult

(* What a task has stacked depends on the two cells of its stack only.     *)
LEMMA StackedDepends ==
  ASSUME NEW t \in Tasks \cup {Boot}, NEW exc \in ExcReturn, NEW psp, psp = Top(t) - Words(exc.ext),
         NEW r \in [Cells -> Cell], NEW q \in [Cells -> Cell],
         \A a \in {Top(t) - 1, Top(t) - 2} : q[a] = r[a]
  PROVE  StackedIn(q, psp, exc) = StackedIn(r, psp, exc)
<1>1. exc.ext \in BOOLEAN
  BY DEF ExcReturn
<1>2. Top(t) \in Nat /\ Top(t) - 1 \in Cells /\ Top(t) - 2 \in Cells
  BY CellArith
<1>3. CASE exc.ext = TRUE
  <2>1. psp = Top(t) - 2 /\ psp + 1 = Top(t) - 1
    BY <1>2, <1>3 DEF Words
  <2> QED BY <1>2, <2>1 DEF StackedIn
<1>4. CASE exc.ext = FALSE
  <2>1. psp = Top(t) - 1
    BY <1>2, <1>4 DEF Words
  <2> QED BY <1>2, <1>4, <2>1 DEF StackedIn, Context
<1> QED BY <1>1, <1>3, <1>4

(* The frame is on the stack of the one interrupted, nothing else moves.   *)
LEMMA EntryRamFacts ==
  ASSUME NEW m \in Machines, NEW t \in Tasks \cup {Boot}, m.core.sp = Top(t)
  PROVE  /\ EntryRam(m) \in [Cells -> Cell]
         /\ \A a \in Cells \ {Top(t) - 1, Top(t) - 2} : EntryRam(m)[a] = m.bus.ram[a]
         /\ EntryRam(m)[Top(t) - Words(m.core.fpca)] = BuildFrame(m.core)
         /\ m.core.fpca => EntryRam(m)[Top(t) - 1].regs = m.core.s
<1> DEFINE c == m.core
           r == m.bus.ram
<1>1. c \in CoreState /\ r \in [Cells -> Cell]
  BY DEF Machines, BusState
<1>2. Top(t) \in Nat /\ Top(t) - 1 \in Cells /\ Top(t) - 2 \in Cells
  BY CellArith
<1>3. BuildFrame(c) \in Cell
  BY <1>1 DEF BuildFrame, Cell, CoreState
<1>4. [FreshCell EXCEPT !.regs = c.s] \in Cell /\ [FreshCell EXCEPT !.regs = c.s].regs = c.s
  BY <1>1 DEF FreshCell, Cell, CoreState
<1>5. c.fpca \in BOOLEAN /\ c.sp = Top(t)
  BY <1>1 DEF CoreState
<1>6. CASE c.fpca = TRUE
  <2>1. c.sp - Words(c.fpca) = Top(t) - 2 /\ c.sp - Words(c.fpca) + 1 = Top(t) - 1
        /\ Top(t) - 1 # Top(t) - 2
    BY <1>2, <1>5, <1>6 DEF Words
  <2>2. EntryRam(m) = [[r EXCEPT ![Top(t) - 2] = BuildFrame(c)]
                          EXCEPT ![Top(t) - 1] = [FreshCell EXCEPT !.regs = c.s]]
    BY <1>2, <1>6, <2>1 DEF EntryRam, Store
  <2>3. Top(t) - Words(c.fpca) = Top(t) - 2
    BY <1>5, <2>1
  <2> HIDE DEF c, r
  <2> QED BY <1>1, <1>2, <1>3, <1>4, <2>1, <2>2, <2>3 DEF c, r
<1>7. CASE c.fpca = FALSE
  <2>1. c.sp - Words(c.fpca) = Top(t) - 1 /\ Top(t) - Words(c.fpca) = Top(t) - 1
    BY <1>2, <1>5, <1>7 DEF Words
  <2>2. EntryRam(m) = [r EXCEPT ![Top(t) - 1] = BuildFrame(c)]
    BY <1>2, <1>7, <2>1 DEF EntryRam, Store
  <2> QED BY <1>1, <1>2, <1>3, <1>7, <2>1, <2>2
<1> QED BY <1>5, <1>6, <1>7

(* n continues m: the stacks are in shape and no task's context moved.     *)
Continues(m, n, cur, base, saved) ==
  /\ n \in Machines /\ Shape(n.core, cur, base)
  /\ \A t \in Tasks : ContextIn(n, cur, saved, t) = ContextIn(m, cur, saved, t)

(* e entered exception v from m; of the bus, the stacks alone moved.       *)
Entered(m, v, e) ==
  /\ e.core.mode = "Handler" /\ e.core.ipsr = v /\ e.core.it = 0
  /\ e.bus = [m.bus EXCEPT !.ram = e.bus.ram]
  /\ e.core.primask = m.core.primask /\ e.core.faultmask = m.core.faultmask

(* An entry from thread mode, whatever runs there.                         *)
LEMMA EntryKeeps ==
  ASSUME NEW m \in Machines, NEW cur \in Tasks \cup {Boot}, NEW base \in Int,
         NEW saved \in [Tasks -> SavedTask], SavedShape(saved),
         m.core.mode = "Thread", Shape(m.core, cur, base), NEW v \in Nat
  PROVE  /\ Continues(m, ExceptionEntry(m, v), cur, base, saved)
         /\ Entered(m, v, ExceptionEntry(m, v))
<1> DEFINE e == ExceptionEntry(m, v)
           c == m.core
<1>1. c \in CoreState /\ m.bus \in BusState /\ m.bus.ram \in [Cells -> Cell]
  BY DEF Machines, BusState
<1>2. c.sp = Top(cur)
  BY DEF Shape, ThreadShape
<1>3. /\ EntryRam(m) \in [Cells -> Cell]
      /\ \A a \in Cells \ {Top(cur) - 1, Top(cur) - 2} : EntryRam(m)[a] = m.bus.ram[a]
      /\ EntryRam(m)[Top(cur) - Words(c.fpca)] = BuildFrame(c)
      /\ c.fpca => EntryRam(m)[Top(cur) - 1].regs = c.s
  BY <1>2, EntryRamFacts
<1>4. /\ e \in Machines
      /\ e.bus = [m.bus EXCEPT !.ram = EntryRam(m)] /\ e.bus.ram = EntryRam(m)
      /\ e.core.mode = "Handler" /\ e.core.sp_is_psp = FALSE /\ e.core.it = 0 /\ e.core.ipsr = v
      /\ e.core.lr.psp = c.sp_is_psp /\ e.core.lr.ext = c.fpca /\ e.core.lr.thread
      /\ c.sp_is_psp => e.core.psp = c.sp - Words(c.fpca) /\ e.core.msp = c.msp
      /\ ~c.sp_is_psp => e.core.msp = c.sp - Words(c.fpca)
      /\ e.core.primask = c.primask /\ e.core.faultmask = c.faultmask
  <2>1. EntryResult(m, v, e)
    BY <1>3, EntryFields
  <2> HIDE DEF e
  <2> QED BY <2>1 DEF EntryResult
<1> HIDE DEF e
<1>5. c.sp_is_psp \in BOOLEAN /\ c.fpca \in BOOLEAN /\ Top(cur) \in Nat
  BY <1>1, CellArith DEF CoreState
<1>6. e.core.lr.psp = c.sp_is_psp /\ e.core.lr.ext = c.fpca /\ e.core.lr.thread
  BY <1>4
<1>7. Shape(e.core, cur, base)
  <2>1. CASE cur = Boot
    BY <1>2, <1>4, <1>5, <1>6, <2>1 DEF Shape, ThreadShape, HandlerShape, Words
  <2>2. CASE cur # Boot
    <3>1. c.sp_is_psp /\ c.msp = base
      BY <2>2 DEF Shape, ThreadShape
    <3>2. e.core.psp = Top(cur) - Words(e.core.lr.ext) /\ e.core.msp = base
      BY <1>2, <1>4, <1>6, <3>1
    <3> QED BY <1>4, <1>6, <2>2, <3>1, <3>2 DEF Shape, ThreadShape, HandlerShape
  <2> QED BY <2>1, <2>2
<1>8. ASSUME NEW t \in Tasks
      PROVE  ContextIn(e, cur, saved, t) = ContextIn(m, cur, saved, t)
  <2>1. CASE t # cur
    <3>1. \A a \in {Top(t) - 1, Top(t) - 2} : EntryRam(m)[a] = m.bus.ram[a]
      BY <1>3, <2>1, CellArith
    <3>2. saved[t].exc \in ExcReturn /\ saved[t].psp = Top(t) - Words(saved[t].exc.ext)
      BY DEF SavedShape, SavedTask
    <3>3. StackedIn(EntryRam(m), saved[t].psp, saved[t].exc) = StackedIn(m.bus.ram, saved[t].psp, saved[t].exc)
      BY <1>1, <1>3, <3>1, <3>2, StackedDepends
    <3> QED BY <1>4, <2>1, <3>3 DEF ContextIn
  <2>2. CASE t = cur
    <3>1. cur # Boot /\ c.sp_is_psp /\ e.core.psp = Top(cur) - Words(c.fpca)
      BY <1>2, <1>4, <2>2 DEF Shape, ThreadShape, Tasks, Boot
    <3>2. Top(cur) - 1 \in Cells /\ Top(cur) - 2 \in Cells
      BY CellArith
    <3>3. BuildFrame(c).regs = c.regs /\ BuildFrame(c).it = c.it
      BY DEF BuildFrame
    <3>4. StackedIn(EntryRam(m), e.core.psp, e.core.lr) = Context(c.regs, c.it, c.fpca, c.s, c.sp)
      <4>1. CASE c.fpca = TRUE
        <5>1. e.core.psp = Top(cur) - 2 /\ e.core.psp + 1 = Top(cur) - 1 /\ Words(c.fpca) = 2
              /\ e.core.psp + Words(c.fpca) = c.sp
          BY <1>2, <1>5, <3>1, <4>1 DEF Words
        <5>2. EntryRam(m)[e.core.psp] = BuildFrame(c) /\ EntryRam(m)[e.core.psp + 1].regs = c.s
          BY <1>3, <3>1, <4>1, <5>1
        <5> QED BY <1>6, <3>2, <3>3, <5>1, <5>2 DEF StackedIn
      <4>2. CASE c.fpca = FALSE
        <5>1. e.core.psp = Top(cur) - 1 /\ e.core.psp + Words(c.fpca) = c.sp
          BY <1>2, <1>5, <3>1, <4>2 DEF Words
        <5>2. EntryRam(m)[e.core.psp] = BuildFrame(c)
          BY <1>3, <3>1
        <5> QED BY <1>6, <3>2, <3>3, <4>2, <5>1, <5>2 DEF StackedIn, Context
      <4> QED BY <1>5, <4>1, <4>2
    <3> QED BY <1>4, <2>2, <3>4 DEF ContextIn
  <2> QED BY <2>1, <2>2
<1>9. e.bus = [m.bus EXCEPT !.ram = e.bus.ram]
  BY <1>4
<1>10. Continues(m, e, cur, base, saved) /\ Entered(m, v, e)
  BY <1>4, <1>7, <1>8, <1>9 DEF Continues, Entered
<1> QED BY <1>10 DEF e

-----------------------------------------------------------------------------
(* One slot of the run loop                                                *)

(* n has the stacks and the registers of m.                                *)
SameStacks(m, n) ==
  /\ n \in Machines /\ n.bus.ram = m.bus.ram
  /\ n.core.mode = m.core.mode /\ n.core.sp = m.core.sp /\ n.core.msp = m.core.msp
  /\ n.core.psp = m.core.psp /\ n.core.sp_is_psp = m.core.sp_is_psp /\ n.core.fpca = m.core.fpca
  /\ n.core.regs = m.core.regs /\ n.core.lr = m.core.lr /\ n.core.it = m.core.it
  /\ n.core.s = m.core.s

LEMMA SameContinues ==
  ASSUME NEW m \in Machines, NEW n, NEW cur, NEW base, NEW saved,
         Shape(m.core, cur, base), SameStacks(m, n)
  PROVE  Continues(m, n, cur, base, saved)
<1>1. Shape(n.core, cur, base)
  BY DEF SameStacks, Shape, ThreadShape, HandlerShape
<1>2. \A t \in Tasks : ContextIn(n, cur, saved, t) = ContextIn(m, cur, saved, t)
  BY DEF SameStacks, ContextIn
<1> QED BY <1>1, <1>2 DEF Continues, SameStacks

LEMMA ContinuesOn ==
  ASSUME NEW m, NEW n, NEW o, NEW cur, NEW base, NEW saved,
         Continues(m, n, cur, base, saved), Continues(n, o, cur, base, saved)
  PROVE  Continues(m, o, cur, base, saved)
  BY DEF Continues

(* The bus of n is that of m but for the stacks, and the masks stay.       *)
BusStays(m, n) ==
  /\ n.bus.nvic_en = m.bus.nvic_en /\ n.bus.nvic_pend = m.bus.nvic_pend
  /\ n.bus.event = m.bus.event /\ n.bus.dev_touched = m.bus.dev_touched

LEMMA EnteredBus ==
  ASSUME NEW m \in Machines, NEW e, NEW v, Entered(m, v, e)
  PROVE  BusStays(m, e)
  BY DEF Entered, BusStays, Machines, BusState

LEMMA TickKeeps ==
  ASSUME NEW m \in Machines, NEW cur \in Tasks \cup {Boot}, NEW base \in Int,
         NEW saved \in [Tasks -> SavedTask], SavedShape(saved), Shape(m.core, cur, base)
  PROVE  /\ Continues(m, MaybeTick(m), cur, base, saved)
         /\ BusStays(m, MaybeTick(m))
         /\ MaybeTick(m).core.mode \in {m.core.mode, "Handler"}
<1> DEFINE n == (IF m.core.systick = 0 THEN Rvr ELSE m.core.systick) - 1
           k == IF n = 0 THEN Rvr ELSE n
           t == [m EXCEPT !.core.systick = k]
<1>1. m.core \in CoreState /\ m.bus \in BusState
  BY DEF Machines
<1>2. k \in Nat
  BY <1>1 DEF CoreState
<1>3. MaybeTick(m) = m \/ MaybeTick(m) = t
        \/ (m.core.mode = "Thread" /\ MaybeTick(m) = ExceptionEntry(t, SYSTICK))
  BY DEF MaybeTick
<1> HIDE DEF k
<1>4. t.core = [m.core EXCEPT !.systick = k] /\ t.bus = m.bus
  BY DEF Machines
<1>5. t.core \in CoreState
  BY <1>1, <1>2, <1>4 DEF CoreState
<1>6. t \in Machines
  BY <1>1, <1>2 DEF Machines, CoreState
<1>7. SameStacks(m, t) /\ BusStays(m, t)
  BY <1>1, <1>4, <1>6 DEF SameStacks, BusStays, CoreState
<1> HIDE DEF t
<1>8. Continues(m, t, cur, base, saved)
  BY <1>7, SameContinues
<1>9. SameStacks(m, m) /\ BusStays(m, m)
  BY DEF SameStacks, BusStays
<1>10. Continues(m, m, cur, base, saved)
  BY <1>9, SameContinues
<1>11. CASE m.core.mode = "Thread" /\ MaybeTick(m) = ExceptionEntry(t, SYSTICK)
  <2> DEFINE e == ExceptionEntry(t, SYSTICK)
  <2>1. t.core.mode = "Thread" /\ Shape(t.core, cur, base) /\ SYSTICK \in Nat
    BY <1>7, <1>8, <1>11 DEF SameStacks, Continues, SYSTICK
  <2>2. Continues(t, e, cur, base, saved) /\ Entered(t, SYSTICK, e)
    BY <1>6, <2>1, EntryKeeps
  <2> HIDE DEF e
  <2>3. Continues(m, e, cur, base, saved)
    BY <1>8, <2>2, ContinuesOn
  <2>4. BusStays(t, e)
    BY <1>6, <2>2, EnteredBus
  <2>5. BusStays(m, e) /\ e.core.mode = "Handler"
    BY <1>7, <2>2, <2>4 DEF BusStays, Entered
  <2> QED BY <1>11, <2>3, <2>5 DEF e
<1>12. CASE MaybeTick(m) = t
  BY <1>7, <1>8, <1>12 DEF SameStacks
<1>13. CASE MaybeTick(m) = m
  BY <1>9, <1>10, <1>13
<1> QED BY <1>3, <1>11, <1>12, <1>13

(* What maybe_interrupt does to the pending interrupts: none is taken, the *)
(* one whose exception is entered, or PendSV.                              *)
Served(m, n) ==
  LET b == CollectIrqs(m.bus) IN
  /\ n.bus.event = b.event
  /\ \/ n.core.mode = m.core.mode /\ n.bus.nvic_pend = b.nvic_pend
     \/ /\ m.core.mode = "Thread" /\ n.core.mode = "Handler"
        /\ \/ \E i \in Irqs : n.core.ipsr = 16 + i /\ n.bus.nvic_pend = b.nvic_pend \ {i}
           \/ n.core.ipsr = PENDSV /\ n.bus.nvic_pend = b.nvic_pend

LEMMA CollectType ==
  ASSUME NEW b \in BusState
  PROVE  /\ CollectIrqs(b) \in BusState /\ CollectIrqs(b).ram = b.ram
         /\ \E raised \in SUBSET b.event :
              /\ CollectIrqs(b).nvic_pend = b.nvic_pend \cup raised
              /\ CollectIrqs(b).event = b.event \ (raised \ Level)
<1> DEFINE raised == IF b.dev_touched THEN b.event ELSE b.event \ Polled
<1>1. raised \in SUBSET b.event /\ b.event \subseteq Irqs /\ b.nvic_pend \subseteq Irqs
  BY DEF BusState
<1>2. CollectIrqs(b) = [b EXCEPT !.dev_touched = FALSE, !.nvic_pend = b.nvic_pend \cup raised,
                                 !.event = b.event \ (raised \ Level)]
  BY DEF CollectIrqs
<1> HIDE DEF raised
<1>3. CollectIrqs(b).ram = b.ram /\ CollectIrqs(b).nvic_pend = b.nvic_pend \cup raised
      /\ CollectIrqs(b).event = b.event \ (raised \ Level)
  BY <1>2 DEF BusState
<1>4. b.nvic_pend \cup raised \in SUBSET Irqs /\ b.event \ (raised \ Level) \in SUBSET Irqs
  BY <1>1
<1>5. CollectIrqs(b) \in BusState
  BY <1>2, <1>4 DEF BusState
<1> QED BY <1>1, <1>3, <1>5

LEMMA IrqsAreNumbers == \A i \in Irqs : i \in Nat /\ i \in Int
  OBVIOUS

(* The same core on another bus with the same stacks.                      *)
LEMMA OtherBus ==
  ASSUME NEW m \in Machines, NEW b \in BusState, b.ram = m.bus.ram
  PROVE  SameStacks(m, [m EXCEPT !.bus = b]) /\ [m EXCEPT !.bus = b].bus = b
         /\ [m EXCEPT !.bus = b].core = m.core
<1>1. [m EXCEPT !.bus = b] = [core |-> m.core, bus |-> b]
  BY DEF Machines
<1>2. [core |-> m.core, bus |-> b] \in Machines
  BY DEF Machines
<1> QED BY <1>1, <1>2 DEF SameStacks

LEMMA InterruptKeeps ==
  ASSUME NEW m \in Machines, NEW cur \in Tasks \cup {Boot}, NEW base \in Int,
         NEW saved \in [Tasks -> SavedTask], SavedShape(saved), Shape(m.core, cur, base)
  PROVE  Continues(m, MaybeInterrupt(m), cur, base, saved) /\ Served(m, MaybeInterrupt(m))
<1> DEFINE b == CollectIrqs(m.bus)
           c == m.core
           taken == {i \in NextIrq(b) : c.basepri = 0 \/ Prio[i] < c.basepri}
           i0 == CHOOSE i \in taken : TRUE
           b1 == [b EXCEPT !.nvic_pend = b.nvic_pend \ taken]
           b2 == [b EXCEPT !.pend_pendsv = FALSE]
<1>1. m.bus \in BusState
  BY DEF Machines
<1>2. b \in BusState /\ b.ram = m.bus.ram
  BY <1>1, CollectType
<1>3. \/ MaybeInterrupt(m) = [m EXCEPT !.bus = b]
      \/ /\ c.mode = "Thread" /\ taken # {}
         /\ MaybeInterrupt(m) = ExceptionEntry([m EXCEPT !.bus = b1], 16 + i0)
      \/ /\ c.mode = "Thread"
         /\ MaybeInterrupt(m) = ExceptionEntry([m EXCEPT !.bus = b2], PENDSV)
  BY DEF MaybeInterrupt
<1>4. taken # {} => i0 \in Irqs /\ taken = {i0}
  <2> SUFFICES ASSUME taken # {} PROVE i0 \in Irqs /\ taken = {i0}
    OBVIOUS
  <2>1. i0 \in taken
    OBVIOUS
  <2>2. b.nvic_en \subseteq Irqs
    BY <1>2 DEF BusState
  <2>3. \A i \in taken : i \in Irqs /\ \A j \in taken : i <= j
    BY <2>2 DEF NextIrq
  <2> HIDE DEF i0, taken
  <2>4. \A i \in taken : i \in Int /\ i0 \in Int /\ i <= i0 /\ i0 <= i
    BY <2>1, <2>3, IrqsAreNumbers
  <2>5. \A i \in taken : i = i0
    BY <2>4
  <2> QED BY <2>1, <2>3, <2>5
<1> HIDE DEF taken, i0, b
<1>5. CASE MaybeInterrupt(m) = [m EXCEPT !.bus = b]
  <2> DEFINE n == [m EXCEPT !.bus = b]
  <2>1. SameStacks(m, n) /\ n.bus = b /\ n.core = m.core
    BY <1>2, OtherBus
  <2> HIDE DEF n
  <2>2. Continues(m, n, cur, base, saved)
    BY <2>1, SameContinues
  <2>3. Served(m, n)
    BY <2>1 DEF Served, b
  <2> QED BY <1>5, <2>2, <2>3 DEF n
<1>6. ASSUME c.mode = "Thread", NEW x \in BusState, x.ram = m.bus.ram, NEW v \in Nat,
             MaybeInterrupt(m) = ExceptionEntry([m EXCEPT !.bus = x], v)
      PROVE  /\ Continues(m, MaybeInterrupt(m), cur, base, saved)
             /\ MaybeInterrupt(m).core.mode = "Handler" /\ MaybeInterrupt(m).core.ipsr = v
             /\ MaybeInterrupt(m).bus.event = x.event
             /\ MaybeInterrupt(m).bus.nvic_pend = x.nvic_pend
  <2> DEFINE n == [m EXCEPT !.bus = x]
             e == MaybeInterrupt(m)
  <2>1. SameStacks(m, n) /\ n.bus = x /\ n.core = m.core
    BY <1>6, OtherBus
  <2>2. e = ExceptionEntry(n, v)
    BY <1>6
  <2> HIDE DEF n, e
  <2>3. Continues(m, n, cur, base, saved)
    BY <2>1, SameContinues
  <2>4. n \in Machines /\ n.core.mode = "Thread" /\ Shape(n.core, cur, base)
    BY <1>6, <2>1, <2>3 DEF Continues
  <2>5. Continues(n, e, cur, base, saved) /\ Entered(n, v, e)
    BY <2>2, <2>4, EntryKeeps
  <2>6. Continues(m, e, cur, base, saved)
    BY <2>3, <2>5, ContinuesOn
  <2>7. BusStays(n, e)
    BY <2>4, <2>5, EnteredBus
  <2> QED BY <2>1, <2>5, <2>6, <2>7 DEF e, BusStays, Entered
<1>7. CASE /\ c.mode = "Thread" /\ taken # {}
           /\ MaybeInterrupt(m) = ExceptionEntry([m EXCEPT !.bus = b1], 16 + i0)
  <2>1. b1 \in BusState /\ b1.ram = m.bus.ram /\ b1.event = b.event
        /\ b1.nvic_pend = b.nvic_pend \ {i0}
    BY <1>2, <1>4, <1>7 DEF BusState
  <2>2. i0 \in Irqs /\ 16 + i0 \in Nat
    BY <1>4, <1>7
  <2> HIDE DEF b1
  <2>3. /\ Continues(m, MaybeInterrupt(m), cur, base, saved)
        /\ MaybeInterrupt(m).core.mode = "Handler" /\ MaybeInterrupt(m).core.ipsr = 16 + i0
        /\ MaybeInterrupt(m).bus.event = b.event
        /\ MaybeInterrupt(m).bus.nvic_pend = b.nvic_pend \ {i0}
    BY <1>6, <1>7, <2>1, <2>2
  <2> QED BY <1>7, <2>2, <2>3 DEF Served, b
<1>8. CASE /\ c.mode = "Thread"
           /\ MaybeInterrupt(m) = ExceptionEntry([m EXCEPT !.bus = b2], PENDSV)
  <2>1. b2 \in BusState /\ b2.ram = m.bus.ram /\ b2.event = b.event /\ b2.nvic_pend = b.nvic_pend
    BY <1>2 DEF BusState
  <2>2. PENDSV \in Nat
    BY DEF PENDSV
  <2> HIDE DEF b2
  <2>3. /\ Continues(m, MaybeInterrupt(m), cur, base, saved)
        /\ MaybeInterrupt(m).core.mode = "Handler" /\ MaybeInterrupt(m).core.ipsr = PENDSV
        /\ MaybeInterrupt(m).bus.event = b.event
        /\ MaybeInterrupt(m).bus.nvic_pend = b.nvic_pend
    BY <1>6, <1>8, <2>1, <2>2
  <2> QED BY <1>8, <2>3 DEF Served, b
<1> QED BY <1>3, <1>5, <1>7, <1>8

(* The events that are owed, at a machine m in the middle of a slot.       *)
Kept(o, b) == o \subseteq Irqs /\ o \subseteq b.event \cup b.nvic_pend /\ o \cap Level = {}

LEMMA SlotKeeps ==
  ASSUME NEW m \in Machines, NEW cur \in Tasks \cup {Boot}, NEW base \in Int,
         NEW saved \in [Tasks -> SavedTask], SavedShape(saved), Shape(m.core, cur, base),
         Kept(owed, m.bus), waited \in Nat, Slot(m)
  PROVE  /\ Continues(m, Machine', cur, base, saved)
         /\ Kept(owed', bus') /\ waited' \in Nat
         /\ core'.mode \in {m.core.mode, "Handler"}
<1> DEFINE t == MaybeTick(m)
           n == MaybeInterrupt(t)
<1>1. /\ Continues(m, t, cur, base, saved) /\ BusStays(m, t)
      /\ t.core.mode \in {m.core.mode, "Handler"}
  BY TickKeeps
<1>2. t \in Machines /\ Shape(t.core, cur, base)
  BY <1>1 DEF Continues
<1> HIDE DEF t
<1>3. Continues(t, n, cur, base, saved) /\ Served(t, n)
  BY <1>2, InterruptKeeps
<1>4. core' = n.core /\ bus' = n.bus
      /\ owed' = (owed \cup (m.bus.event \ Level))
                  \ (IF t.core.mode = "Thread" /\ n.core.mode = "Handler" THEN {n.core.ipsr - 16} ELSE {})
      /\ waited' \in {waited + 1, 0}
  BY DEF Slot, t
<1> HIDE DEF n
<1>5. Machine' = n
  <2>1. n = [core |-> n.core, bus |-> n.bus]
    BY <1>3 DEF Continues, Machines
  <2> QED BY <1>4, <2>1 DEF Machine
<1>6. Continues(m, n, cur, base, saved)
  BY <1>1, <1>3, ContinuesOn
<1>7. core'.mode \in {m.core.mode, "Handler"}
  BY <1>1, <1>3, <1>4 DEF Served
<1>8. Kept(owed', bus')
  <2>1. t.bus \in BusState /\ m.bus \in BusState
    BY <1>2 DEF Machines
  <2>2. PICK raised \in SUBSET t.bus.event :
              /\ CollectIrqs(t.bus).nvic_pend = t.bus.nvic_pend \cup raised
              /\ CollectIrqs(t.bus).event = t.bus.event \ (raised \ Level)
    BY <2>1, CollectType
  <2> DEFINE o == owed \cup (m.bus.event \ Level)
             p == CollectIrqs(t.bus).nvic_pend
             ev == CollectIrqs(t.bus).event
  <2>3. o \subseteq Irqs /\ o \cap Level = {} /\ o \subseteq ev \cup p
    BY <1>1, <2>1, <2>2 DEF Kept, BusStays, BusState
  <2>4. n.bus.event = ev
    BY <1>3 DEF Served
  <2> HIDE DEF o, p, ev
  <2>5. owed' = o \ (IF t.core.mode = "Thread" /\ n.core.mode = "Handler" THEN {n.core.ipsr - 16} ELSE {})
    BY <1>4 DEF o
  <2>6. CASE n.core.mode = t.core.mode /\ n.bus.nvic_pend = p
    BY <1>4, <2>3, <2>4, <2>5, <2>6 DEF Kept
  <2>7. ASSUME t.core.mode = "Thread", n.core.mode = "Handler", NEW i \in Irqs,
               n.core.ipsr = 16 + i, n.bus.nvic_pend = p \ {i}
        PROVE  Kept(owed', bus')
    <3>0. i \in Int
      BY IrqsAreNumbers
    <3>1. n.core.ipsr - 16 = i
      BY <2>7, <3>0
    <3>2. owed' = o \ {i}
      BY <2>5, <2>7, <3>1
    <3> QED BY <1>4, <2>3, <2>4, <2>7, <3>2 DEF Kept
  <2>8. CASE n.bus.nvic_pend = p
    <3>1. owed' \subseteq o
      BY <2>5
    <3> QED BY <1>4, <2>3, <2>4, <2>8, <3>1 DEF Kept
  <2> QED BY <1>3, <2>6, <2>7, <2>8 DEF Served, p
<1>9. waited' \in Nat
  BY <1>4
<1> QED BY <1>5, <1>6, <1>7, <1>8, <1>9

-----------------------------------------------------------------------------
(* The invariant                                                           *)

KernState == [cur : Tasks \cup {Boot}, saved : [Tasks -> SavedTask], done : BOOLEAN]

(* A task's registers hold what its own instructions wrote, or nothing.    *)
ContextsOK == \A t \in Tasks : TaskContext(t).regs \in Vals

IInv ==
  /\ TypeOK
  /\ Shape(core, kern.cur, mspBase)
  /\ SavedShape(kern.saved)
  /\ Kept(owed, bus)
  /\ ContextsOK

(* A step that ends with a slot on machine m keeps the invariant if m, with *)
(* what the kernel did meanwhile, is in shape.                             *)
LEMMA FromSlot ==
  ASSUME IInv, NEW m \in Machines, kern' \in KernState, mspBase' \in Int,
         Shape(m.core, kern'.cur, mspBase'), SavedShape(kern'.saved), Kept(owed, m.bus), Slot(m),
         \A t \in Tasks : ContextIn(m, kern'.cur, kern'.saved, t).regs \in Vals
  PROVE  /\ IInv' /\ core'.mode \in {m.core.mode, "Handler"}
         /\ \A t \in Tasks : TaskContext(t)' = ContextIn(m, kern'.cur, kern'.saved, t)
<1>1. waited \in Nat
  BY DEF IInv, TypeOK
<1>2. kern'.cur \in Tasks \cup {Boot} /\ kern'.saved \in [Tasks -> SavedTask]
  BY DEF KernState
<1>3. /\ Continues(m, Machine', kern'.cur, mspBase', kern'.saved)
      /\ Kept(owed', bus') /\ waited' \in Nat
      /\ core'.mode \in {m.core.mode, "Handler"}
  BY <1>1, <1>2, SlotKeeps
<1>4. core' \in CoreState /\ bus' \in BusState /\ Shape(core', kern'.cur, mspBase')
  BY <1>3 DEF Continues, Machine, Machines
<1>5. \A t \in Tasks : TaskContext(t)' = ContextIn(m, kern'.cur, kern'.saved, t)
  <2> SUFFICES ASSUME NEW t \in Tasks
               PROVE  TaskContext(t)' = ContextIn(m, kern'.cur, kern'.saved, t)
    OBVIOUS
  <2>1. TaskContext(t)' = ContextIn(Machine', kern'.cur, kern'.saved, t)
    BY DEF TaskContext, Stacked, ContextIn, StackedIn, Machine
  <2> QED BY <1>3, <2>1 DEF Continues
<1>6. TypeOK'
  BY <1>3, <1>4 DEF TypeOK, Kept, KernState
<1>7. ContextsOK'
  BY <1>5 DEF ContextsOK
<1> QED BY <1>3, <1>4, <1>5, <1>6, <1>7 DEF IInv

LEMMA MachineFacts ==
  ASSUME IInv
  PROVE  /\ Machine \in Machines /\ core \in CoreState /\ bus \in BusState
         /\ kern \in KernState /\ mspBase \in Int /\ kern.cur \in Tasks \cup {Boot}
         /\ kern.saved \in [Tasks -> SavedTask]
         /\ \A t \in Tasks : TaskContext(t) = ContextIn(Machine, kern.cur, kern.saved, t)
<1>1. \A t \in Tasks : TaskContext(t) = ContextIn(Machine, kern.cur, kern.saved, t)
  BY DEF TaskContext, Stacked, ContextIn, StackedIn, Machine
<1> QED BY <1>1 DEF IInv, TypeOK, Machines, Machine, KernState

(* What runs, in the terms of TaskContexts.                                *)
Running == IF core.mode = "Thread" THEN kern.cur ELSE Boot

(* An instruction of the task that runs: it leaves the stack pointers and  *)
(* the memory alone.                                                       *)
LEMMA TaskInstruction ==
  ASSUME IInv, InTask, NEW d \in CoreState, NEW b \in BusState,
         d.mode = core.mode, d.sp = core.sp, d.msp = core.msp, d.sp_is_psp = core.sp_is_psp,
         d.regs \in Vals, b.ram = bus.ram, Kept(owed, b),
         Slot([core |-> d, bus |-> b]), UNCHANGED <<kern, mspBase>>
  PROVE  /\ IInv' /\ Running = kern.cur /\ Running' \in {kern.cur, Boot}
         /\ kern.cur \in Tasks
         /\ TaskContext(kern.cur)' = Context(d.regs, d.it, d.fpca, d.s, core.sp)
         /\ TaskContext(kern.cur) = Context(core.regs, core.it, core.fpca, core.s, core.sp)
         /\ \A t \in Tasks \ {kern.cur} : TaskContext(t)' = TaskContext(t)
<1> DEFINE m == [core |-> d, bus |-> b]
           cur == kern.cur
<1>1. m \in Machines
  BY DEF Machines
<1>2. core.mode = "Thread" /\ cur \in Tasks /\ cur # Boot
  BY MachineFacts DEF InTask, ThreadRuns
<1>3. Shape(m.core, cur, mspBase)
  BY <1>2 DEF IInv, Shape, ThreadShape, HandlerShape
<1>4. \A t \in Tasks : ContextIn(m, cur, kern.saved, t) =
         IF t = cur THEN Context(d.regs, d.it, d.fpca, d.s, core.sp) ELSE TaskContext(t)
  <2> SUFFICES ASSUME NEW t \in Tasks
               PROVE  ContextIn(m, cur, kern.saved, t) =
                        IF t = cur THEN Context(d.regs, d.it, d.fpca, d.s, core.sp) ELSE TaskContext(t)
    OBVIOUS
  <2>1. CASE t = cur
    BY <1>2, <2>1 DEF ContextIn
  <2>2. CASE t # cur
    BY <2>2 DEF ContextIn, StackedIn, TaskContext, Stacked
  <2> QED BY <2>1, <2>2
<1>5. Context(d.regs, d.it, d.fpca, d.s, core.sp).regs \in Vals
  BY DEF Context
<1>6. \A t \in Tasks : ContextIn(m, cur, kern.saved, t).regs \in Vals
  BY <1>4, <1>5 DEF IInv, ContextsOK
<1>7. m.core = d /\ m.bus = b
  OBVIOUS
<1> HIDE DEF m
<1>8. /\ IInv' /\ core'.mode \in {m.core.mode, "Handler"}
      /\ \A t \in Tasks : TaskContext(t)' = ContextIn(m, kern'.cur, kern'.saved, t)
  <2>1. kern' = kern /\ mspBase' = mspBase /\ SavedShape(kern.saved) /\ Slot(m)
    BY DEF IInv, m
  <2>2. kern' \in KernState /\ mspBase' \in Int
    BY <2>1, MachineFacts
  <2> QED BY <1>1, <1>3, <1>6, <1>7, <2>1, <2>2, FromSlot
<1>9. TaskContext(cur) = Context(core.regs, core.it, core.fpca, core.s, core.sp)
  BY <1>2 DEF TaskContext
<1> QED BY <1>2, <1>4, <1>7, <1>8, <1>9 DEF Running

-----------------------------------------------------------------------------
(* Steps, as the tasks see them                                            *)

(* An instruction of task t, and no other task moves.                      *)
TaskMoves(t) ==
  /\ Running = t /\ Running' \in {t, Boot}
  /\ \A u \in Tasks \ {t} : TaskContext(u)' = TaskContext(u)
  /\ LET x == TaskContext(t)
         left == IF x.it = 0 THEN 0 ELSE x.it - 1
     IN  \E v \in Vals :
           \/ TaskContext(t)' = [regs |-> v, it |-> left, fpca |-> x.fpca, s |-> x.s, sp |-> x.sp]
           \/ TaskContext(t)' = [regs |-> x.regs, it |-> left, fpca |-> TRUE, s |-> t, sp |-> x.sp]
           \/ /\ x.it = 0
              /\ TaskContext(t)' = [regs |-> x.regs, it |-> ItLen, fpca |-> x.fpca, s |-> x.s, sp |-> x.sp]

(* Nothing a task could see: it enters a handler or comes back from one.   *)
Unseen ==
  /\ \A t \in Tasks : TaskContext(t)' = TaskContext(t)
  /\ Running' = Running \/ Running = Boot \/ Running' = Boot

Restarted ==
  /\ \A t \in Tasks : TaskContext(t)' = Context(0, 0, t \in FpTasks, 0, Top(t))
  /\ Running' = Boot

TaskStep == (\E t \in Tasks : TaskMoves(t)) \/ Unseen \/ Restarted

LEMMA ItCountFields ==
  ASSUME NEW c \in CoreState
  PROVE  /\ ItCount(c) \in CoreState
         /\ ItCount(c).it = IF c.it = 0 THEN 0 ELSE c.it - 1
         /\ ItCount(c).mode = c.mode /\ ItCount(c).sp = c.sp /\ ItCount(c).msp = c.msp
         /\ ItCount(c).sp_is_psp = c.sp_is_psp /\ ItCount(c).regs = c.regs
         /\ ItCount(c).fpca = c.fpca /\ ItCount(c).s = c.s
<1> DEFINE k == IF c.it = 0 THEN 0 ELSE c.it - 1
<1>1. k \in Nat
  BY DEF CoreState
<1>2. ItCount(c) = [c EXCEPT !.it = k]
  BY DEF ItCount
<1> HIDE DEF k
<1>3. ItCount(c) \in CoreState
  BY <1>1, <1>2 DEF CoreState
<1>4. /\ ItCount(c).it = k
      /\ ItCount(c).mode = c.mode /\ ItCount(c).sp = c.sp /\ ItCount(c).msp = c.msp
      /\ ItCount(c).sp_is_psp = c.sp_is_psp /\ ItCount(c).regs = c.regs
      /\ ItCount(c).fpca = c.fpca /\ ItCount(c).s = c.s
  BY <1>2 DEF CoreState
<1> QED BY <1>3, <1>4 DEF k

(* A field of a machine's bus replaced.                                    *)
LEMMA MachineEvents ==
  ASSUME NEW c, NEW b, NEW x
  PROVE  [[core |-> c, bus |-> b] EXCEPT !.bus.event = x] = [core |-> c, bus |-> [b EXCEPT !.event = x]]
  OBVIOUS

LEMMA InTaskFacts ==
  ASSUME IInv, InTask
  PROVE  kern.cur \in Tasks /\ core.regs \in Vals /\ core.regs \in Nat /\ Kept(owed, bus)
<1>1. kern.cur \in Tasks /\ core.mode = "Thread"
  BY MachineFacts DEF InTask, ThreadRuns
<1>2. TaskContext(kern.cur).regs = core.regs
  BY <1>1 DEF TaskContext, Context
<1>3. core.regs \in Vals
  BY <1>1, <1>2 DEF IInv, ContextsOK
<1> QED BY <1>1, <1>3 DEF IInv

(* Instructions that write the registers, or none.                         *)
LEMMA RegistersKeep ==
  ASSUME IInv, InTask, NEW c \in CoreState, NEW b \in BusState, NEW v \in Vals,
         c.mode = core.mode, c.sp = core.sp, c.msp = core.msp, c.sp_is_psp = core.sp_is_psp,
         c.fpca = core.fpca, c.s = core.s, c.it = core.it, c.regs = v,
         b.ram = bus.ram, Kept(owed, b),
         Slot([core |-> ItCount(c), bus |-> b]), UNCHANGED <<kern, mspBase>>
  PROVE  IInv' /\ TaskStep
<1> DEFINE d == ItCount(c)
           t == kern.cur
<1>1. /\ d \in CoreState
      /\ d.it = (IF core.it = 0 THEN 0 ELSE core.it - 1)
      /\ d.mode = core.mode /\ d.sp = core.sp /\ d.msp = core.msp /\ d.sp_is_psp = core.sp_is_psp
      /\ d.regs = v /\ d.fpca = core.fpca /\ d.s = core.s
  BY ItCountFields
<1> HIDE DEF d
<1>2. /\ IInv' /\ Running = t /\ Running' \in {t, Boot}
      /\ t \in Tasks
      /\ TaskContext(t)' = Context(d.regs, d.it, d.fpca, d.s, core.sp)
      /\ TaskContext(t) = Context(core.regs, core.it, core.fpca, core.s, core.sp)
      /\ \A u \in Tasks \ {t} : TaskContext(u)' = TaskContext(u)
  <2>1. Slot([core |-> d, bus |-> b]) /\ d.regs \in Vals
    BY <1>1 DEF d
  <2> QED BY <1>1, <2>1, TaskInstruction
<1>3. LET x == TaskContext(t) IN
      TaskContext(t)' = [regs |-> v, it |-> IF x.it = 0 THEN 0 ELSE x.it - 1,
                         fpca |-> x.fpca, s |-> x.s, sp |-> x.sp]
  BY <1>1, <1>2 DEF Context
<1>4. TaskMoves(t)
  BY <1>2, <1>3 DEF TaskMoves
<1> QED BY <1>2, <1>4 DEF TaskStep

LEMMA ComputeKeeps ==
  ASSUME IInv, NEW v \in Vals, Compute(v)
  PROVE  IInv' /\ TaskStep
<1> DEFINE c == [core EXCEPT !.regs = v]
<1>1. core \in CoreState /\ bus \in BusState
  BY MachineFacts
<1>2. InTask /\ Slot([core |-> ItCount(c), bus |-> bus]) /\ UNCHANGED <<kern, mspBase>>
  BY DEF Compute, Machine
<1>3. v \in Nat /\ Kept(owed, bus)
  BY DEF IInv
<1>4. /\ c.mode = core.mode /\ c.sp = core.sp /\ c.msp = core.msp /\ c.sp_is_psp = core.sp_is_psp
      /\ c.fpca = core.fpca /\ c.s = core.s /\ c.it = core.it /\ c.regs = v
  BY <1>1 DEF CoreState
<1>5. c \in CoreState
  BY <1>1, <1>3 DEF CoreState
<1> HIDE DEF c
<1> QED BY <1>1, <1>2, <1>3, <1>4, <1>5, RegistersKeep

LEMMA BkptKeeps ==
  ASSUME IInv, Bkpt
  PROVE  IInv' /\ TaskStep
<1> DEFINE c == [core EXCEPT !.halted = TRUE, !.bkpt_hit = TRUE]
<1>1. core \in CoreState /\ bus \in BusState
  BY MachineFacts
<1>2. InTask /\ Slot([core |-> ItCount(c), bus |-> bus]) /\ UNCHANGED <<kern, mspBase>>
  BY DEF Bkpt, Machine
<1>3. core.regs \in Vals /\ Kept(owed, bus)
  BY <1>2, InTaskFacts
<1>4. /\ c.mode = core.mode /\ c.sp = core.sp /\ c.msp = core.msp /\ c.sp_is_psp = core.sp_is_psp
      /\ c.fpca = core.fpca /\ c.s = core.s /\ c.it = core.it /\ c.regs = core.regs
  BY <1>1 DEF CoreState
<1>5. c \in CoreState
  BY <1>1 DEF CoreState
<1> HIDE DEF c
<1> QED BY <1>1, <1>2, <1>3, <1>4, <1>5, RegistersKeep

LEMMA DeviceKeeps ==
  ASSUME IInv, NEW i \in Irqs, DeviceAccess(i)
  PROVE  IInv' /\ TaskStep
<1> DEFINE up == [bus EXCEPT !.dev_touched = TRUE, !.event = bus.event \cup {i}]
           down == [bus EXCEPT !.dev_touched = TRUE, !.event = bus.event \ {i}]
<1>1. core \in CoreState /\ bus \in BusState
  BY MachineFacts
<1>2. InTask /\ UNCHANGED <<kern, mspBase>>
  BY DEF DeviceAccess
<1>3. core.regs \in Vals /\ Kept(owed, bus)
  BY <1>2, InTaskFacts
<1>4. \/ Slot([core |-> ItCount(core), bus |-> up])
      \/ i \in Level /\ Slot([core |-> ItCount(core), bus |-> down])
  <2>1. DOMAIN bus = {"ram", "nvic_en", "nvic_pend", "pend_pendsv", "dev_touched", "event"}
    BY <1>1 DEF BusState
  <2> DEFINE b == [bus EXCEPT !.dev_touched = TRUE]
             m == [core |-> ItCount(core), bus |-> b]
  <2>2. [m EXCEPT !.bus.event = m.bus.event \cup {i}] =
          [core |-> ItCount(core), bus |-> [b EXCEPT !.event = b.event \cup {i}]]
    BY MachineEvents
  <2>3. [m EXCEPT !.bus.event = m.bus.event \ {i}] =
          [core |-> ItCount(core), bus |-> [b EXCEPT !.event = b.event \ {i}]]
    BY MachineEvents
  <2>4. b.event = bus.event
    BY <2>1
  <2>5. [b EXCEPT !.event = b.event \cup {i}] = up /\ [b EXCEPT !.event = b.event \ {i}] = down
    BY <2>1, <2>4
  <2>6. \/ Slot([m EXCEPT !.bus.event = m.bus.event \cup {i}])
        \/ i \in Level /\ Slot([m EXCEPT !.bus.event = m.bus.event \ {i}])
    BY DEF DeviceAccess
  <2> QED BY <2>2, <2>3, <2>5, <2>6
<1>5. CASE Slot([core |-> ItCount(core), bus |-> up])
  <2>1. up.ram = bus.ram /\ up.event = bus.event \cup {i} /\ up.nvic_pend = bus.nvic_pend
    BY <1>1 DEF BusState
  <2>2. up \in BusState
    BY <1>1 DEF BusState
  <2>3. Kept(owed, up)
    BY <1>3, <2>1 DEF Kept
  <2> HIDE DEF up
  <2> QED BY <1>1, <1>2, <1>3, <1>5, <2>1, <2>2, <2>3, RegistersKeep
<1>6. CASE i \in Level /\ Slot([core |-> ItCount(core), bus |-> down])
  <2>1. down.ram = bus.ram /\ down.event = bus.event \ {i} /\ down.nvic_pend = bus.nvic_pend
    BY <1>1 DEF BusState
  <2>2. down \in BusState
    BY <1>1 DEF BusState
  <2>3. Kept(owed, down)
    BY <1>3, <1>6, <2>1 DEF Kept
  <2> HIDE DEF down
  <2> QED BY <1>1, <1>2, <1>3, <1>6, <2>1, <2>2, <2>3, RegistersKeep
<1> QED BY <1>4, <1>5, <1>6

LEMMA OpenItKeeps ==
  ASSUME IInv, OpenItBlock
  PROVE  IInv' /\ TaskStep
<1> DEFINE d == [core EXCEPT !.it = ItLen]
           t == kern.cur
<1>1. core \in CoreState /\ bus \in BusState
  BY MachineFacts
<1>2. InTask /\ core.it = 0 /\ Slot([core |-> d, bus |-> bus]) /\ UNCHANGED <<kern, mspBase>>
  BY DEF OpenItBlock, Machine
<1>3. core.regs \in Vals /\ Kept(owed, bus)
  BY <1>2, InTaskFacts
<1>4. /\ d.mode = core.mode /\ d.sp = core.sp /\ d.msp = core.msp /\ d.sp_is_psp = core.sp_is_psp
      /\ d.fpca = core.fpca /\ d.s = core.s /\ d.it = ItLen /\ d.regs = core.regs
  BY <1>1 DEF CoreState
<1>5. d \in CoreState
  BY <1>1 DEF CoreState
<1> HIDE DEF d
<1>6. /\ IInv' /\ Running = t /\ Running' \in {t, Boot}
      /\ t \in Tasks
      /\ TaskContext(t)' = Context(d.regs, d.it, d.fpca, d.s, core.sp)
      /\ TaskContext(t) = Context(core.regs, core.it, core.fpca, core.s, core.sp)
      /\ \A u \in Tasks \ {t} : TaskContext(u)' = TaskContext(u)
  BY <1>1, <1>2, <1>3, <1>4, <1>5, TaskInstruction
<1>7. LET x == TaskContext(t) IN
      /\ x.it = 0
      /\ TaskContext(t)' = [regs |-> x.regs, it |-> ItLen, fpca |-> x.fpca, s |-> x.s, sp |-> x.sp]
  BY <1>2, <1>4, <1>6 DEF Context
<1>8. TaskMoves(t)
  BY <1>3, <1>6, <1>7 DEF TaskMoves
<1> QED BY <1>6, <1>8 DEF TaskStep

LEMMA VfpKeeps ==
  ASSUME IInv, TryVfp
  PROVE  IInv' /\ TaskStep
<1> DEFINE c == [core EXCEPT !.s = kern.cur, !.fpca = TRUE]
           d == ItCount(c)
           t == kern.cur
<1>1. core \in CoreState /\ bus \in BusState
  BY MachineFacts
<1>2. InTask /\ Slot([core |-> d, bus |-> bus]) /\ UNCHANGED <<kern, mspBase>>
  BY DEF TryVfp, Machine
<1>3. core.regs \in Vals /\ Kept(owed, bus) /\ t \in Tasks /\ t \in Nat
  BY <1>2, InTaskFacts DEF Tasks
<1>4. /\ c.mode = core.mode /\ c.sp = core.sp /\ c.msp = core.msp /\ c.sp_is_psp = core.sp_is_psp
      /\ c.fpca = TRUE /\ c.s = t /\ c.it = core.it /\ c.regs = core.regs
  BY <1>1 DEF CoreState
<1>5. c \in CoreState
  BY <1>1, <1>3 DEF CoreState
<1> HIDE DEF c
<1>6. /\ d \in CoreState
      /\ d.it = (IF core.it = 0 THEN 0 ELSE core.it - 1)
      /\ d.mode = core.mode /\ d.sp = core.sp /\ d.msp = core.msp /\ d.sp_is_psp = core.sp_is_psp
      /\ d.regs = core.regs /\ d.fpca = TRUE /\ d.s = t
  BY <1>4, <1>5, ItCountFields
<1> HIDE DEF d
<1>7. /\ IInv' /\ Running = t /\ Running' \in {t, Boot}
      /\ TaskContext(t)' = Context(d.regs, d.it, d.fpca, d.s, core.sp)
      /\ TaskContext(t) = Context(core.regs, core.it, core.fpca, core.s, core.sp)
      /\ \A u \in Tasks \ {t} : TaskContext(u)' = TaskContext(u)
  BY <1>1, <1>2, <1>3, <1>6, TaskInstruction
<1>8. LET x == TaskContext(t) IN
      TaskContext(t)' = [regs |-> x.regs, it |-> IF x.it = 0 THEN 0 ELSE x.it - 1,
                         fpca |-> TRUE, s |-> t, sp |-> x.sp]
  <2>1. TaskContext(t)' = [regs |-> d.regs, it |-> d.it, fpca |-> d.fpca, s |-> IF d.fpca THEN d.s ELSE 0,
                           sp |-> core.sp]
    BY <1>7 DEF Context
  <2>2. (IF d.fpca THEN d.s ELSE 0) = t
    BY <1>6
  <2>3. TaskContext(t)' = [regs |-> d.regs, it |-> d.it, fpca |-> d.fpca, s |-> t, sp |-> core.sp]
    BY <2>1, <2>2
  <2>4. TaskContext(t).regs = d.regs /\ TaskContext(t).it = core.it /\ TaskContext(t).sp = core.sp
    BY <1>6, <1>7 DEF Context
  <2>5. d.fpca = TRUE /\ d.it = (IF TaskContext(t).it = 0 THEN 0 ELSE TaskContext(t).it - 1)
    BY <1>6, <2>4
  <2> QED BY <2>3, <2>4, <2>5
<1>9. TaskMoves(t)
  BY <1>3, <1>7, <1>8 DEF TaskMoves
<1> QED BY <1>3, <1>7, <1>9 DEF TaskStep

(* A step that leaves every context where it is.                           *)
LEMMA QuietSlot ==
  ASSUME IInv, NEW m \in Machines, kern' \in KernState, mspBase' \in Int,
         Shape(m.core, kern'.cur, mspBase'), SavedShape(kern'.saved), Kept(owed, m.bus), Slot(m),
         \A t \in Tasks : ContextIn(m, kern'.cur, kern'.saved, t) = TaskContext(t),
         Running = Boot \/ m.core.mode = "Handler"
  PROVE  IInv' /\ TaskStep
<1>1. \A t \in Tasks : ContextIn(m, kern'.cur, kern'.saved, t).regs \in Vals
  BY DEF IInv, ContextsOK
<1>2. /\ IInv' /\ core'.mode \in {m.core.mode, "Handler"}
      /\ \A t \in Tasks : TaskContext(t)' = ContextIn(m, kern'.cur, kern'.saved, t)
  BY <1>1, FromSlot
<1>3. Running = Boot \/ Running' = Boot
  BY <1>2 DEF Running
<1> QED BY <1>2, <1>3 DEF TaskStep, Unseen

LEMMA SystemCallKeeps ==
  ASSUME IInv, SystemCall
  PROVE  IInv' /\ TaskStep
<1> DEFINE e == ExceptionEntry(Machine, SVC)
           m == [core |-> ItCount(e.core), bus |-> e.bus]
           cur == kern.cur
<1>1. Machine \in Machines /\ cur \in Tasks \cup {Boot} /\ mspBase \in Int
      /\ kern.saved \in [Tasks -> SavedTask] /\ SavedShape(kern.saved) /\ kern \in KernState
      /\ Machine.core = core /\ Machine.bus = bus /\ bus \in BusState
  BY MachineFacts DEF IInv, Machine
<1>2. core.mode = "Thread" /\ Shape(core, cur, mspBase) /\ SVC \in Nat
  BY DEF SystemCall, ThreadRuns, IInv, SVC
<1>3. Continues(Machine, e, cur, mspBase, kern.saved) /\ Entered(Machine, SVC, e)
  BY <1>1, <1>2, EntryKeeps
<1>4. [e EXCEPT !.core = ItCount(e.core)] = m
  <2>1. e = [core |-> e.core, bus |-> e.bus]
    BY <1>3 DEF Continues, Machines
  <2> HIDE DEF e
  <2> QED BY <2>1
<1>5. Slot(m) /\ UNCHANGED <<kern, mspBase>>
  BY <1>4 DEF SystemCall
<1> HIDE DEF e
<1>6. e \in Machines /\ e.core \in CoreState /\ e.core.it = 0
  BY <1>3 DEF Continues, Entered, Machines
<1>7. ItCount(e.core) = e.core
  BY <1>6 DEF ItCount, CoreState
<1>8. m = e
  BY <1>6, <1>7 DEF Machines
<1>9. BusStays(Machine, e)
  BY <1>1, <1>3, EnteredBus
<1>10. Kept(owed, e.bus)
  BY <1>1, <1>9 DEF IInv, Kept, BusStays
<1>11. \A t \in Tasks : ContextIn(e, cur, kern.saved, t) = TaskContext(t)
  BY <1>3, MachineFacts DEF Continues
<1>12. Slot(e) /\ Shape(e.core, cur, mspBase) /\ e.core.mode = "Handler"
       /\ kern' = kern /\ mspBase' = mspBase
  BY <1>3, <1>5, <1>8 DEF Continues, Entered
<1> QED BY <1>1, <1>6, <1>10, <1>11, <1>12, QuietSlot

LEMMA BootSetupKeeps ==
  ASSUME IInv, NEW p \in BOOLEAN, NEW n \in Masks, BootSetup(p, n)
  PROVE  IInv' /\ TaskStep
<1> DEFINE d == [core EXCEPT !.tickint = TRUE, !.primask = p, !.basepri = n]
           m == [core |-> d, bus |-> bus]
           cur == kern.cur
<1>1. Machine \in Machines /\ cur \in Tasks \cup {Boot} /\ mspBase \in Int
      /\ kern.saved \in [Tasks -> SavedTask] /\ SavedShape(kern.saved) /\ kern \in KernState
      /\ core \in CoreState /\ bus \in BusState
  BY MachineFacts DEF IInv
<1>2. Slot(m) /\ UNCHANGED <<kern, mspBase>> /\ cur = Boot /\ Shape(core, cur, mspBase)
      /\ Kept(owed, bus) /\ n \in Nat
  BY DEF BootSetup, InBoot, Machine, IInv
<1>3. /\ d.mode = core.mode /\ d.sp = core.sp /\ d.msp = core.msp /\ d.psp = core.psp
      /\ d.sp_is_psp = core.sp_is_psp /\ d.fpca = core.fpca /\ d.regs = core.regs
      /\ d.lr = core.lr /\ d.it = core.it /\ d.s = core.s
  BY <1>1 DEF CoreState
<1>4. d \in CoreState
  <2>1. CASE p = TRUE
    BY <1>1, <1>2, <2>1 DEF CoreState
  <2>2. CASE p = FALSE
    BY <1>1, <1>2, <2>2 DEF CoreState
  <2>3. p = TRUE \/ p = FALSE
    OBVIOUS
  <2> HIDE DEF d
  <2> QED BY <2>1, <2>2, <2>3
<1> HIDE DEF d
<1>5. SameStacks(Machine, m)
  BY <1>1, <1>3, <1>4 DEF SameStacks, Machine, Machines
<1>6. Machine.core = core
  BY DEF Machine
<1>7. Continues(Machine, m, cur, mspBase, kern.saved)
  BY <1>1, <1>2, <1>5, <1>6, SameContinues
<1>8. m \in Machines /\ Shape(m.core, cur, mspBase)
      /\ \A t \in Tasks : ContextIn(m, cur, kern.saved, t) = TaskContext(t)
  BY <1>7, MachineFacts DEF Continues
<1>9. m.bus = bus
  OBVIOUS
<1> HIDE DEF m
<1>10. Running = Boot /\ kern' = kern /\ mspBase' = mspBase
  BY <1>2 DEF Running
<1> QED BY <1>1, <1>2, <1>8, <1>9, <1>10, QuietSlot

(* A handler that works on the main stack and the interrupt controller.    *)
LEMMA HandlerWorks ==
  ASSUME IInv, core.mode = "Handler", NEW d \in CoreState, NEW b \in BusState,
         d.mode = "Handler", d.psp = core.psp, d.msp = core.msp, d.lr = core.lr,
         d.sp_is_psp = core.sp_is_psp, b.ram = bus.ram, Kept(owed, b),
         Slot([core |-> d, bus |-> b]),
         kern' \in KernState, kern'.cur = kern.cur, kern'.saved = kern.saved, UNCHANGED mspBase
  PROVE  IInv' /\ TaskStep
<1> DEFINE m == [core |-> d, bus |-> b]
<1>1. m \in Machines /\ m.core = d /\ m.bus = b
  BY DEF Machines
<1>2. Shape(m.core, kern.cur, mspBase)
  BY <1>1 DEF IInv, Shape, ThreadShape, HandlerShape
<1>3. \A t \in Tasks : ContextIn(m, kern.cur, kern.saved, t) = TaskContext(t)
  BY <1>1 DEF ContextIn, StackedIn, TaskContext, Stacked
<1> HIDE DEF m
<1>4. Slot(m) /\ SavedShape(kern.saved) /\ mspBase' = mspBase /\ mspBase \in Int
  BY MachineFacts DEF m, IInv
<1> QED BY <1>1, <1>2, <1>3, <1>4, QuietSlot

LEMMA IsrKeeps ==
  ASSUME IInv, IsrBody
  PROVE  IInv' /\ TaskStep
<1>1. core \in CoreState /\ bus \in BusState /\ kern \in KernState /\ Kept(owed, bus)
  BY MachineFacts DEF IInv
<1>2. PICK sv \in BOOLEAN :
        /\ Slot([core |-> [core EXCEPT !.regs = Scratch, !.sp = core.sp - 1],
                 bus  |-> [bus EXCEPT !.nvic_en = bus.nvic_en \ {core.ipsr - 16},
                                      !.pend_pendsv = bus.pend_pendsv \/ sv]])
        /\ kern' = [kern EXCEPT !.done = TRUE]
  BY DEF IsrBody
<1> DEFINE d == [core EXCEPT !.regs = Scratch, !.sp = core.sp - 1]
           b == [bus EXCEPT !.nvic_en = bus.nvic_en \ {core.ipsr - 16},
                            !.pend_pendsv = bus.pend_pendsv \/ sv]
<1>3. core.mode = "Handler" /\ UNCHANGED mspBase
  BY DEF IsrBody, InHandler
<1>4. /\ d.mode = "Handler" /\ d.psp = core.psp /\ d.msp = core.msp /\ d.lr = core.lr
      /\ d.sp_is_psp = core.sp_is_psp
  BY <1>1, <1>3 DEF CoreState
<1>5. d \in CoreState
  <2>1. core.sp - 1 \in Int /\ Scratch \in Nat
    BY <1>1 DEF CoreState, Scratch
  <2>2. ASSUME NEW x \in Int, NEW r \in Nat
        PROVE  [core EXCEPT !.regs = r, !.sp = x] \in CoreState
    BY <1>1 DEF CoreState
  <2> QED BY <2>1, <2>2
<1>6. b.ram = bus.ram /\ b.event = bus.event /\ b.nvic_pend = bus.nvic_pend
  BY <1>1 DEF BusState
<1>7. b \in BusState
  BY <1>1 DEF BusState
<1>8. Kept(owed, b)
  BY <1>1, <1>6 DEF Kept
<1>9. kern' \in KernState /\ kern'.cur = kern.cur /\ kern'.saved = kern.saved
  BY <1>1, <1>2 DEF KernState
<1>10. Slot([core |-> d, bus |-> b])
  BY <1>2
<1> HIDE DEF d, b
<1> QED BY <1>3, <1>4, <1>5, <1>6, <1>7, <1>8, <1>9, <1>10, HandlerWorks

LEMMA PendSvInBootKeeps ==
  ASSUME IInv, PendSvInBoot
  PROVE  IInv' /\ TaskStep
<1>1. core \in CoreState /\ bus \in BusState /\ kern \in KernState /\ Kept(owed, bus)
  BY MachineFacts DEF IInv
<1>2. core.mode = "Handler" /\ UNCHANGED mspBase /\ Slot([core |-> core, bus |-> bus])
      /\ kern' = [kern EXCEPT !.done = TRUE]
  BY DEF PendSvInBoot, InHandler, Machine
<1>3. kern' \in KernState /\ kern'.cur = kern.cur /\ kern'.saved = kern.saved
  BY <1>1, <1>2 DEF KernState
<1> QED BY <1>1, <1>2, <1>3, HandlerWorks

-----------------------------------------------------------------------------
(* The switch                                                              *)

LEMMA FreshShape ==
  ASSUME NEW t \in Tasks
  PROVE  /\ FreshTask(t) \in SavedTask /\ FreshTask(t).exc.psp /\ FreshTask(t).exc.thread
         /\ FreshTask(t).psp = Top(t) - Words(FreshTask(t).exc.ext)
<1>1. Top(t) \in Int /\ (t \in FpTasks) \in BOOLEAN
  BY CellArith
<1>2. FreshTask(t).psp = Top(t) - Words(t \in FpTasks) /\ FreshTask(t).exc = Exc(TRUE, TRUE, t \in FpTasks)
  BY DEF FreshTask
<1>3. Exc(TRUE, TRUE, t \in FpTasks).psp /\ Exc(TRUE, TRUE, t \in FpTasks).thread
  BY DEF Exc
<1>4. Exc(TRUE, TRUE, t \in FpTasks).ext = (t \in FpTasks) /\ Exc(TRUE, TRUE, t \in FpTasks) \in ExcReturn
  BY DEF Exc, ExcReturn
<1>5. Top(t) - Words(t \in FpTasks) \in Int
  BY <1>1 DEF Words
<1>6. FreshTask(t) \in SavedTask
  BY <1>4, <1>5 DEF FreshTask, SavedTask
<1> QED BY <1>2, <1>3, <1>4, <1>6

(* What the kernel has saved, and saves of the task that runs.             *)
SavedNow == IF kern.cur = Boot THEN kern.saved
            ELSE [kern.saved EXCEPT ![kern.cur] = [psp |-> core.psp, exc |-> core.lr]]

LEMMA SavedNowFacts ==
  ASSUME IInv, core.mode = "Handler"
  PROVE  /\ SavedNow \in [Tasks -> SavedTask] /\ SavedShape(SavedNow)
         /\ \A t \in Tasks : StackedIn(bus.ram, SavedNow[t].psp, SavedNow[t].exc) = TaskContext(t)
<1> DEFINE cur == kern.cur
           new == [psp |-> core.psp, exc |-> core.lr]
<1>1. core \in CoreState /\ cur \in Tasks \cup {Boot} /\ kern.saved \in [Tasks -> SavedTask]
      /\ SavedShape(kern.saved) /\ Shape(core, cur, mspBase)
  BY MachineFacts DEF IInv
<1>2. core.psp \in Int /\ core.lr \in ExcReturn
  BY <1>1 DEF CoreState
<1>3. \A t \in Tasks \ {cur} :
        StackedIn(bus.ram, kern.saved[t].psp, kern.saved[t].exc) = TaskContext(t)
  BY DEF TaskContext, Stacked, StackedIn
<1>4. CASE cur = Boot
  <2>1. \A t \in Tasks : t # cur
    BY <1>4 DEF Tasks, Boot
  <2>2. SavedNow = kern.saved
    BY <1>4 DEF SavedNow
  <2> QED BY <1>1, <1>3, <2>1, <2>2
<1>5. CASE cur # Boot
  <2>1. cur \in Tasks /\ SavedNow = [kern.saved EXCEPT ![cur] = new]
    BY <1>1, <1>5 DEF SavedNow
  <2>2. new \in SavedTask
    BY <1>2 DEF SavedTask
  <2>3. core.lr.psp /\ core.lr.thread /\ core.psp = Top(cur) - Words(core.lr.ext)
    BY <1>1, <1>5 DEF Shape, HandlerShape
  <2>4. TaskContext(cur) = StackedIn(bus.ram, core.psp, core.lr)
    BY DEF TaskContext, Stacked, StackedIn
  <2>5. new.psp = core.psp /\ new.exc = core.lr
    OBVIOUS
  <2> HIDE DEF new
  <2>6. SavedNow \in [Tasks -> SavedTask] /\ SavedNow[cur] = new
        /\ \A t \in Tasks \ {cur} : SavedNow[t] = kern.saved[t]
    BY <1>1, <2>1, <2>2
  <2>7. SavedShape(SavedNow)
    BY <1>1, <2>3, <2>5, <2>6 DEF SavedShape
  <2>8. ASSUME NEW t \in Tasks
        PROVE  StackedIn(bus.ram, SavedNow[t].psp, SavedNow[t].exc) = TaskContext(t)
    <3>1. CASE t = cur
      BY <2>4, <2>5, <2>6, <3>1
    <3>2. CASE t # cur
      BY <1>3, <2>6, <3>2
    <3> QED BY <3>1, <3>2
  <2> QED BY <2>6, <2>7, <2>8
<1> QED BY <1>4, <1>5

LEMMA SwitchKeeps ==
  ASSUME IInv, NEW next \in Tasks, SwitchBody(next)
  PROVE  IInv' /\ TaskStep
<1> DEFINE cur == kern.cur
           c == IF cur = Boot THEN SetControl(core, FALSE, FALSE) ELSE core
           x == SavedNow[next].psp
           e == SavedNow[next].exc
           d == [WritePsp(c, x) EXCEPT !.regs = Scratch, !.lr = e]
           ns == [SavedNow EXCEPT ![next] = FreshTask(next)]
<1>1. core \in CoreState /\ bus \in BusState /\ kern \in KernState /\ Kept(owed, bus)
      /\ Shape(core, cur, mspBase) /\ mspBase \in Int /\ cur \in Tasks \cup {Boot}
  BY MachineFacts DEF IInv
<1>2. core.mode = "Handler"
  BY DEF SwitchBody, InHandler
<1>3. PICK on \in SUBSET Irqs : Slot([core |-> d, bus |-> [bus EXCEPT !.nvic_en = bus.nvic_en \cup on]])
  BY DEF SwitchBody, SavedNow
<1>4. kern' = [kern EXCEPT !.cur = next, !.saved = ns, !.done = TRUE]
      /\ mspBase' = IF cur = Boot THEN core.msp ELSE mspBase
  BY DEF SwitchBody, SavedNow
<1>5. /\ SavedNow \in [Tasks -> SavedTask] /\ SavedShape(SavedNow)
      /\ \A t \in Tasks : StackedIn(bus.ram, SavedNow[t].psp, SavedNow[t].exc) = TaskContext(t)
  BY <1>2, SavedNowFacts
<1>6. x \in Int /\ e \in ExcReturn /\ e.psp /\ e.thread /\ x = Top(next) - Words(e.ext)
  BY <1>5 DEF SavedShape, SavedTask
<1>7. core.sp_is_psp = FALSE /\ core.msp \in Int
  BY <1>1, <1>2 DEF Shape, HandlerShape, CoreState
<1>8. c \in CoreState /\ c.mode = "Handler" /\ c.sp_is_psp = FALSE /\ c.msp = core.msp
  <2>1. CASE cur = Boot
    <3>1. c = [core EXCEPT !.spsel = FALSE, !.fpca = FALSE]
      BY <1>2, <1>7, <2>1 DEF SetControl
    <3> HIDE DEF c
    <3>2. c \in CoreState
      BY <1>1, <3>1 DEF CoreState
    <3> QED BY <1>1, <1>2, <1>7, <3>1, <3>2 DEF CoreState
  <2>2. CASE cur # Boot
    BY <1>1, <1>2, <1>7, <2>2
  <2> QED BY <2>1, <2>2
<1> HIDE DEF c, x, e
<1>9. /\ d \in CoreState
      /\ d.mode = "Handler" /\ d.sp_is_psp = FALSE /\ d.msp = core.msp /\ d.psp = x /\ d.lr = e
  <2>1. WritePsp(c, x) = [c EXCEPT !.psp = x, !.sp = c.sp]
    BY <1>8 DEF WritePsp
  <2>2. c.sp \in Int /\ Scratch \in Nat
    BY <1>8 DEF CoreState, Scratch
  <2> DEFINE w == WritePsp(c, x)
  <2>3. w.mode = "Handler" /\ w.sp_is_psp = FALSE /\ w.msp = core.msp /\ w.psp = x
    BY <1>8, <2>1 DEF CoreState
  <2>4. w \in CoreState
    BY <1>6, <1>8, <2>1, <2>2 DEF CoreState
  <2> HIDE DEF w
  <2>5. d = [w EXCEPT !.regs = Scratch, !.lr = e]
    BY DEF w
  <2> HIDE DEF d
  <2>6. d.mode = "Handler" /\ d.sp_is_psp = FALSE /\ d.msp = core.msp /\ d.psp = x /\ d.lr = e
    BY <2>3, <2>4, <2>5 DEF CoreState
  <2>7. d \in CoreState
    BY <1>6, <2>2, <2>4, <2>5 DEF CoreState
  <2> QED BY <2>6, <2>7
<1> HIDE DEF d
<1> DEFINE b == [bus EXCEPT !.nvic_en = bus.nvic_en \cup on]
           m == [core |-> d, bus |-> b]
<1>10. b.ram = bus.ram /\ b.event = bus.event /\ b.nvic_pend = bus.nvic_pend
  BY <1>1 DEF BusState
<1>11. b \in BusState
  BY <1>1 DEF BusState
<1>12. Kept(owed, b)
  BY <1>1, <1>10 DEF Kept
<1> HIDE DEF b
<1>13. Slot(m) /\ m \in Machines /\ m.core = d /\ m.bus = b
  BY <1>3, <1>9, <1>11 DEF Machines, b
<1>14. ns \in [Tasks -> SavedTask] /\ ns[next] = FreshTask(next)
       /\ \A t \in Tasks \ {next} : ns[t] = SavedNow[t]
  BY <1>5, FreshShape
<1>15. SavedShape(ns)
  BY <1>5, <1>14, FreshShape DEF SavedShape
<1> HIDE DEF ns, m
<1>16. kern'.cur = next /\ kern'.saved = ns
  BY <1>1, <1>4 DEF KernState
<1>17. kern' \in KernState
  BY <1>1, <1>4, <1>14 DEF KernState
<1>18. mspBase' = core.msp
  BY <1>1, <1>2, <1>4 DEF Shape, HandlerShape
<1>19. next # Boot
  BY DEF Tasks, Boot
<1>20. Shape(d, next, core.msp)
  BY <1>6, <1>9, <1>19 DEF Shape, ThreadShape, HandlerShape
<1>21. ASSUME NEW t \in Tasks
       PROVE  ContextIn(m, next, ns, t) = TaskContext(t)
  <2>1. CASE t = next
    BY <1>5, <1>9, <1>10, <1>13, <2>1 DEF ContextIn, x, e
  <2>2. CASE t # next
    BY <1>5, <1>10, <1>13, <1>14, <2>2 DEF ContextIn
  <2> QED BY <2>1, <2>2
<1>22. Running = Boot
  BY <1>2 DEF Running
<1> QED BY <1>7, <1>12, <1>13, <1>15, <1>16, <1>17, <1>18, <1>20, <1>21, <1>22, QuietSlot

-----------------------------------------------------------------------------
(* The return                                                              *)

FrameBase(m, exc) == IF exc.psp THEN m.core.psp ELSE m.core.msp
FrameAt(m, exc) == IF FrameBase(m, exc) \in Cells THEN m.bus.ram[FrameBase(m, exc)] ELSE FreshCell
FpAt(m, exc) == IF exc.ext /\ FrameBase(m, exc) + 1 \in Cells
                THEN m.bus.ram[FrameBase(m, exc) + 1].regs ELSE m.core.s

(* What a return to thread mode leaves.                                    *)
ReturnResult(m, exc, r) ==
  /\ r \in Machines /\ BusStays(m, r)
  /\ r.bus.ram = Popped(m.bus.ram, FrameBase(m, exc), Words(exc.ext))
  /\ r.core.mode = "Thread" /\ r.core.sp_is_psp = exc.psp /\ r.core.fpca = exc.ext
  /\ r.core.sp = FrameBase(m, exc) + Words(exc.ext)
  /\ exc.psp => r.core.msp = m.core.msp
  /\ ~exc.psp => r.core.msp = FrameBase(m, exc) + Words(exc.ext)
  /\ r.core.regs = FrameAt(m, exc).regs /\ r.core.it = FrameAt(m, exc).it
  /\ r.core.s = FpAt(m, exc)

LEMMA ReturnFields ==
  ASSUME NEW m \in Machines, NEW exc \in ExcReturn, exc.thread
  PROVE  ReturnResult(m, exc, ExceptionReturn(m, exc))
<1> DEFINE base == FrameBase(m, exc)
           top == base + Words(exc.ext)
           frame == FrameAt(m, exc)
           fs == FpAt(m, exc)
           c == ReturnBank(m.core, exc, top)
           ram == Popped(m.bus.ram, base, Words(exc.ext))
           r == ExceptionReturn(m, exc)
           spsel == IF exc.thread THEN exc.psp ELSE c.spsel
           d == [c EXCEPT !.regs = frame.regs, !.it = frame.it, !.ipsr = frame.ipsr,
                          !.fpca = exc.ext, !.s = fs, !.mode = "Thread", !.spsel = exc.psp,
                          !.sp_is_psp = exc.psp, !.sp = IF exc.psp THEN c.psp ELSE c.msp,
                          !.lr = NoExc]
<1>1. m.core \in CoreState /\ m.bus \in BusState /\ m.bus.ram \in [Cells -> Cell]
      /\ exc.psp \in BOOLEAN /\ exc.ext \in BOOLEAN /\ exc.thread \in BOOLEAN
  BY DEF Machines, BusState, ExcReturn
<1>2. base \in Int /\ top \in Int
  BY <1>1 DEF FrameBase, CoreState, Words
<1>3. frame \in Cell /\ frame.regs \in Nat /\ frame.it \in Nat /\ frame.ipsr \in Nat
  <2>1. FreshCell \in Cell
    BY DEF FreshCell, Cell
  <2>2. frame \in Cell
    BY <1>1, <2>1 DEF FrameAt
  <2> QED BY <2>2 DEF Cell
<1>4. fs \in Nat
  <2>1. m.core.s \in Nat /\ \A a \in Cells : m.bus.ram[a].regs \in Nat
    BY <1>1 DEF CoreState, Cell
  <2> QED BY <2>1 DEF FpAt
<1>5. ram \in [Cells -> Cell]
  <2>1. FreshCell \in Cell
    BY DEF FreshCell, Cell
  <2> QED BY <1>1, <2>1 DEF Popped
<1>6. /\ c \in CoreState /\ c.s = m.core.s
      /\ exc.psp => c.psp = top /\ c.msp = m.core.msp
      /\ ~exc.psp => c.msp = top
  <2> HIDE DEF top
  <2>1. CASE exc.psp = TRUE
    <3>1. c = [m.core EXCEPT !.psp = top]
      BY <2>1 DEF ReturnBank
    <3> HIDE DEF c
    <3>2. c \in CoreState
      BY <1>1, <1>2, <3>1 DEF CoreState
    <3>3. c.s = m.core.s /\ c.psp = top /\ c.msp = m.core.msp
      BY <1>1, <3>1 DEF CoreState
    <3> QED BY <2>1, <3>2, <3>3
  <2>2. CASE exc.psp = FALSE
    <3>1. c = [m.core EXCEPT !.msp = top]
      BY <2>2 DEF ReturnBank
    <3> HIDE DEF c
    <3>2. c \in CoreState
      BY <1>1, <1>2, <3>1 DEF CoreState
    <3>3. c.s = m.core.s /\ c.msp = top
      BY <1>1, <3>1 DEF CoreState
    <3> QED BY <2>2, <3>2, <3>3
  <2> QED BY <1>1, <2>1, <2>2
<1>7. r = [core |-> d, bus |-> [m.bus EXCEPT !.ram = ram]]
  <2>1. r = [m EXCEPT !.bus.ram = ram, !.core = d]
    <3>1. (IF exc.ext /\ base + 1 \in Cells THEN m.bus.ram[base + 1].regs ELSE c.s) = fs
      BY <1>6 DEF FpAt
    <3>2. (IF exc.thread THEN "Thread" ELSE "Handler") = "Thread" /\ spsel = exc.psp
      OBVIOUS
    <3>3. ("Thread" = "Thread" /\ exc.psp) = exc.psp
      BY <1>1
    <3> QED BY <3>1, <3>2, <3>3 DEF ExceptionReturn, FrameBase, FrameAt
  <2> HIDE DEF r, d, ram
  <2> QED BY <2>1 DEF Machines
<1> HIDE DEF frame, fs, c, ram, top, base
<1>8. /\ d \in CoreState
      /\ d.mode = "Thread" /\ d.sp_is_psp = exc.psp /\ d.fpca = exc.ext
      /\ d.sp = top
      /\ exc.psp => d.msp = m.core.msp
      /\ ~exc.psp => d.msp = top
      /\ d.regs = frame.regs /\ d.it = frame.it /\ d.s = fs
  <2> DEFINE sp == IF exc.psp THEN c.psp ELSE c.msp
  <2>1. sp = top
    BY <1>6
  <2>2. NoExc \in ExcReturn
    BY DEF NoExc, Exc, ExcReturn
  <2>3. d = [c EXCEPT !.regs = frame.regs, !.it = frame.it, !.ipsr = frame.ipsr,
                      !.fpca = exc.ext, !.s = fs, !.mode = "Thread", !.spsel = exc.psp,
                      !.sp_is_psp = exc.psp, !.sp = top, !.lr = NoExc]
    BY <2>1
  <2> HIDE DEF d
  <2>4. /\ d.mode = "Thread" /\ d.sp_is_psp = exc.psp /\ d.fpca = exc.ext /\ d.sp = top
        /\ d.regs = frame.regs /\ d.it = frame.it /\ d.s = fs /\ d.msp = c.msp
    BY <1>6, <2>3 DEF CoreState
  <2>5. d \in CoreState
    <3>1. [c EXCEPT !.regs = frame.regs, !.it = frame.it, !.ipsr = frame.ipsr,
                      !.fpca = exc.ext, !.s = fs, !.mode = "Thread", !.spsel = exc.psp,
                      !.sp_is_psp = exc.psp, !.sp = top, !.lr = NoExc] \in CoreState
      BY <1>1, <1>2, <1>3, <1>4, <1>6, <2>2, Zenon DEF CoreState
    <3> QED BY <2>3, <3>1, Zenon
  <2> QED BY <1>6, <2>4, <2>5
<1>9. [m.bus EXCEPT !.ram = ram] \in BusState
  BY <1>1, <1>5 DEF BusState
<1> DEFINE nb == [m.bus EXCEPT !.ram = ram]
<1>10. /\ nb.ram = ram /\ nb.nvic_en = m.bus.nvic_en /\ nb.nvic_pend = m.bus.nvic_pend
       /\ nb.event = m.bus.event /\ nb.dev_touched = m.bus.dev_touched
  BY <1>1 DEF BusState
<1>11. r = [core |-> d, bus |-> nb]
  BY <1>7
<1> HIDE DEF d, nb, r
<1>12. r \in Machines /\ r.core = d /\ r.bus = nb
  BY <1>8, <1>9, <1>11 DEF Machines, nb
<1>13. BusStays(m, r)
  BY <1>10, <1>12 DEF BusStays
<1>14. ReturnResult(m, exc, r)
  BY <1>8, <1>10, <1>12, <1>13 DEF ReturnResult, frame, fs, top, base, ram
<1> QED BY <1>14 DEF r

(* The frame popped is that of the one that runs.                          *)
LEMMA PoppedFacts ==
  ASSUME NEW cur \in Tasks \cup {Boot}, NEW ext \in BOOLEAN, NEW r \in [Cells -> Cell]
  PROVE  /\ Popped(r, Top(cur) - Words(ext), Words(ext)) \in [Cells -> Cell]
         /\ \A t \in (Tasks \cup {Boot}) \ {cur} : \A a \in {Top(t) - 1, Top(t) - 2} :
              Popped(r, Top(cur) - Words(ext), Words(ext))[a] = r[a]
<1> DEFINE base == Top(cur) - Words(ext)
           q == Popped(r, base, Words(ext))
<1>1. FreshCell \in Cell
  BY DEF FreshCell, Cell
<1>2. q \in [Cells -> Cell]
  BY <1>1 DEF Popped
<1>3. Top(cur) \in Int
  BY CellArith
<1>4. base..(base + Words(ext) - 1) \subseteq {Top(cur) - 1, Top(cur) - 2}
  <2>1. CASE ext = TRUE
    BY <1>3, <2>1 DEF Words
  <2>2. CASE ext = FALSE
    BY <1>3, <2>2 DEF Words
  <2> QED BY <2>1, <2>2
<1>5. ASSUME NEW t \in (Tasks \cup {Boot}) \ {cur}, NEW a \in {Top(t) - 1, Top(t) - 2}
      PROVE  q[a] = r[a]
  <2>1. a \in Cells /\ a \notin {Top(cur) - 1, Top(cur) - 2}
    BY CellArith
  <2> HIDE DEF base
  <2> QED BY <1>4, <2>1 DEF Popped
<1> QED BY <1>2, <1>5

LEMMA ReturnKeeps ==
  ASSUME NEW m \in Machines, NEW cur \in Tasks \cup {Boot}, NEW base \in Int,
         NEW saved \in [Tasks -> SavedTask], SavedShape(saved),
         m.core.mode = "Handler", Shape(m.core, cur, base)
  PROVE  /\ Continues(m, ExceptionReturn(m, m.core.lr), cur, base, saved)
         /\ BusStays(m, ExceptionReturn(m, m.core.lr))
<1> DEFINE c == m.core
           exc == c.lr
           r == ExceptionReturn(m, exc)
           ram == m.bus.ram
           fb == FrameBase(m, exc)
<1>1. c \in CoreState /\ ram \in [Cells -> Cell] /\ exc \in ExcReturn
  BY DEF Machines, BusState, CoreState
<1>2. exc.thread /\ exc.ext \in BOOLEAN /\ exc.psp \in BOOLEAN /\ Top(cur) \in Int
  BY <1>1, CellArith DEF Shape, HandlerShape, ExcReturn
<1>3. ReturnResult(m, exc, r)
  BY <1>1, <1>2, ReturnFields
<1> HIDE DEF r
<1>4. fb = Top(cur) - Words(exc.ext)
  <2>1. CASE cur = Boot
    <3>1. exc.psp = FALSE /\ exc.ext = FALSE /\ c.msp = Top(Boot) - 1
      BY <1>2, <2>1 DEF Shape, HandlerShape
    <3> QED BY <2>1, <3>1 DEF FrameBase, Words
  <2>2. CASE cur # Boot
    <3>1. exc.psp = TRUE /\ c.psp = Top(cur) - Words(exc.ext)
      BY <1>2, <2>2 DEF Shape, HandlerShape
    <3> QED BY <3>1 DEF FrameBase
  <2> QED BY <2>1, <2>2
<1>5. fb + Words(exc.ext) = Top(cur)
  BY <1>2, <1>4 DEF Words
<1> HIDE DEF fb
<1>6. /\ r \in Machines /\ BusStays(m, r)
      /\ r.bus.ram = Popped(ram, fb, Words(exc.ext))
      /\ r.core.mode = "Thread" /\ r.core.sp_is_psp = exc.psp /\ r.core.fpca = exc.ext
      /\ r.core.sp = Top(cur)
      /\ exc.psp => r.core.msp = m.core.msp
      /\ ~exc.psp => r.core.msp = Top(cur)
      /\ r.core.regs = FrameAt(m, exc).regs /\ r.core.it = FrameAt(m, exc).it
      /\ r.core.s = FpAt(m, exc)
  BY <1>3, <1>5 DEF ReturnResult, fb
<1>7. Shape(r.core, cur, base)
  <2>1. CASE cur = Boot
    <3>1. ~exc.psp /\ ~exc.ext
      BY <2>1 DEF Shape, HandlerShape
    <3> QED BY <1>6, <2>1, <3>1 DEF Shape, ThreadShape, HandlerShape
  <2>2. CASE cur # Boot
    <3>1. exc.psp /\ c.msp = base
      BY <2>2 DEF Shape, HandlerShape
    <3> QED BY <1>6, <2>2, <3>1 DEF Shape, ThreadShape, HandlerShape
  <2> QED BY <2>1, <2>2
<1>8. ASSUME NEW t \in Tasks
      PROVE  ContextIn(r, cur, saved, t) = ContextIn(m, cur, saved, t)
  <2>1. CASE t # cur
    <3>1. r.bus.ram \in [Cells -> Cell] /\ \A a \in {Top(t) - 1, Top(t) - 2} : r.bus.ram[a] = ram[a]
      BY <1>1, <1>2, <1>4, <1>6, <2>1, PoppedFacts
    <3>2. saved[t].exc \in ExcReturn /\ saved[t].psp = Top(t) - Words(saved[t].exc.ext)
      BY DEF SavedShape, SavedTask
    <3>3. StackedIn(r.bus.ram, saved[t].psp, saved[t].exc) = StackedIn(ram, saved[t].psp, saved[t].exc)
      BY <1>1, <3>1, <3>2, StackedDepends
    <3> QED BY <2>1, <3>3 DEF ContextIn
  <2>2. CASE t = cur
    <3>1. exc.psp /\ c.psp = fb
      BY <2>2 DEF Shape, HandlerShape, Tasks, Boot, fb, FrameBase
    <3>2. StackedIn(ram, c.psp, exc) = Context(r.core.regs, r.core.it, r.core.fpca, r.core.s, r.core.sp)
      <4>1. CASE exc.ext = TRUE
        <5>1. fb + 1 \in Cells
          BY <1>2, <1>4, <4>1, CellArith DEF Words
        <5>2. r.core.s = ram[fb + 1].regs
          BY <1>6, <4>1, <5>1 DEF FpAt, fb
        <5> QED BY <1>5, <1>6, <3>1, <5>1, <5>2 DEF StackedIn, FrameAt, fb
      <4>2. CASE exc.ext = FALSE
        BY <1>5, <1>6, <3>1, <4>2 DEF StackedIn, FrameAt, fb, Context
      <4> QED BY <1>2, <4>1, <4>2
    <3> QED BY <1>6, <2>2, <3>2 DEF ContextIn
  <2> QED BY <2>1, <2>2
<1>9. Continues(m, r, cur, base, saved) /\ BusStays(m, r)
  BY <1>6, <1>7, <1>8 DEF Continues
<1> QED BY <1>9 DEF r

LEMMA HandlerReturnKeeps ==
  ASSUME IInv, HandlerReturn
  PROVE  IInv' /\ TaskStep
<1> DEFINE cur == kern.cur
           up == [Machine EXCEPT !.core.sp = core.sp + 1]
<1>1. Machine \in Machines /\ cur \in Tasks \cup {Boot} /\ mspBase \in Int
      /\ kern.saved \in [Tasks -> SavedTask] /\ SavedShape(kern.saved) /\ kern \in KernState
      /\ core \in CoreState /\ bus \in BusState /\ Kept(owed, bus) /\ Shape(core, cur, mspBase)
  BY MachineFacts DEF IInv
<1>2. Machine.core = core /\ Machine.bus = bus
  BY DEF Machine
<1>3. core.mode = "Handler" /\ Running = Boot /\ mspBase' = mspBase
      /\ kern' = [kern EXCEPT !.done = FALSE]
  BY DEF HandlerReturn, InHandler, Running
<1>4. \/ Slot(ExceptionReturn(Machine, core.lr))
      \/ Slot(ExceptionReturn(up, core.lr))
  <2>1. up = [Machine EXCEPT !.core.sp = Machine.core.sp + 1]
    BY <1>2
  <2> QED BY <2>1 DEF HandlerReturn, PopReturn
<1>5. /\ up \in Machines /\ up.bus = bus /\ up.core.mode = "Handler" /\ up.core.lr = core.lr
      /\ Shape(up.core, cur, mspBase)
      /\ \A t \in Tasks : ContextIn(up, cur, kern.saved, t) = TaskContext(t)
  <2> DEFINE d == [core EXCEPT !.sp = core.sp + 1]
  <2>1. up = [core |-> d, bus |-> bus]
    BY DEF Machine
  <2>2. core.sp + 1 \in Int
    BY <1>1 DEF CoreState
  <2>3. d \in CoreState
    BY <1>1, <2>2, Zenon DEF CoreState
  <2>4. d.mode = core.mode /\ d.lr = core.lr /\ d.msp = core.msp /\ d.psp = core.psp
        /\ d.sp_is_psp = core.sp_is_psp
    BY <1>1 DEF CoreState
  <2> HIDE DEF d, up
  <2>5. up \in Machines /\ up.core = d /\ up.bus = bus
    BY <1>1, <2>1, <2>3 DEF Machines
  <2>6. Shape(d, cur, mspBase)
    BY <1>1, <1>3, <2>4 DEF Shape, ThreadShape, HandlerShape
  <2>7. \A t \in Tasks : ContextIn(up, cur, kern.saved, t) = TaskContext(t)
    BY <1>3, <2>4, <2>5 DEF ContextIn, StackedIn, TaskContext, Stacked
  <2> QED BY <1>3, <2>4, <2>5, <2>6, <2>7
<1>6. kern'.cur = cur /\ kern'.saved = kern.saved
  BY <1>1, <1>3 DEF KernState
<1>7. kern' \in KernState
  BY <1>1, <1>3 DEF KernState
<1> HIDE DEF up
<1>8. ASSUME NEW m \in Machines, m.bus = bus, m.core.mode = "Handler", m.core.lr = core.lr,
             Shape(m.core, cur, mspBase), Slot(ExceptionReturn(m, core.lr)),
             \A t \in Tasks : ContextIn(m, cur, kern.saved, t) = TaskContext(t)
      PROVE  IInv' /\ TaskStep
  <2> DEFINE r == ExceptionReturn(m, core.lr)
  <2>1. Continues(m, r, cur, mspBase, kern.saved) /\ BusStays(m, r)
    BY <1>1, <1>8, ReturnKeeps
  <2>2. Slot(r)
    BY <1>8
  <2> HIDE DEF r
  <2>3. r \in Machines /\ Shape(r.core, cur, mspBase)
        /\ \A t \in Tasks : ContextIn(r, cur, kern.saved, t) = TaskContext(t)
    BY <1>8, <2>1 DEF Continues
  <2>4. Kept(owed, r.bus)
    BY <1>1, <1>8, <2>1 DEF BusStays, Kept
  <2> QED BY <1>1, <1>3, <1>6, <1>7, <2>2, <2>3, <2>4, QuietSlot
<1>9. \A t \in Tasks : ContextIn(Machine, cur, kern.saved, t) = TaskContext(t)
  BY MachineFacts
<1>10. CASE Slot(ExceptionReturn(Machine, core.lr))
  BY <1>1, <1>2, <1>3, <1>8, <1>9, <1>10
<1>11. CASE Slot(ExceptionReturn(up, core.lr))
  BY <1>5, <1>8, <1>11
<1> QED BY <1>4, <1>10, <1>11

-----------------------------------------------------------------------------
(* Between slots                                                           *)

LEMMA OutsideSlot ==
  ASSUME IInv, core' \in CoreState, bus' \in BusState, bus'.ram = bus.ram, Kept(owed, bus'),
         core'.mode = core.mode, core'.sp = core.sp, core'.msp = core.msp, core'.psp = core.psp,
         core'.sp_is_psp = core.sp_is_psp, core'.fpca = core.fpca, core'.regs = core.regs,
         core'.lr = core.lr, core'.it = core.it, core'.s = core.s,
         UNCHANGED <<kern, mspBase, owed, waited>>
  PROVE  IInv' /\ TaskStep
<1>1. TypeOK'
  BY DEF IInv, TypeOK
<1>2. Shape(core', kern.cur, mspBase)
  BY DEF IInv, Shape, ThreadShape, HandlerShape
<1>3. \A t \in Tasks : TaskContext(t)' = TaskContext(t)
  BY DEF TaskContext, Stacked
<1>4. ContextsOK'
  BY <1>3 DEF IInv, ContextsOK
<1>5. IInv'
  BY <1>1, <1>2, <1>4 DEF IInv
<1>6. Running' = Running
  BY DEF Running
<1> QED BY <1>3, <1>5, <1>6 DEF TaskStep, Unseen

LEMMA BusEventKeeps ==
  ASSUME IInv, NEW i \in Irqs, BusEvent(i)
  PROVE  IInv' /\ TaskStep
<1>1. core \in CoreState /\ bus \in BusState /\ Kept(owed, bus)
  BY MachineFacts DEF IInv
<1>2. bus' = [bus EXCEPT !.event = bus.event \cup {i}] /\ UNCHANGED <<core, kern, mspBase, owed, waited>>
  BY DEF BusEvent
<1>3. bus'.ram = bus.ram /\ bus'.event = bus.event \cup {i} /\ bus'.nvic_pend = bus.nvic_pend
  BY <1>1, <1>2 DEF BusState
<1>4. bus' \in BusState
  BY <1>1, <1>2 DEF BusState
<1>5. Kept(owed, bus')
  BY <1>1, <1>3 DEF Kept
<1> QED BY <1>1, <1>2, <1>3, <1>4, <1>5, OutsideSlot

LEMMA ResumeKeeps ==
  ASSUME IInv, Resume
  PROVE  IInv' /\ TaskStep
<1>1. core \in CoreState /\ bus \in BusState /\ Kept(owed, bus)
  BY MachineFacts DEF IInv
<1>2. core' = [core EXCEPT !.halted = FALSE, !.bkpt_hit = FALSE]
      /\ UNCHANGED <<bus, kern, mspBase, owed, waited>>
  BY DEF Resume
<1>3. core' \in CoreState
  BY <1>1, <1>2 DEF CoreState
<1>4. /\ core'.mode = core.mode /\ core'.sp = core.sp /\ core'.msp = core.msp /\ core'.psp = core.psp
      /\ core'.sp_is_psp = core.sp_is_psp /\ core'.fpca = core.fpca /\ core'.regs = core.regs
      /\ core'.lr = core.lr /\ core'.it = core.it /\ core'.s = core.s
  BY <1>1, <1>2 DEF CoreState
<1> QED BY <1>1, <1>2, <1>3, <1>4, OutsideSlot

(* The boot code as a reset leaves it, on empty stacks.                    *)
LEMMA ResetFields ==
  ASSUME NEW c \in CoreState
  PROVE  /\ ResetCore(c) \in CoreState
         /\ Shape(ResetCore(c), Boot, Top(Boot)) /\ ResetCore(c).mode = "Thread"
<1> DEFINE d == ResetCore(c)
           top == Top(Boot)
<1>1. top \in Int
  BY CellArith
<1>2. d = [c EXCEPT !.mode = "Thread", !.sp = top, !.msp = top, !.psp = 0, !.sp_is_psp = FALSE,
            !.spsel = FALSE, !.fpca = FALSE, !.it = 0, !.ipsr = 0, !.primask = FALSE,
            !.faultmask = FALSE, !.basepri = 0, !.systick = 0, !.tickint = FALSE,
            !.halted = FALSE, !.bkpt_hit = FALSE]
  BY DEF ResetCore
<1> HIDE DEF d, top
<1>3. d \in CoreState
  <2>1. ASSUME NEW f \in BOOLEAN, NEW z \in Nat, NEW p \in Int
        PROVE  [c EXCEPT !.mode = "Thread", !.sp = top, !.msp = top, !.psp = p, !.sp_is_psp = f,
            !.spsel = f, !.fpca = f, !.it = z, !.ipsr = z, !.primask = f,
            !.faultmask = f, !.basepri = z, !.systick = z, !.tickint = f,
            !.halted = f, !.bkpt_hit = f] \in CoreState
    BY <1>1, ZenonT(60) DEF CoreState
  <2>2. 0 \in Nat /\ 0 \in Int
    OBVIOUS
  <2> QED BY <1>2, <2>1, <2>2, Zenon
<1>4. d.mode = "Thread" /\ d.sp = top /\ d.msp = top /\ d.sp_is_psp = FALSE /\ d.fpca = FALSE
  BY <1>2 DEF CoreState
<1>5. Shape(d, Boot, top)
  BY <1>4 DEF Shape, ThreadShape, HandlerShape, top
<1> QED BY <1>3, <1>4, <1>5 DEF d, top

LEMMA FreshContext ==
  ASSUME NEW t \in Tasks, NEW r, r = [a \in Cells |-> FreshCell]
  PROVE  StackedIn(r, FreshTask(t).psp, FreshTask(t).exc) = Context(0, 0, t \in FpTasks, 0, Top(t))
<1> DEFINE psp == FreshTask(t).psp
           ext == t \in FpTasks
<1>1. FreshTask(t).exc.ext = ext /\ psp = Top(t) - Words(ext)
  BY DEF FreshTask, Exc
<1>2. Top(t) \in Int /\ ext \in BOOLEAN
  BY CellArith
<1>3. psp + Words(ext) = Top(t)
  BY <1>1, <1>2 DEF Words
<1> HIDE DEF psp, ext
<1>4. (IF psp \in Cells THEN r[psp] ELSE FreshCell) = FreshCell
      /\ (IF psp + 1 \in Cells THEN r[psp + 1].regs ELSE 0) = 0
      /\ FreshCell.regs = 0 /\ FreshCell.it = 0
  BY DEF FreshCell
<1>5. StackedIn(r, psp, FreshTask(t).exc) = Context(0, 0, ext, 0, Top(t))
  BY <1>1, <1>3, <1>4 DEF StackedIn
<1> QED BY <1>5 DEF psp, ext

LEMMA FreshSaved ==
  /\ [t \in Tasks |-> FreshTask(t)] \in [Tasks -> SavedTask]
  /\ SavedShape([t \in Tasks |-> FreshTask(t)])
<1>1. [t \in Tasks |-> FreshTask(t)] \in [Tasks -> SavedTask]
  BY FreshShape
<1>2. SavedShape([t \in Tasks |-> FreshTask(t)])
  BY FreshShape DEF SavedShape
<1> QED BY <1>1, <1>2

LEMMA ResetKeeps ==
  ASSUME IInv, Reset
  PROVE  IInv' /\ TaskStep
<1>1. core \in CoreState /\ bus \in BusState /\ kern \in KernState
  BY MachineFacts
<1> DEFINE r == [a \in Cells |-> FreshCell]
           sv == [t \in Tasks |-> FreshTask(t)]
<1>2. /\ core' = ResetCore(core)
      /\ bus' = [bus EXCEPT !.nvic_en = {}, !.nvic_pend = {}, !.pend_pendsv = FALSE, !.ram = r]
      /\ kern' = [kern EXCEPT !.cur = Boot, !.saved = sv, !.done = FALSE]
      /\ mspBase' = Top(Boot) /\ owed' = bus.event \ Level /\ waited' = 0
  BY DEF Reset
<1>3. r \in [Cells -> Cell]
  BY DEF FreshCell, Cell
<1>4. sv \in [Tasks -> SavedTask] /\ SavedShape(sv)
  BY FreshSaved
<1>5. \A t \in Tasks : sv[t] = FreshTask(t) /\ t # Boot
  BY DEF Tasks, Boot
<1>6. \A t \in Tasks : StackedIn(r, FreshTask(t).psp, FreshTask(t).exc) = Context(0, 0, t \in FpTasks, 0, Top(t))
  BY FreshContext
<1> HIDE DEF r, sv
<1>7. bus'.ram = r /\ bus'.event = bus.event /\ bus.event \subseteq Irqs
  BY <1>1, <1>2 DEF BusState
<1>8. bus' \in BusState
  BY <1>1, <1>2, <1>3 DEF BusState
<1>9. kern'.cur = Boot /\ kern'.saved = sv
  BY <1>1, <1>2 DEF KernState
<1>10. kern' \in KernState
  BY <1>1, <1>2, <1>4 DEF KernState
<1>11. core' \in CoreState /\ Shape(core', Boot, Top(Boot)) /\ core'.mode = "Thread"
  BY <1>1, <1>2, ResetFields
<1>12. Kept(owed', bus')
  BY <1>2, <1>7 DEF Kept
<1>13. \A t \in Tasks : TaskContext(t)' = Context(0, 0, t \in FpTasks, 0, Top(t))
  BY <1>5, <1>6, <1>7, <1>9 DEF TaskContext, Stacked, StackedIn
<1>14. ContextsOK'
  BY <1>13 DEF ContextsOK, Context
<1>15. TypeOK'
  BY <1>2, <1>8, <1>10, <1>11, <1>12, CellArith DEF TypeOK, KernState, Kept
<1>16. IInv'
  BY <1>2, <1>4, <1>9, <1>11, <1>12, <1>14, <1>15 DEF IInv
<1>17. Running' = Boot
  BY <1>9, <1>11 DEF Running
<1> QED BY <1>13, <1>16, <1>17 DEF TaskStep, Restarted

LEMMA InitOK ==
  ASSUME CoreInit
  PROVE  /\ IInv /\ Running = Boot
         /\ \A t \in Tasks : TaskContext(t) = Context(0, 0, t \in FpTasks, 0, Top(t))
<1> DEFINE r == [a \in Cells |-> FreshCell]
           sv == [t \in Tasks |-> FreshTask(t)]
           c == [mode |-> "Thread", sp |-> 0, msp |-> 0, psp |-> 0, sp_is_psp |-> FALSE, spsel |-> FALSE,
                 fpca |-> FALSE, regs |-> 0, lr |-> NoExc, it |-> 0, s |-> 0, ipsr |-> 0, primask |-> FALSE,
                 faultmask |-> FALSE, basepri |-> 0, systick |-> 0, tickint |-> FALSE, halted |-> FALSE,
                 bkpt_hit |-> FALSE]
<1>1. /\ core = ResetCore(c)
      /\ bus = [ram |-> r, nvic_en |-> {}, nvic_pend |-> {},
            pend_pendsv |-> FALSE, dev_touched |-> FALSE, event |-> {}]
      /\ kern = [cur |-> Boot, saved |-> sv, done |-> FALSE]
      /\ mspBase = Top(Boot)
      /\ owed = {} /\ waited = 0
  BY DEF CoreInit
<1>2. c \in CoreState
  <2>1. NoExc \in ExcReturn
    BY DEF NoExc, Exc, ExcReturn
  <2> QED BY <2>1 DEF CoreState
<1> HIDE DEF c
<1>3. r \in [Cells -> Cell]
  BY DEF FreshCell, Cell
<1>4. sv \in [Tasks -> SavedTask] /\ SavedShape(sv)
  BY FreshSaved
<1>5. \A t \in Tasks : sv[t] = FreshTask(t) /\ t # Boot
  BY DEF Tasks, Boot
<1>6. \A t \in Tasks : StackedIn(r, FreshTask(t).psp, FreshTask(t).exc) = Context(0, 0, t \in FpTasks, 0, Top(t))
  BY FreshContext
<1> HIDE DEF r, sv
<1>7. bus \in BusState /\ bus.ram = r
  BY <1>1, <1>3 DEF BusState
<1>8. kern \in KernState /\ kern.cur = Boot /\ kern.saved = sv
  BY <1>1, <1>4 DEF KernState
<1>9. core \in CoreState /\ Shape(core, Boot, Top(Boot)) /\ core.mode = "Thread"
  BY <1>1, <1>2, ResetFields
<1>10. Kept(owed, bus)
  BY <1>1 DEF Kept
<1>11. \A t \in Tasks : TaskContext(t) = Context(0, 0, t \in FpTasks, 0, Top(t))
  BY <1>5, <1>6, <1>7, <1>8 DEF TaskContext, Stacked, StackedIn
<1>12. ContextsOK
  BY <1>11 DEF ContextsOK, Context
<1>13. TypeOK
  BY <1>1, <1>7, <1>8, <1>9, CellArith DEF TypeOK, KernState
<1>14. IInv
  BY <1>1, <1>4, <1>8, <1>9, <1>10, <1>12, <1>13 DEF IInv
<1>15. Running = Boot
  BY <1>8, <1>9 DEF Running
<1> QED BY <1>11, <1>14, <1>15

-----------------------------------------------------------------------------
(* The theorems                                                            *)

LEMMA StepKeeps ==
  ASSUME IInv, CoreNext
  PROVE  IInv' /\ TaskStep
<1>1. CASE Thread
  BY <1>1, ComputeKeeps, VfpKeeps, OpenItKeeps, SystemCallKeeps, BkptKeeps, DeviceKeeps,
     BootSetupKeeps DEF Thread
<1>2. CASE Kernel
  BY <1>2, IsrKeeps, PendSvInBootKeeps, HandlerReturnKeeps, SwitchKeeps DEF Kernel
<1>3. CASE Environment
  BY <1>3, ResumeKeeps, ResetKeeps, BusEventKeeps DEF Environment
<1> QED BY <1>1, <1>2, <1>3 DEF CoreNext

LEMMA StutterKeeps ==
  ASSUME IInv, UNCHANGED coreVars
  PROVE  IInv' /\ UNCHANGED TC!vars
<1>1. \A t \in Tasks : TaskContext(t)' = TaskContext(t)
  BY DEF coreVars, TaskContext, Stacked
<1>2. ContextsOK'
  BY <1>1 DEF IInv, ContextsOK
<1>3. IInv'
  BY <1>2 DEF IInv, TypeOK, coreVars
<1>4. UNCHANGED TC!vars
  BY <1>1 DEF TC!vars, coreVars
<1> QED BY <1>3, <1>4

(* The core always is in one of these states: exception_entry and          *)
(* exception_return keep the stacks in shape whatever is interrupted.      *)
THEOREM Invariance == CoreSpec => []IInv
<1>1. CoreInit => IInv
  BY InitOK
<1>2. IInv /\ [CoreNext]_coreVars => IInv'
  BY StepKeeps, StutterKeeps
<1> QED BY <1>1, <1>2, PTL DEF CoreSpec

(* The registers, stack pointers, NVIC and kernel state have their types,  *)
(* for any number of tasks and interrupts.                                 *)
THEOREM TypeCorrect == CoreSpec => []TypeOK
<1>1. IInv => TypeOK
  BY DEF IInv
<1> QED BY <1>1, Invariance, PTL

(* MSP is level whenever a task runs: the frames and pushes of handlers    *)
(* are all gone by the time exception_return comes back to a task.         *)
THEOREM MainStackIsLevel == CoreSpec => []MainStackLevel
<1>1. ASSUME IInv, core.sp_is_psp PROVE core.msp = mspBase
  <2>1. core.mode \in {"Thread", "Handler"}
    BY <1>1 DEF IInv, TypeOK, CoreState
  <2>2. core.mode = "Thread" /\ kern.cur # Boot
    BY <1>1, <2>1 DEF IInv, Shape, ThreadShape, HandlerShape
  <2> QED BY <1>1, <2>2 DEF IInv, Shape, ThreadShape
<1>2. IInv => MainStackLevel
  BY <1>1 DEF MainStackLevel
<1> QED BY <1>2, Invariance, PTL

(* No event collect_irqs or a device latched is dropped before the entry   *)
(* of its exception.                                                       *)
THEOREM EventsAreKept == CoreSpec => []EventKept
<1>1. IInv => EventKept
  BY DEF IInv, Kept, EventKept
<1> QED BY <1>1, Invariance, PTL

-----------------------------------------------------------------------------
(* The abstract specification                                              *)

LEMMA ContextFields ==
  ASSUME NEW t
  PROVE  LET x == TaskContext(t) IN
         x = [regs |-> x.regs, it |-> x.it, fpca |-> x.fpca, s |-> x.s, sp |-> x.sp]
<1>1. \E a, b, c, d, e : TaskContext(t) = [regs |-> a, it |-> b, fpca |-> c, s |-> d, sp |-> e]
  BY DEF TaskContext, Stacked, Context
<1>2. PICK a, b, c, d, e : TaskContext(t) = [regs |-> a, it |-> b, fpca |-> c, s |-> d, sp |-> e]
  BY <1>1
<1> QED BY <1>2

(* The contexts as a function, and running, the way TaskContexts sees them. *)
Contexts == [t \in Tasks |-> TaskContext(t)]

(* One task's context replaced.                                            *)
LEMMA ContextsMove ==
  ASSUME NEW t \in Tasks, NEW new, TaskContext(t)' = new,
         \A u \in Tasks \ {t} : TaskContext(u)' = TaskContext(u)
  PROVE  Contexts' = [Contexts EXCEPT ![t] = new]
  BY DEF Contexts

LEMMA MovesIsInstruction ==
  ASSUME NEW t \in Tasks, TaskMoves(t)
  PROVE  TC!Instruction(t)
<1> DEFINE x == TaskContext(t)
           left == IF x.it = 0 THEN 0 ELSE x.it - 1
<1>1. Running = t /\ Running' \in {t, Boot} /\ \A u \in Tasks \ {t} : TaskContext(u)' = TaskContext(u)
  BY DEF TaskMoves
<1>2. PICK v \in Vals :
           \/ TaskContext(t)' = [regs |-> v, it |-> left, fpca |-> x.fpca, s |-> x.s, sp |-> x.sp]
           \/ TaskContext(t)' = [regs |-> x.regs, it |-> left, fpca |-> TRUE, s |-> t, sp |-> x.sp]
           \/ /\ x.it = 0
              /\ TaskContext(t)' = [regs |-> x.regs, it |-> ItLen, fpca |-> x.fpca, s |-> x.s, sp |-> x.sp]
  BY DEF TaskMoves
<1>3. x = [regs |-> x.regs, it |-> x.it, fpca |-> x.fpca, s |-> x.s, sp |-> x.sp]
  BY ContextFields
<1>4. Contexts[t] = x /\ DOMAIN Contexts = Tasks
  BY DEF Contexts
<1>5. CASE TaskContext(t)' = [regs |-> v, it |-> left, fpca |-> x.fpca, s |-> x.s, sp |-> x.sp]
  <2>1. Contexts' = [Contexts EXCEPT ![t] = [regs |-> v, it |-> left, fpca |-> x.fpca, s |-> x.s, sp |-> x.sp]]
    BY <1>1, <1>5, ContextsMove
  <2> HIDE DEF x
  <2>2. Contexts' = [Contexts EXCEPT ![t].regs = v, ![t].it = IF @ = 0 THEN 0 ELSE @ - 1]
    BY <1>3, <1>4, <2>1
  <2> QED BY <1>1, <2>2 DEF TC!Instruction, Contexts, Running
<1>6. CASE TaskContext(t)' = [regs |-> x.regs, it |-> left, fpca |-> TRUE, s |-> t, sp |-> x.sp]
  <2>1. Contexts' = [Contexts EXCEPT ![t] = [regs |-> x.regs, it |-> left, fpca |-> TRUE, s |-> t, sp |-> x.sp]]
    BY <1>1, <1>6, ContextsMove
  <2> HIDE DEF x
  <2>2. Contexts' = [Contexts EXCEPT ![t].s = t, ![t].fpca = TRUE, ![t].it = IF @ = 0 THEN 0 ELSE @ - 1]
    BY <1>3, <1>4, <2>1
  <2> QED BY <1>1, <1>2, <2>2 DEF TC!Instruction, Contexts, Running
<1>7. CASE /\ x.it = 0
           /\ TaskContext(t)' = [regs |-> x.regs, it |-> ItLen, fpca |-> x.fpca, s |-> x.s, sp |-> x.sp]
  <2>1. Contexts' = [Contexts EXCEPT ![t] = [regs |-> x.regs, it |-> ItLen, fpca |-> x.fpca, s |-> x.s, sp |-> x.sp]]
    BY <1>1, <1>7, ContextsMove
  <2>2. Contexts[t].it = 0
    BY <1>4, <1>7
  <2> HIDE DEF x
  <2>3. Contexts' = [Contexts EXCEPT ![t].it = ItLen]
    BY <1>3, <1>4, <2>1
  <2> QED BY <1>1, <1>2, <2>2, <2>3 DEF TC!Instruction, Contexts, Running
<1> QED BY <1>2, <1>5, <1>6, <1>7

LEMMA StepRefines ==
  ASSUME IInv, IInv', TaskStep
  PROVE  [TC!Next]_(TC!vars)
<1>1. Running \in Tasks \cup {Boot} /\ Running' \in Tasks \cup {Boot}
  BY DEF IInv, TypeOK, Running
<1>2. ASSUME NEW t \in Tasks, TaskMoves(t) PROVE TC!Next
  BY <1>2, MovesIsInstruction DEF TC!Next
<1>3. CASE Unseen
  <2>1. Contexts' = Contexts
    BY <1>3 DEF Unseen, Contexts
  <2>2. CASE Running' = Running
    BY <2>1, <2>2 DEF TC!vars, Contexts, Running
  <2>3. CASE Running = Boot /\ Running' # Boot
    <3>1. Running' \in Tasks
      BY <1>1, <2>3
    <3>2. TC!Dispatch(Running')
      BY <2>1, <2>3 DEF TC!Dispatch, Contexts, Running
    <3> QED BY <3>1, <3>2 DEF TC!Next
  <2>4. CASE Running' = Boot /\ Running # Boot
    <3>1. Running \in Tasks
      BY <1>1, <2>4
    <3>2. TC!SystemCall(Running)
      BY <2>1, <2>4 DEF TC!SystemCall, Contexts, Running
    <3> QED BY <3>1, <3>2 DEF TC!Next
  <2> QED BY <1>3, <2>2, <2>3, <2>4 DEF Unseen
<1>4. CASE Restarted
  <2>1. Contexts' = [t \in Tasks |-> Context(0, 0, t \in FpTasks, 0, Top(t))] /\ Running' = Boot
    BY <1>4 DEF Restarted, Contexts
  <2> QED BY <2>1 DEF TC!Restart, TC!Next, Contexts, Running
<1> QED BY <1>2, <1>3, <1>4 DEF TaskStep

(* Exceptions are unseen by the tasks: every slot of the run loop, with    *)
(* its exception entries and returns, its ticks and context switches, is   *)
(* an instruction of one task or nothing at all, for any number of tasks   *)
(* and interrupts.                                                         *)
THEOREM ImplementsTaskContexts == CoreSpec => TasksUndisturbed
<1>1. CoreInit => TC!Init
  <2> SUFFICES ASSUME CoreInit PROVE TC!Init
    OBVIOUS
  <2>1. Contexts = [t \in Tasks |-> Context(0, 0, t \in FpTasks, 0, Top(t))] /\ Running = Boot
    BY InitOK DEF Contexts
  <2> QED BY <2>1 DEF TC!Init, Contexts, Running
<1>2. IInv /\ IInv' /\ [CoreNext]_coreVars => [TC!Next]_(TC!vars)
  BY StepKeeps, StepRefines, StutterKeeps
<1> QED BY <1>1, <1>2, Invariance, PTL DEF CoreSpec, TasksUndisturbed, TC!Spec

-----------------------------------------------------------------------------
(* The latency of a deferred switch                                        *)

(* Exceptions are masked by the boot code alone, before the first task.    *)
Unmasked(c, cur) ==
  /\ c.faultmask = FALSE
  /\ c.mode = "Handler" \/ cur # Boot => c.primask = FALSE

(* A handler whose body has not run yet was entered in the last slot: by a *)
(* tick, with the countdown reloaded, by an enabled interrupt, or to       *)
(* switch.                                                                 *)
JustEntered(c, b) ==
  \/ c.ipsr \in {SVC, PENDSV}
  \/ c.ipsr = SYSTICK /\ c.systick >= Rvr
  \/ \E i \in b.nvic_en : c.ipsr = 16 + i

(* The interrupts that cannot come before the switch any more: disabled,   *)
(* or about to be by the handler that was entered.                         *)
Spent(c, b, done) == (Irqs \ b.nvic_en) \cup (IF done THEN {} ELSE {i \in Irqs : c.ipsr = 16 + i})

(* k ticks and the spent interrupts account for the handlers that ran      *)
(* before the switch, two slots each; the ticks are a period apart.        *)
Accounted(c, b, done, w, k) ==
  /\ w + (IF done THEN 2 ELSE 3) <= 2 * (Cardinality(Spent(c, b, done)) + k)
  /\ w + 1 + c.systick >= k * Rvr

(* PendSV waits only behind a handler that is not a switch itself.         *)
Deferred(c, b, done, w) ==
  /\ c.mode = "Handler" /\ c.ipsr \notin {SVC, PENDSV}
  /\ \E k \in 0..2 : Accounted(c, b, done, w, k)

LatencyOf(c, b, cur, done, w) ==
  /\ Unmasked(c, cur)
  /\ c.mode = "Handler" /\ done = FALSE => JustEntered(c, b)
  /\ b.pend_pendsv = TRUE => Deferred(c, b, done, w)
  /\ b.pend_pendsv = FALSE => w = 0

LatencyInv == LatencyOf(core, bus, kern.cur, kern.done, waited)

(* What an entry leaves alone.                                             *)
LEMMA EntryFlow ==
  ASSUME NEW m \in Machines, NEW v
  PROVE  LET e == ExceptionEntry(m, v) IN
         /\ e.core.mode = "Handler" /\ e.core.ipsr = v /\ e.core.systick = m.core.systick
         /\ e.core.primask = m.core.primask /\ e.core.faultmask = m.core.faultmask
         /\ e.bus.nvic_en = m.bus.nvic_en /\ e.bus.pend_pendsv = m.bus.pend_pendsv
<1> DEFINE c == m.core
           base == c.sp - Words(c.fpca)
           e == ExceptionEntry(m, v)
           exc == Exc(c.sp_is_psp, c.mode = "Thread", c.fpca)
           banked == IF c.sp_is_psp THEN [c EXCEPT !.psp = base, !.sp = c.msp, !.sp_is_psp = FALSE]
                                    ELSE [c EXCEPT !.msp = base, !.sp = base]
<1>1. c \in CoreState /\ m.bus \in BusState
  BY DEF Machines
<1>2. e.bus = [m.bus EXCEPT !.ram = EntryRam(m)]
  BY DEF ExceptionEntry, EntryRam
<1>3. e.core = [banked EXCEPT !.mode = "Handler", !.ipsr = v, !.it = 0, !.lr = exc]
  BY DEF ExceptionEntry
<1> HIDE DEF e, exc, base
<1>4. /\ DOMAIN banked = DOMAIN c
      /\ banked.systick = c.systick /\ banked.primask = c.primask /\ banked.faultmask = c.faultmask
  BY <1>1 DEF CoreState
<1>5. {"mode", "ipsr", "systick", "primask", "faultmask", "it", "lr"} \subseteq DOMAIN c
  BY <1>1 DEF CoreState
<1> HIDE DEF banked, c
<1>6. /\ e.core.mode = "Handler" /\ e.core.ipsr = v /\ e.core.systick = banked.systick
      /\ e.core.primask = banked.primask /\ e.core.faultmask = banked.faultmask
  BY <1>3, <1>4, <1>5
<1>7. e.bus.nvic_en = m.bus.nvic_en /\ e.bus.pend_pendsv = m.bus.pend_pendsv
  BY <1>1, <1>2 DEF BusState
<1> QED BY <1>4, <1>6, <1>7 DEF e, c

(* What maybe_tick does: the countdown loses at most one, and a tick comes *)
(* when it runs out.                                                       *)
LEMMA TickFlow ==
  ASSUME NEW m \in Machines
  PROVE  LET t == MaybeTick(m) IN
         /\ t.core.primask = m.core.primask /\ t.core.faultmask = m.core.faultmask
         /\ t.bus.nvic_en = m.bus.nvic_en /\ t.bus.pend_pendsv = m.bus.pend_pendsv
         /\ t.core.systick \in Nat /\ t.core.systick >= m.core.systick - 1
         /\ \/ t.core.mode = m.core.mode /\ t.core.ipsr = m.core.ipsr
            \/ /\ m.core.mode = "Thread" /\ m.core.primask = FALSE /\ m.core.systick <= 1
               /\ t.core.mode = "Handler" /\ t.core.ipsr = SYSTICK /\ t.core.systick = Rvr
<1> DEFINE n == (IF m.core.systick = 0 THEN Rvr ELSE m.core.systick) - 1
           k == IF n = 0 THEN Rvr ELSE n
           t == [m EXCEPT !.core.systick = k]
<1>1. m.core \in CoreState /\ m.bus \in BusState /\ m.core.systick \in Nat /\ m.core.primask \in BOOLEAN
  BY DEF Machines, CoreState
<1>2. k \in Nat /\ k >= m.core.systick - 1 /\ (n = 0 => k = Rvr /\ m.core.systick <= 1)
  BY <1>1
<1>3. MaybeTick(m) = m \/ MaybeTick(m) = t
        \/ (m.core.mode = "Thread" /\ m.core.primask = FALSE /\ n = 0 /\ MaybeTick(m) = ExceptionEntry(t, SYSTICK))
  BY <1>1 DEF MaybeTick
<1> HIDE DEF k, n
<1>4. t.core = [m.core EXCEPT !.systick = k] /\ t.bus = m.bus
  BY DEF Machines
<1>5. t \in Machines
  BY <1>1, <1>2 DEF Machines, CoreState
<1>6. /\ t.core.mode = m.core.mode /\ t.core.ipsr = m.core.ipsr /\ t.core.systick = k
      /\ t.core.primask = m.core.primask /\ t.core.faultmask = m.core.faultmask
  BY <1>1, <1>4 DEF CoreState
<1> HIDE DEF t
<1>7. CASE MaybeTick(m) = m
  BY <1>1, <1>7
<1>8. CASE MaybeTick(m) = t
  BY <1>2, <1>4, <1>6, <1>8
<1>9. CASE m.core.mode = "Thread" /\ m.core.primask = FALSE /\ n = 0 /\ MaybeTick(m) = ExceptionEntry(t, SYSTICK)
  <2> DEFINE e == ExceptionEntry(t, SYSTICK)
  <2>1. /\ e.core.mode = "Handler" /\ e.core.ipsr = SYSTICK /\ e.core.systick = t.core.systick
        /\ e.core.primask = t.core.primask /\ e.core.faultmask = t.core.faultmask
        /\ e.bus.nvic_en = t.bus.nvic_en /\ e.bus.pend_pendsv = t.bus.pend_pendsv
    BY <1>5, EntryFlow
  <2> HIDE DEF e
  <2>2. MaybeTick(m) = e
    BY <1>9 DEF e
  <2> QED BY <1>1, <1>2, <1>4, <1>6, <1>9, <2>1, <2>2
<1> QED BY <1>3, <1>7, <1>8, <1>9

(* What maybe_interrupt does.                                              *)
LEMMA InterruptFlow ==
  ASSUME NEW m \in Machines
  PROVE  LET n == MaybeInterrupt(m) IN
         /\ n.core.primask = m.core.primask /\ n.core.faultmask = m.core.faultmask
         /\ n.bus.nvic_en = m.bus.nvic_en /\ n.core.systick = m.core.systick
         /\ \/ /\ n.core.mode = m.core.mode /\ n.core.ipsr = m.core.ipsr
               /\ n.bus.pend_pendsv = m.bus.pend_pendsv
               /\ \/ m.core.mode = "Handler" \/ m.core.primask = TRUE \/ m.core.faultmask = TRUE
                  \/ m.bus.pend_pendsv = FALSE
            \/ /\ m.core.mode = "Thread" /\ m.core.primask = FALSE /\ n.core.mode = "Handler"
               /\ n.bus.pend_pendsv = m.bus.pend_pendsv /\ \E i \in m.bus.nvic_en : n.core.ipsr = 16 + i
            \/ /\ m.core.mode = "Thread" /\ m.core.primask = FALSE /\ n.core.mode = "Handler"
               /\ n.bus.pend_pendsv = FALSE /\ n.core.ipsr = PENDSV
<1> DEFINE b == CollectIrqs(m.bus)
           c == m.core
           taken == {i \in NextIrq(b) : c.basepri = 0 \/ Prio[i] < c.basepri}
           i0 == CHOOSE i \in taken : TRUE
           b1 == [b EXCEPT !.nvic_pend = b.nvic_pend \ taken]
           b2 == [b EXCEPT !.pend_pendsv = FALSE]
<1>1. c \in CoreState /\ m.bus \in BusState /\ c.mode \in {"Thread", "Handler"}
      /\ c.primask \in BOOLEAN /\ c.faultmask \in BOOLEAN /\ m.bus.pend_pendsv \in BOOLEAN
  BY DEF Machines, CoreState, BusState
<1>2. b \in BusState
  BY <1>1, CollectType
<1>3. b.nvic_en = m.bus.nvic_en /\ b.pend_pendsv = m.bus.pend_pendsv
  BY <1>1 DEF CollectIrqs, BusState
<1>4. \/ /\ MaybeInterrupt(m) = [m EXCEPT !.bus = b]
         /\ c.mode # "Thread" \/ c.primask \/ c.faultmask \/ ~b.pend_pendsv
      \/ /\ c.mode = "Thread" /\ ~c.primask /\ taken # {}
         /\ MaybeInterrupt(m) = ExceptionEntry([m EXCEPT !.bus = b1], 16 + i0)
      \/ /\ c.mode = "Thread" /\ ~c.primask
         /\ MaybeInterrupt(m) = ExceptionEntry([m EXCEPT !.bus = b2], PENDSV)
  BY DEF MaybeInterrupt
<1>5. taken # {} => i0 \in m.bus.nvic_en
  BY <1>3 DEF NextIrq
<1>6. /\ b1 \in BusState /\ b1.nvic_en = m.bus.nvic_en /\ b1.pend_pendsv = m.bus.pend_pendsv
      /\ b2 \in BusState /\ b2.nvic_en = m.bus.nvic_en /\ b2.pend_pendsv = FALSE
  BY <1>2, <1>3 DEF BusState
<1>7. ASSUME NEW x \in BusState
      PROVE  [m EXCEPT !.bus = x] \in Machines /\ [m EXCEPT !.bus = x].bus = x /\ [m EXCEPT !.bus = x].core = c
  BY DEF Machines
<1> HIDE DEF b, b1, b2, taken, i0
<1>8. CASE /\ MaybeInterrupt(m) = [m EXCEPT !.bus = b]
           /\ c.mode # "Thread" \/ c.primask \/ c.faultmask \/ ~b.pend_pendsv
  BY <1>1, <1>2, <1>3, <1>7, <1>8
<1>9. CASE /\ c.mode = "Thread" /\ ~c.primask /\ taken # {}
           /\ MaybeInterrupt(m) = ExceptionEntry([m EXCEPT !.bus = b1], 16 + i0)
  <2> DEFINE x == [m EXCEPT !.bus = b1]
             e == ExceptionEntry(x, 16 + i0)
  <2>1. x \in Machines /\ x.bus = b1 /\ x.core = c
    BY <1>6, <1>7
  <2> HIDE DEF x
  <2>2. /\ e.core.mode = "Handler" /\ e.core.ipsr = 16 + i0 /\ e.core.systick = x.core.systick
        /\ e.core.primask = x.core.primask /\ e.core.faultmask = x.core.faultmask
        /\ e.bus.nvic_en = x.bus.nvic_en /\ e.bus.pend_pendsv = x.bus.pend_pendsv
    BY <2>1, EntryFlow
  <2> HIDE DEF e
  <2>3. MaybeInterrupt(m) = e
    BY <1>9 DEF e, x
  <2> QED BY <1>1, <1>5, <1>6, <1>9, <2>1, <2>2, <2>3
<1>10. CASE /\ c.mode = "Thread" /\ ~c.primask
            /\ MaybeInterrupt(m) = ExceptionEntry([m EXCEPT !.bus = b2], PENDSV)
  <2> DEFINE x == [m EXCEPT !.bus = b2]
             e == ExceptionEntry(x, PENDSV)
  <2>1. x \in Machines /\ x.bus = b2 /\ x.core = c
    BY <1>6, <1>7
  <2> HIDE DEF x
  <2>2. /\ e.core.mode = "Handler" /\ e.core.ipsr = PENDSV /\ e.core.systick = x.core.systick
        /\ e.core.primask = x.core.primask /\ e.core.faultmask = x.core.faultmask
        /\ e.bus.nvic_en = x.bus.nvic_en /\ e.bus.pend_pendsv = x.bus.pend_pendsv
    BY <2>1, EntryFlow
  <2> HIDE DEF e
  <2>3. MaybeInterrupt(m) = e
    BY <1>10 DEF e, x
  <2> QED BY <1>1, <1>5, <1>6, <1>10, <2>1, <2>2, <2>3
<1> QED BY <1>4, <1>8, <1>9, <1>10

(* An entry keeps the machine well typed.                                  *)
LEMMA EntryTyped ==
  ASSUME NEW m \in Machines, NEW v \in Nat
  PROVE  ExceptionEntry(m, v) \in Machines
<1> DEFINE c == m.core
           base == c.sp - Words(c.fpca)
           basic == Store(m.bus.ram, base, BuildFrame(c))
<1>1. c \in CoreState /\ m.bus.ram \in [Cells -> Cell]
  BY DEF Machines, BusState
<1>2. BuildFrame(c) \in Cell /\ [FreshCell EXCEPT !.regs = c.s] \in Cell
  BY <1>1 DEF BuildFrame, FreshCell, Cell, CoreState
<1>3. ASSUME NEW ram \in [Cells -> Cell], NEW a, NEW x \in Cell
      PROVE  Store(ram, a, x) \in [Cells -> Cell]
  BY DEF Store
<1>4. basic \in [Cells -> Cell]
  BY <1>1, <1>2, <1>3
<1> HIDE DEF basic
<1>5. Store(basic, base + 1, [FreshCell EXCEPT !.regs = c.s]) \in [Cells -> Cell]
  BY <1>2, <1>3, <1>4
<1>6. EntryRam(m) \in [Cells -> Cell]
  BY <1>4, <1>5 DEF EntryRam, basic
<1> QED BY <1>6, EntryFields DEF EntryResult

(* So does a tick.                                                         *)
LEMMA TickTyped ==
  ASSUME NEW m \in Machines
  PROVE  MaybeTick(m) \in Machines
<1> DEFINE n == (IF m.core.systick = 0 THEN Rvr ELSE m.core.systick) - 1
           k == IF n = 0 THEN Rvr ELSE n
           t == [m EXCEPT !.core.systick = k]
<1>1. m.core \in CoreState /\ m.core.systick \in Nat
  BY DEF Machines, CoreState
<1>2. k \in Nat
  BY <1>1
<1>3. MaybeTick(m) = m \/ MaybeTick(m) = t \/ MaybeTick(m) = ExceptionEntry(t, SYSTICK)
  BY DEF MaybeTick
<1> HIDE DEF k
<1>4. t \in Machines
  BY <1>1, <1>2 DEF Machines, CoreState
<1> HIDE DEF t
<1> QED BY <1>3, <1>4, EntryTyped DEF SYSTICK

(* A slot on a machine in thread mode: it stays there, or a handler is     *)
(* entered.                                                                *)
Interrupted(m) ==
  /\ m.core.primask = FALSE /\ core'.mode = "Handler"
  /\ \/ /\ core'.ipsr = SYSTICK /\ core'.systick = Rvr /\ m.core.systick <= 1
        /\ bus'.pend_pendsv = m.bus.pend_pendsv
     \/ /\ \E i \in m.bus.nvic_en : core'.ipsr = 16 + i
        /\ bus'.pend_pendsv = m.bus.pend_pendsv
     \/ core'.ipsr = PENDSV /\ bus'.pend_pendsv = FALSE

(* What every slot leaves alone, and the wait it counts.                   *)
SlotCommon(m) ==
  /\ core'.primask = m.core.primask /\ core'.faultmask = m.core.faultmask
  /\ bus'.nvic_en = m.bus.nvic_en
  /\ core'.systick \in Nat /\ core'.systick >= m.core.systick - 1
  /\ waited' = IF bus.pend_pendsv /\ bus'.pend_pendsv /\ ~Masked(core') THEN waited + 1 ELSE 0

(* What a slot does: the body, a tick, an interrupt, and the count of      *)
(* slots waited.                                                           *)
LEMMA SlotFlow ==
  ASSUME NEW m \in Machines, Slot(m)
  PROVE  /\ SlotCommon(m)
         /\ m.core.mode = "Handler" =>
              core'.mode = "Handler" /\ core'.ipsr = m.core.ipsr /\ bus'.pend_pendsv = m.bus.pend_pendsv
         /\ m.core.mode = "Thread" /\ m.core.faultmask = FALSE =>
              \/ /\ core'.mode = "Thread" /\ bus'.pend_pendsv = m.bus.pend_pendsv
                 /\ m.core.primask = TRUE \/ m.bus.pend_pendsv = FALSE
              \/ Interrupted(m)
<1> DEFINE t == MaybeTick(m)
           n == MaybeInterrupt(t)
<1>1. /\ core' = n.core /\ bus' = n.bus
      /\ waited' = IF bus.pend_pendsv /\ n.bus.pend_pendsv /\ ~Masked(n.core) THEN waited + 1 ELSE 0
  BY DEF Slot
<1>2. t \in Machines
  BY TickTyped
<1>3. /\ t.core.primask = m.core.primask /\ t.core.faultmask = m.core.faultmask
      /\ t.bus.nvic_en = m.bus.nvic_en /\ t.bus.pend_pendsv = m.bus.pend_pendsv
      /\ t.core.systick \in Nat /\ t.core.systick >= m.core.systick - 1
      /\ \/ t.core.mode = m.core.mode /\ t.core.ipsr = m.core.ipsr
         \/ /\ m.core.mode = "Thread" /\ m.core.primask = FALSE /\ m.core.systick <= 1
            /\ t.core.mode = "Handler" /\ t.core.ipsr = SYSTICK /\ t.core.systick = Rvr
  BY TickFlow
<1> HIDE DEF t
<1>4. /\ n.core.primask = t.core.primask /\ n.core.faultmask = t.core.faultmask
      /\ n.bus.nvic_en = t.bus.nvic_en /\ n.core.systick = t.core.systick
      /\ \/ /\ n.core.mode = t.core.mode /\ n.core.ipsr = t.core.ipsr
            /\ n.bus.pend_pendsv = t.bus.pend_pendsv
            /\ \/ t.core.mode = "Handler" \/ t.core.primask = TRUE \/ t.core.faultmask = TRUE
               \/ t.bus.pend_pendsv = FALSE
         \/ /\ t.core.mode = "Thread" /\ t.core.primask = FALSE /\ n.core.mode = "Handler"
            /\ n.bus.pend_pendsv = t.bus.pend_pendsv /\ \E i \in t.bus.nvic_en : n.core.ipsr = 16 + i
         \/ /\ t.core.mode = "Thread" /\ t.core.primask = FALSE /\ n.core.mode = "Handler"
            /\ n.bus.pend_pendsv = FALSE /\ n.core.ipsr = PENDSV
  BY <1>2, InterruptFlow
<1> HIDE DEF n
<1>5. SlotCommon(m)
  BY <1>1, <1>3, <1>4 DEF SlotCommon
<1>6. m.core.mode = "Handler" =>
        core'.mode = "Handler" /\ core'.ipsr = m.core.ipsr /\ bus'.pend_pendsv = m.bus.pend_pendsv
  BY <1>1, <1>3, <1>4
<1>7. ASSUME m.core.mode = "Thread", m.core.faultmask = FALSE
      PROVE  \/ /\ core'.mode = "Thread" /\ bus'.pend_pendsv = m.bus.pend_pendsv
                /\ m.core.primask = TRUE \/ m.bus.pend_pendsv = FALSE
             \/ Interrupted(m)
  <2>1. CASE t.core.mode = m.core.mode /\ t.core.ipsr = m.core.ipsr
    BY <1>1, <1>3, <1>4, <1>7, <2>1 DEF Interrupted
  <2>2. CASE /\ m.core.primask = FALSE /\ m.core.systick <= 1
             /\ t.core.mode = "Handler" /\ t.core.ipsr = SYSTICK /\ t.core.systick = Rvr
    BY <1>1, <1>3, <1>4, <1>7, <2>2 DEF Interrupted
  <2> QED BY <1>3, <2>1, <2>2
<1> QED BY <1>5, <1>6, <1>7

(* Nothing waits: a slot from thread mode.                                 *)
LEMMA ThreadSlotLatency ==
  ASSUME NEW m \in Machines, m.core.mode = "Thread", m.core.faultmask = FALSE,
         m.bus.pend_pendsv = FALSE, kern'.cur # Boot => m.core.primask = FALSE, Slot(m)
  PROVE  LatencyInv'
<1>1. /\ SlotCommon(m)
      /\ \/ core'.mode = "Thread" /\ bus'.pend_pendsv = FALSE
         \/ Interrupted(m)
  BY SlotFlow
<1>2. bus'.pend_pendsv = FALSE /\ waited' = 0
  BY <1>1 DEF SlotCommon, Interrupted
<1>3. Unmasked(core', kern'.cur)
  BY <1>1 DEF SlotCommon, Interrupted, Unmasked
<1>4. core'.mode = "Handler" => JustEntered(core', bus')
  BY <1>1 DEF SlotCommon, Interrupted, JustEntered
<1> QED BY <1>2, <1>3, <1>4 DEF LatencyInv, LatencyOf

(* Nothing waits: a slot of a handler that switches.                       *)
LEMMA HandlerSlotLatency ==
  ASSUME NEW m \in Machines, m.core.mode = "Handler", m.core.faultmask = FALSE,
         m.core.primask = FALSE, m.bus.pend_pendsv = FALSE,
         kern'.done = FALSE => m.core.ipsr \in {SVC, PENDSV}, Slot(m)
  PROVE  LatencyInv'
<1>1. /\ SlotCommon(m)
      /\ core'.mode = "Handler" /\ core'.ipsr = m.core.ipsr /\ bus'.pend_pendsv = FALSE
  BY SlotFlow
<1>2. waited' = 0 /\ Unmasked(core', kern'.cur)
  BY <1>1 DEF SlotCommon, Unmasked
<1>3. kern'.done = FALSE => JustEntered(core', bus')
  BY <1>1 DEF JustEntered
<1> QED BY <1>1, <1>2, <1>3 DEF LatencyInv, LatencyOf

(* The interrupts spent.                                                   *)
LEMMA SpentFinite ==
  ASSUME NEW c, NEW b, NEW done
  PROVE  /\ Spent(c, b, done) \subseteq Irqs /\ IsFiniteSet(Spent(c, b, done))
         /\ Cardinality(Spent(c, b, done)) \in Nat /\ Cardinality(Irqs) \in Nat
         /\ Cardinality(Spent(c, b, done)) <= Cardinality(Irqs)
<1>1. Spent(c, b, done) \subseteq Irqs
  BY DEF Spent
<1>2. IsFiniteSet(Spent(c, b, done)) /\ Cardinality(Spent(c, b, done)) <= Cardinality(Irqs)
  BY <1>1, FS_Subset
<1> QED BY <1>1, <1>2, FS_CardinalityType

(* A deferred switch waits for no longer than the spent interrupts and two *)
(* ticks take.                                                             *)
LEMMA LatencyBound ==
  ASSUME LatencyInv, TypeOK
  PROVE  SwitchLatency
<1> DEFINE s == Cardinality(Spent(core, bus, kern.done))
           n == Cardinality(Irqs)
<1>1. waited \in Nat /\ bus.pend_pendsv \in BOOLEAN /\ kern.done \in BOOLEAN
  BY DEF TypeOK, BusState
<1>2. s \in Nat /\ n \in Nat /\ s <= n
  BY SpentFinite
<1>3. CASE bus.pend_pendsv = FALSE
  BY <1>2, <1>3 DEF LatencyInv, LatencyOf, SwitchLatency
<1>4. CASE bus.pend_pendsv = TRUE
  <2>1. PICK k \in 0..2 : Accounted(core, bus, kern.done, waited, k)
    BY <1>4 DEF LatencyInv, LatencyOf, Deferred
  <2>2. waited + (IF kern.done THEN 2 ELSE 3) <= 2 * (s + k)
    BY <2>1 DEF Accounted
  <2> HIDE DEF s, n
  <2>3. waited <= 2 * (n + 1)
    BY <1>1, <1>2, <2>2
  <2> QED BY <2>3 DEF SwitchLatency, n
<1> QED BY <1>1, <1>3, <1>4

(* The body of an interrupt or tick handler, which may ask for a switch.   *)
LEMMA IsrLatency ==
  ASSUME IInv, LatencyInv, IsrBody
  PROVE  LatencyInv'
<1>1. core \in CoreState /\ bus \in BusState /\ kern \in KernState /\ waited \in Nat
  BY MachineFacts DEF IInv, TypeOK
<1>2. PICK sv \in BOOLEAN :
        /\ Slot([core |-> [core EXCEPT !.regs = Scratch, !.sp = core.sp - 1],
                 bus  |-> [bus EXCEPT !.nvic_en = bus.nvic_en \ {core.ipsr - 16},
                                      !.pend_pendsv = bus.pend_pendsv \/ sv]])
        /\ kern' = [kern EXCEPT !.done = TRUE]
  BY DEF IsrBody
<1> DEFINE d == [core EXCEPT !.regs = Scratch, !.sp = core.sp - 1]
           b == [bus EXCEPT !.nvic_en = bus.nvic_en \ {core.ipsr - 16},
                            !.pend_pendsv = bus.pend_pendsv \/ sv]
           m == [core |-> d, bus |-> b]
<1>3. core.mode = "Handler" /\ kern.done = FALSE /\ core.ipsr \notin {SVC, PENDSV}
  BY <1>1 DEF IsrBody, InHandler, Switches, KernState
<1>4. d \in CoreState
  <2>1. core.sp - 1 \in Int /\ Scratch \in Nat
    BY <1>1 DEF CoreState, Scratch
  <2>2. ASSUME NEW x \in Int, NEW r \in Nat
        PROVE  [core EXCEPT !.regs = r, !.sp = x] \in CoreState
    BY <1>1 DEF CoreState
  <2> QED BY <2>1, <2>2
<1>5. /\ d.mode = "Handler" /\ d.ipsr = core.ipsr /\ d.systick = core.systick
      /\ d.primask = core.primask /\ d.faultmask = core.faultmask
  BY <1>1, <1>3 DEF CoreState
<1>6. b \in BusState /\ b.nvic_en = bus.nvic_en \ {core.ipsr - 16} /\ b.pend_pendsv = (bus.pend_pendsv \/ sv)
  BY <1>1 DEF BusState
<1>7. kern'.done = TRUE /\ kern'.cur = kern.cur
  BY <1>1, <1>2 DEF KernState
<1>8. m \in Machines /\ m.core = d /\ m.bus = b /\ Slot(m)
  BY <1>2, <1>4, <1>6 DEF Machines
<1> HIDE DEF m, d, b
<1>9. /\ core'.primask = core.primask /\ core'.faultmask = core.faultmask
      /\ bus'.nvic_en = bus.nvic_en \ {core.ipsr - 16}
      /\ core'.systick \in Nat /\ core'.systick >= core.systick - 1
      /\ waited' = IF bus.pend_pendsv /\ bus'.pend_pendsv /\ ~Masked(core') THEN waited + 1 ELSE 0
      /\ core'.mode = "Handler" /\ core'.ipsr = core.ipsr /\ bus'.pend_pendsv = (bus.pend_pendsv \/ sv)
  BY <1>5, <1>6, <1>8, SlotFlow DEF SlotCommon
<1>10. core.primask = FALSE /\ core.faultmask = FALSE
  BY <1>3 DEF LatencyInv, LatencyOf, Unmasked
<1>11. Unmasked(core', kern'.cur) /\ ~Masked(core')
  BY <1>9, <1>10 DEF Unmasked, Masked
<1> DEFINE s == Cardinality(Spent(core, bus, FALSE))
<1>12. Cardinality(Spent(core', bus', TRUE)) = s
  <2>1. core.ipsr \in Nat /\ \A i \in Irqs : i \in Nat
    BY <1>1, IrqsAreNumbers DEF CoreState
  <2>2. \A i \in Irqs : i = core.ipsr - 16 <=> core.ipsr = 16 + i
    BY <2>1
  <2>3. bus.nvic_en \subseteq Irqs
    BY <1>1 DEF BusState
  <2>4. Irqs \ (bus.nvic_en \ {core.ipsr - 16}) = (Irqs \ bus.nvic_en) \cup {i \in Irqs : core.ipsr = 16 + i}
    BY <2>2, <2>3
  <2>5. Spent(core', bus', TRUE) = Spent(core, bus, FALSE)
    BY <1>9, <2>4 DEF Spent
  <2> QED BY <2>5
<1>13. s \in Nat /\ core.systick \in Nat
  BY <1>1, SpentFinite DEF CoreState
<1>14. CASE bus.pend_pendsv = TRUE
  <2>1. waited' = waited + 1 /\ bus'.pend_pendsv = TRUE
    BY <1>9, <1>11, <1>14
  <2>2. PICK k \in 0..2 : Accounted(core, bus, FALSE, waited, k)
    BY <1>3, <1>14 DEF LatencyInv, LatencyOf, Deferred
  <2>3. waited + 3 <= 2 * (s + k) /\ waited + 1 + core.systick >= k * Rvr
    BY <2>2 DEF Accounted
  <2>4. k * Rvr \in Int
    OBVIOUS
  <2> HIDE DEF s
  <2>5. waited' + 2 <= 2 * (s + k) /\ waited' + 1 + core'.systick >= k * Rvr
    BY <1>1, <1>9, <1>13, <2>1, <2>3, <2>4
  <2>6. Accounted(core', bus', TRUE, waited', k)
    BY <1>12, <2>5 DEF Accounted
  <2> QED BY <1>3, <1>7, <1>9, <1>11, <2>1, <2>6 DEF LatencyInv, LatencyOf, Deferred
<1>15. CASE bus.pend_pendsv = FALSE /\ sv = FALSE
  BY <1>7, <1>9, <1>11, <1>15 DEF LatencyInv, LatencyOf
<1>16. CASE bus.pend_pendsv = FALSE /\ sv = TRUE
  <2>1. waited' = 0 /\ bus'.pend_pendsv = TRUE
    BY <1>9, <1>16
  <2>2. \E k \in 0..2 : Accounted(core', bus', TRUE, waited', k)
    <3>1. CASE core.systick >= Rvr
      <4> HIDE DEF s
      <4>1. 0 + 2 <= 2 * (s + 1) /\ 0 + 1 + core'.systick >= 1 * Rvr
        BY <1>9, <1>13, <3>1
      <4>2. Accounted(core', bus', TRUE, waited', 1)
        BY <1>12, <2>1, <4>1 DEF Accounted
      <4>3. 1 \in 0..2
        OBVIOUS
      <4> QED BY <4>2, <4>3
    <3>2. ASSUME NEW i \in bus.nvic_en, core.ipsr = 16 + i
          PROVE  \E k \in 0..2 : Accounted(core', bus', TRUE, waited', k)
      <4>1. i \in Spent(core, bus, FALSE)
        BY <1>1, <3>2 DEF Spent, BusState
      <4>2. s # 0
        BY <4>1, SpentFinite, FS_EmptySet
      <4> HIDE DEF s
      <4>3. 0 + 2 <= 2 * (s + 0) /\ 0 + 1 + core'.systick >= 0 * Rvr
        BY <1>9, <1>13, <4>2
      <4>4. Accounted(core', bus', TRUE, waited', 0)
        BY <1>12, <2>1, <4>3 DEF Accounted
      <4>5. 0 \in 0..2
        OBVIOUS
      <4> QED BY <4>4, <4>5
    <3> QED BY <1>3, <3>1, <3>2 DEF LatencyInv, LatencyOf, JustEntered
  <2> QED BY <1>3, <1>7, <1>9, <1>11, <2>1, <2>2 DEF LatencyInv, LatencyOf, Deferred
<1> QED BY <1>1, <1>14, <1>15, <1>16 DEF BusState

(* What a return leaves alone.                                             *)
LEMMA ReturnFlow ==
  ASSUME NEW m \in Machines, NEW exc \in ExcReturn, exc.thread
  PROVE  LET r == ExceptionReturn(m, exc) IN
         /\ r \in Machines /\ r.core.mode = "Thread" /\ r.core.systick = m.core.systick
         /\ r.core.primask = m.core.primask /\ r.core.faultmask = m.core.faultmask
         /\ r.bus.nvic_en = m.bus.nvic_en /\ r.bus.pend_pendsv = m.bus.pend_pendsv
<1> DEFINE base == FrameBase(m, exc)
           c == ReturnBank(m.core, exc, base + Words(exc.ext))
           r == ExceptionReturn(m, exc)
<1>1. m.core \in CoreState /\ m.bus \in BusState
  BY DEF Machines
<1>2. r \in Machines /\ r.core.mode = "Thread" /\ r.bus.nvic_en = m.bus.nvic_en
  BY ReturnFields DEF ReturnResult, BusStays
<1>3. /\ DOMAIN c = DOMAIN m.core
      /\ c.systick = m.core.systick /\ c.primask = m.core.primask /\ c.faultmask = m.core.faultmask
  BY <1>1 DEF ReturnBank, CoreState
<1> DEFINE frame == FrameAt(m, exc)
           fs == IF exc.ext /\ base + 1 \in Cells THEN m.bus.ram[base + 1].regs ELSE c.s
           mode == IF exc.thread THEN "Thread" ELSE "Handler"
           spsel == IF exc.thread THEN exc.psp ELSE c.spsel
           usePsp == mode = "Thread" /\ spsel
           d == [c EXCEPT !.regs = frame.regs, !.it = frame.it, !.ipsr = frame.ipsr, !.fpca = exc.ext,
                          !.s = fs, !.mode = mode, !.spsel = spsel, !.sp_is_psp = usePsp,
                          !.sp = IF usePsp THEN c.psp ELSE c.msp, !.lr = NoExc]
<1>4. r.core = d
  <2>1. r = [m EXCEPT !.bus.ram = Popped(m.bus.ram, base, Words(exc.ext)), !.core = d]
    BY DEF ExceptionReturn, FrameBase, FrameAt
  <2> HIDE DEF r, d
  <2> QED BY <2>1 DEF Machines
<1>5. {"systick", "primask", "faultmask"} \subseteq DOMAIN m.core
  BY <1>1 DEF CoreState
<1>6. \E x : r.bus = [m.bus EXCEPT !.ram = x]
  BY DEF ExceptionReturn, Machines
<1> HIDE DEF c, r, frame, fs, mode, spsel, usePsp
<1>7. r.core.systick = c.systick /\ r.core.primask = c.primask /\ r.core.faultmask = c.faultmask
  BY <1>3, <1>4, <1>5
<1>8. r.bus.pend_pendsv = m.bus.pend_pendsv
  BY <1>1, <1>6 DEF BusState
<1> QED BY <1>2, <1>3, <1>7, <1>8 DEF r

(* Ticks are too far apart for a third one during the wait.                *)
LEMMA NextTick ==
  ASSUME NEW n \in Nat, NEW s \in Nat, NEW w \in Nat, NEW d \in Nat, NEW k \in 0..2,
         Rvr > n + 2, s <= n, d <= 1, w + 2 <= 2 * (s + k), w + 1 + d >= k * Rvr
  PROVE  k + 1 \in 0..2 /\ w + 1 + 3 <= 2 * (s + (k + 1)) /\ w + 1 + 1 + Rvr >= (k + 1) * Rvr
<1>1. CASE k = 0
  BY <1>1
<1>2. CASE k = 1
  BY <1>2
<1>3. CASE k = 2
  BY <1>3
<1> QED BY <1>1, <1>2, <1>3

(* The return of a handler while a switch waits: a tick or an enabled      *)
(* interrupt comes first, or PendSV is entered.                            *)
LEMMA ReturnSlotLatency ==
  ASSUME TypeOK, LatencyInv, Rvr > Cardinality(Irqs) + 2, bus.pend_pendsv = TRUE, kern.done = TRUE,
         NEW m \in Machines, m.core.mode = "Thread", m.core.primask = FALSE, m.core.faultmask = FALSE,
         m.core.systick = core.systick, m.bus.nvic_en = bus.nvic_en, m.bus.pend_pendsv = TRUE,
         Slot(m), kern'.done = FALSE
  PROVE  LatencyInv'
<1>1. /\ core'.primask = FALSE /\ core'.faultmask = FALSE /\ bus'.nvic_en = bus.nvic_en
      /\ core'.systick \in Nat /\ core'.systick >= core.systick - 1
      /\ waited' = IF bus.pend_pendsv /\ bus'.pend_pendsv /\ ~Masked(core') THEN waited + 1 ELSE 0
  BY SlotFlow DEF SlotCommon
<1>2. Interrupted(m)
  BY SlotFlow
<1>3. Unmasked(core', kern'.cur) /\ ~Masked(core') /\ core'.mode = "Handler"
  BY <1>1, <1>2 DEF Unmasked, Masked, Interrupted
<1>4. core.systick \in Nat /\ waited \in Nat /\ bus.nvic_en \subseteq Irqs
  BY DEF TypeOK, CoreState, BusState
<1> DEFINE s == Cardinality(Spent(core, bus, TRUE))
           n == Cardinality(Irqs)
<1>5. s \in Nat /\ n \in Nat /\ s <= n
  BY SpentFinite
<1>6. PICK k \in 0..2 : Accounted(core, bus, TRUE, waited, k)
  BY DEF LatencyInv, LatencyOf, Deferred
<1>7. waited + 2 <= 2 * (s + k) /\ waited + 1 + core.systick >= k * Rvr
  BY <1>6 DEF Accounted
<1>8. CASE core'.ipsr = PENDSV /\ bus'.pend_pendsv = FALSE
  BY <1>1, <1>3, <1>8 DEF LatencyInv, LatencyOf, JustEntered
<1>9. CASE /\ core'.ipsr = SYSTICK /\ core'.systick = Rvr /\ m.core.systick <= 1
           /\ bus'.pend_pendsv = m.bus.pend_pendsv
  <2>1. waited' = waited + 1 /\ bus'.pend_pendsv = TRUE
    BY <1>1, <1>3, <1>9
  <2>2. Spent(core', bus', FALSE) = Spent(core, bus, TRUE)
    <3>1. \A i \in Irqs : SYSTICK # 16 + i
      <4>1. \A j \in Nat : 15 # 16 + j
        OBVIOUS
      <4> QED BY <4>1, IrqsAreNumbers DEF SYSTICK
    <3> QED BY <1>1, <1>9, <3>1 DEF Spent
  <2>3. Cardinality(Spent(core', bus', FALSE)) = s
    BY <2>2
  <2> HIDE DEF s, n
  <2>4. /\ k + 1 \in 0..2 /\ waited + 1 + 3 <= 2 * (s + (k + 1))
        /\ waited + 1 + 1 + Rvr >= (k + 1) * Rvr
    <3>1. Rvr > n + 2 /\ core.systick <= 1
      BY <1>9 DEF n
    <3> QED BY <1>4, <1>5, <1>7, <3>1, NextTick
  <2>5. Accounted(core', bus', FALSE, waited', k + 1)
    BY <1>9, <2>1, <2>3, <2>4 DEF Accounted
  <2>6. SYSTICK \notin {SVC, PENDSV} /\ Rvr >= Rvr
    BY DEF SYSTICK, SVC, PENDSV
  <2>7. JustEntered(core', bus')
    BY <1>9, <2>6 DEF JustEntered
  <2>8. Deferred(core', bus', FALSE, waited')
    BY <1>3, <1>9, <2>4, <2>5, <2>6 DEF Deferred
  <2> QED BY <1>3, <2>1, <2>7, <2>8 DEF LatencyInv, LatencyOf
<1>10. ASSUME NEW i \in m.bus.nvic_en, core'.ipsr = 16 + i, bus'.pend_pendsv = m.bus.pend_pendsv
       PROVE  LatencyInv'
  <2>1. waited' = waited + 1 /\ bus'.pend_pendsv = TRUE
    BY <1>1, <1>3, <1>10
  <2>2. i \in bus.nvic_en /\ i \in Irqs /\ i \in Nat
    BY <1>4, IrqsAreNumbers
  <2>3. Spent(core', bus', FALSE) = Spent(core, bus, TRUE) \cup {i}
    <3>1. \A j \in Irqs : 16 + i = 16 + j <=> j = i
      BY <2>2, IrqsAreNumbers
    <3> QED BY <1>1, <1>10, <2>2, <3>1 DEF Spent
  <2>4. i \notin Spent(core, bus, TRUE)
    BY <2>2 DEF Spent
  <2>5. Cardinality(Spent(core', bus', FALSE)) = s + 1
    BY <2>3, <2>4, SpentFinite, FS_AddElement
  <2>6. k * Rvr \in Int
    OBVIOUS
  <2> HIDE DEF s, n
  <2>7. waited + 1 + 3 <= 2 * ((s + 1) + k) /\ waited + 1 + 1 + core'.systick >= k * Rvr
    BY <1>1, <1>4, <1>5, <1>7, <2>6
  <2>8. Accounted(core', bus', FALSE, waited', k)
    BY <2>1, <2>5, <2>7 DEF Accounted
  <2>9. 16 + i \notin {SVC, PENDSV}
    BY <2>2 DEF SVC, PENDSV
  <2>10. JustEntered(core', bus')
    BY <1>1, <1>10, <2>2 DEF JustEntered
  <2>11. Deferred(core', bus', FALSE, waited')
    BY <1>3, <1>10, <2>8, <2>9 DEF Deferred
  <2> QED BY <1>3, <2>1, <2>10, <2>11 DEF LatencyInv, LatencyOf
<1> QED BY <1>2, <1>8, <1>9, <1>10 DEF Interrupted

(* Any handler that returns keeps the account.                             *)
LEMMA HandlerReturnLatency ==
  ASSUME IInv, LatencyInv, Rvr > Cardinality(Irqs) + 2, HandlerReturn
  PROVE  LatencyInv'
<1> DEFINE up == [Machine EXCEPT !.core.sp = core.sp + 1]
<1>1. Machine \in Machines /\ kern \in KernState /\ core \in CoreState /\ bus \in BusState /\ TypeOK
  BY MachineFacts DEF IInv
<1>2. Machine.core = core /\ Machine.bus = bus
  BY DEF Machine
<1>3. /\ core.mode = "Handler" /\ kern.done = TRUE /\ kern' = [kern EXCEPT !.done = FALSE]
      /\ core.lr \in ExcReturn /\ core.lr.thread
  BY <1>1 DEF HandlerReturn, InHandler, KernState, CoreState, IInv, Shape, HandlerShape
<1>4. \/ Slot(ExceptionReturn(Machine, core.lr))
      \/ Slot(ExceptionReturn(up, core.lr))
  <2>1. up = [Machine EXCEPT !.core.sp = Machine.core.sp + 1]
    BY <1>2
  <2> QED BY <2>1 DEF HandlerReturn, PopReturn
<1>5. /\ up \in Machines /\ up.bus = bus /\ up.core.systick = core.systick
      /\ up.core.primask = core.primask /\ up.core.faultmask = core.faultmask
  <2> DEFINE d == [core EXCEPT !.sp = core.sp + 1]
  <2>1. up = [core |-> d, bus |-> bus]
    BY DEF Machine
  <2>2. core.sp + 1 \in Int
    BY <1>1 DEF CoreState
  <2>3. d \in CoreState
    BY <1>1, <2>2, Zenon DEF CoreState
  <2>4. d.systick = core.systick /\ d.primask = core.primask /\ d.faultmask = core.faultmask
    BY <1>1 DEF CoreState
  <2> HIDE DEF d, up
  <2> QED BY <1>1, <2>1, <2>3, <2>4 DEF Machines
<1>6. kern'.cur = kern.cur /\ kern'.done = FALSE
  BY <1>1, <1>3 DEF KernState
<1>7. core.primask = FALSE /\ core.faultmask = FALSE
  BY <1>3 DEF LatencyInv, LatencyOf, Unmasked
<1> HIDE DEF up
<1>8. ASSUME NEW x \in Machines, x.bus = bus, x.core.systick = core.systick, x.core.primask = core.primask,
             x.core.faultmask = core.faultmask, Slot(ExceptionReturn(x, core.lr))
      PROVE  LatencyInv'
  <2> DEFINE r == ExceptionReturn(x, core.lr)
  <2>1. /\ r \in Machines /\ r.core.mode = "Thread" /\ r.core.systick = core.systick
        /\ r.core.primask = FALSE /\ r.core.faultmask = FALSE
        /\ r.bus.nvic_en = bus.nvic_en /\ r.bus.pend_pendsv = bus.pend_pendsv
    BY <1>3, <1>7, <1>8, ReturnFlow
  <2>2. Slot(r)
    BY <1>8
  <2> HIDE DEF r
  <2>3. CASE bus.pend_pendsv = TRUE
    BY <1>1, <1>3, <1>6, <2>1, <2>2, <2>3, ReturnSlotLatency
  <2>4. CASE bus.pend_pendsv = FALSE
    BY <2>1, <2>2, <2>4, ThreadSlotLatency
  <2> QED BY <1>1, <2>3, <2>4 DEF BusState
<1>9. CASE Slot(ExceptionReturn(Machine, core.lr))
  BY <1>1, <1>2, <1>8, <1>9
<1>10. CASE Slot(ExceptionReturn(up, core.lr))
  BY <1>5, <1>8, <1>10
<1> QED BY <1>4, <1>9, <1>10

(* In thread mode nothing waits, and a task is not masked.                 *)
LEMMA ThreadNoWait ==
  ASSUME IInv, LatencyInv, core.mode = "Thread"
  PROVE  /\ bus.pend_pendsv = FALSE /\ core.faultmask = FALSE
         /\ kern.cur # Boot => core.primask = FALSE
<1>1. bus.pend_pendsv \in BOOLEAN
  BY DEF IInv, TypeOK, BusState
<1> QED BY <1>1 DEF LatencyInv, LatencyOf, Deferred, Unmasked

(* A handler that switches: nothing waits either.                          *)
LEMMA SwitchNoWait ==
  ASSUME IInv, LatencyInv, core.mode = "Handler", core.ipsr \in {SVC, PENDSV}
  PROVE  bus.pend_pendsv = FALSE /\ core.faultmask = FALSE /\ core.primask = FALSE
<1>1. bus.pend_pendsv \in BOOLEAN
  BY DEF IInv, TypeOK, BusState
<1> QED BY <1>1 DEF LatencyInv, LatencyOf, Deferred, Unmasked

(* An instruction of a task that leaves the masks and PendSV alone.        *)
LEMMA TaskSlotLatency ==
  ASSUME IInv, LatencyInv, InTask, NEW d \in CoreState, NEW b \in BusState, d.mode = core.mode,
         d.primask = core.primask, d.faultmask = core.faultmask, b.pend_pendsv = bus.pend_pendsv,
         Slot([core |-> d, bus |-> b]), UNCHANGED kern
  PROVE  LatencyInv'
<1> DEFINE m == [core |-> d, bus |-> b]
<1>1. m \in Machines /\ m.core = d /\ m.bus = b /\ Slot(m)
  BY DEF Machines
<1>2. core.mode = "Thread" /\ kern.cur # Boot
  BY DEF InTask, ThreadRuns
<1>3. bus.pend_pendsv = FALSE /\ core.faultmask = FALSE /\ core.primask = FALSE
  BY <1>2, ThreadNoWait
<1> HIDE DEF m
<1> QED BY <1>1, <1>2, <1>3, ThreadSlotLatency

(* Counting down an IT block changes neither mask.                         *)
LEMMA ItCountMasks ==
  ASSUME NEW c \in CoreState
  PROVE  ItCount(c) \in CoreState /\ ItCount(c).mode = c.mode
         /\ ItCount(c).primask = c.primask /\ ItCount(c).faultmask = c.faultmask
<1> DEFINE k == IF c.it = 0 THEN 0 ELSE c.it - 1
<1>1. ItCount(c) = [c EXCEPT !.it = k]
  BY DEF ItCount
<1> HIDE DEF k
<1>2. ItCount(c).primask = c.primask /\ ItCount(c).faultmask = c.faultmask
  BY <1>1 DEF CoreState
<1> QED BY <1>2, ItCountFields

(* Every instruction of a task keeps the account.                          *)
LEMMA ThreadLatency ==
  ASSUME IInv, LatencyInv, Thread
  PROVE  LatencyInv'
<1>1. core \in CoreState /\ bus \in BusState /\ Machine = [core |-> core, bus |-> bus]
  BY MachineFacts DEF Machine
<1>2. ASSUME NEW v \in Vals, Compute(v)
      PROVE  LatencyInv'
  <2> DEFINE c == [core EXCEPT !.regs = v]
  <2>1. InTask /\ Slot([core |-> ItCount(c), bus |-> bus]) /\ UNCHANGED kern
    BY <1>2 DEF Compute, Machine
  <2>2. c \in CoreState /\ c.mode = core.mode /\ c.primask = core.primask /\ c.faultmask = core.faultmask
    BY <1>1 DEF CoreState
  <2> HIDE DEF c
  <2> QED BY <1>1, <2>1, <2>2, ItCountMasks, TaskSlotLatency
<1>3. CASE TryVfp
  <2> DEFINE c == [core EXCEPT !.s = kern.cur, !.fpca = TRUE]
  <2>1. InTask /\ Slot([core |-> ItCount(c), bus |-> bus]) /\ UNCHANGED kern
    BY <1>3 DEF TryVfp, Machine
  <2>2. kern.cur \in Nat
    BY MachineFacts DEF Tasks, Boot
  <2>3. c \in CoreState /\ c.mode = core.mode /\ c.primask = core.primask /\ c.faultmask = core.faultmask
    BY <1>1, <2>2 DEF CoreState
  <2> HIDE DEF c
  <2> QED BY <1>1, <2>1, <2>3, ItCountMasks, TaskSlotLatency
<1>4. CASE OpenItBlock
  <2> DEFINE d == [core EXCEPT !.it = ItLen]
  <2>1. InTask /\ Slot([core |-> d, bus |-> bus]) /\ UNCHANGED kern
    BY <1>4 DEF OpenItBlock, Machine
  <2>2. d \in CoreState /\ d.mode = core.mode /\ d.primask = core.primask /\ d.faultmask = core.faultmask
    BY <1>1 DEF CoreState
  <2> HIDE DEF d
  <2> QED BY <1>1, <2>1, <2>2, TaskSlotLatency
<1>5. CASE Bkpt
  <2> DEFINE c == [core EXCEPT !.halted = TRUE, !.bkpt_hit = TRUE]
  <2>1. InTask /\ Slot([core |-> ItCount(c), bus |-> bus]) /\ UNCHANGED kern
    BY <1>5 DEF Bkpt, Machine
  <2>2. c \in CoreState /\ c.mode = core.mode /\ c.primask = core.primask /\ c.faultmask = core.faultmask
    BY <1>1 DEF CoreState
  <2> HIDE DEF c
  <2> QED BY <1>1, <2>1, <2>2, ItCountMasks, TaskSlotLatency
<1>6. ASSUME NEW i \in Irqs, DeviceAccess(i)
      PROVE  LatencyInv'
  <2> DEFINE b == [bus EXCEPT !.dev_touched = TRUE]
             m == [core |-> ItCount(core), bus |-> b]
             up == [b EXCEPT !.event = b.event \cup {i}]
             down == [b EXCEPT !.event = b.event \ {i}]
  <2>1. InTask /\ UNCHANGED kern
    BY <1>6 DEF DeviceAccess
  <2>2. b \in BusState /\ b.pend_pendsv = bus.pend_pendsv
    BY <1>1 DEF BusState
  <2>3. \/ Slot([m EXCEPT !.bus.event = m.bus.event \cup {i}])
        \/ Slot([m EXCEPT !.bus.event = m.bus.event \ {i}])
    BY <1>6 DEF DeviceAccess
  <2>4. [m EXCEPT !.bus.event = m.bus.event \cup {i}] = [core |-> ItCount(core), bus |-> up]
    BY MachineEvents
  <2>5. [m EXCEPT !.bus.event = m.bus.event \ {i}] = [core |-> ItCount(core), bus |-> down]
    BY MachineEvents
  <2> HIDE DEF b
  <2>6. up \in BusState /\ up.pend_pendsv = bus.pend_pendsv
    BY <2>2 DEF BusState
  <2>7. down \in BusState /\ down.pend_pendsv = bus.pend_pendsv
    BY <2>2 DEF BusState
  <2>8. Slot([core |-> ItCount(core), bus |-> up]) \/ Slot([core |-> ItCount(core), bus |-> down])
    BY <2>3, <2>4, <2>5
  <2> HIDE DEF up, down, m
  <2> QED BY <1>1, <2>1, <2>6, <2>7, <2>8, ItCountMasks, TaskSlotLatency
<1>7. CASE SystemCall
  <2> DEFINE e == ExceptionEntry(Machine, SVC)
  <2>1. core.mode = "Thread" /\ UNCHANGED kern /\ Slot([e EXCEPT !.core = ItCount(e.core)])
        /\ (kern.cur = Boot => core.primask = FALSE)
    BY <1>1, <1>7 DEF SystemCall, ThreadRuns, InBoot, CoreState
  <2>2. bus.pend_pendsv = FALSE /\ core.faultmask = FALSE /\ core.primask = FALSE
    BY <2>1, ThreadNoWait
  <2>3. e \in Machines
    BY MachineFacts, EntryTyped DEF SVC
  <2>4. /\ e.core.mode = "Handler" /\ e.core.ipsr = SVC /\ e.core.it = 0
        /\ e.core.primask = core.primask /\ e.core.faultmask = core.faultmask
        /\ e.bus.pend_pendsv = bus.pend_pendsv
    <3>1. e.core.it = 0
      BY <2>3 DEF ExceptionEntry, Machines, CoreState
    <3> QED BY <1>1, <3>1, MachineFacts, EntryFlow
  <2> HIDE DEF e
  <2>5. ItCount(e.core) = e.core
    BY <2>3, <2>4 DEF ItCount, CoreState, Machines
  <2>6. [e EXCEPT !.core = ItCount(e.core)] = e
    BY <2>3, <2>5 DEF Machines
  <2>7. Slot(e)
    BY <2>1, <2>6
  <2> QED BY <2>2, <2>3, <2>4, <2>7, HandlerSlotLatency
<1>8. ASSUME NEW p \in BOOLEAN, NEW n \in Masks, BootSetup(p, n)
      PROVE  LatencyInv'
  <2> DEFINE d == [core EXCEPT !.tickint = TRUE, !.primask = p, !.basepri = n]
             m == [core |-> d, bus |-> bus]
  <2>1. core.mode = "Thread" /\ kern.cur = Boot /\ UNCHANGED kern /\ Slot(m)
    BY <1>8 DEF BootSetup, InBoot, ThreadRuns, Machine
  <2>2. bus.pend_pendsv = FALSE /\ core.faultmask = FALSE
    BY <2>1, ThreadNoWait
  <2>3. d.mode = core.mode /\ d.faultmask = core.faultmask
    BY <1>1 DEF CoreState
  <2>4. d \in CoreState
    <3>1. CASE p = TRUE
      BY <1>1, <3>1 DEF CoreState
    <3>2. CASE p = FALSE
      BY <1>1, <3>2 DEF CoreState
    <3>3. p = TRUE \/ p = FALSE
      OBVIOUS
    <3> HIDE DEF d
    <3> QED BY <3>1, <3>2, <3>3
  <2> HIDE DEF d
  <2>5. m \in Machines /\ m.core = d /\ m.bus = bus
    BY <1>1, <2>4 DEF Machines
  <2> HIDE DEF m
  <2> QED BY <2>1, <2>2, <2>3, <2>5, ThreadSlotLatency
<1> QED BY <1>2, <1>3, <1>4, <1>5, <1>6, <1>7, <1>8 DEF Thread

(* So does the body of SVC or PendSV, which consumes the request.          *)
LEMMA SwitchBodyLatency ==
  ASSUME IInv, LatencyInv, NEW next \in Tasks, SwitchBody(next)
  PROVE  LatencyInv'
<1> DEFINE c == IF kern.cur = Boot THEN SetControl(core, FALSE, FALSE) ELSE core
           x == SavedNow[next].psp
           e == SavedNow[next].exc
           w == WritePsp(c, x)
           d == [w EXCEPT !.regs = Scratch, !.lr = e]
<1>1. core \in CoreState /\ bus \in BusState /\ kern \in KernState /\ Shape(core, kern.cur, mspBase)
  BY MachineFacts DEF IInv
<1>2. core.mode = "Handler" /\ core.ipsr \in {SVC, PENDSV}
  BY DEF SwitchBody, InHandler, Switches
<1>3. PICK on \in SUBSET Irqs : Slot([core |-> d, bus |-> [bus EXCEPT !.nvic_en = bus.nvic_en \cup on]])
  BY DEF SwitchBody, SavedNow
<1>4. kern'.done = TRUE
  BY <1>1 DEF SwitchBody, KernState
<1>5. x \in Int /\ e \in ExcReturn /\ Scratch \in Nat
  <2>1. SavedNow \in [Tasks -> SavedTask]
    BY <1>2, SavedNowFacts
  <2> QED BY <2>1 DEF SavedTask, Scratch
<1>6. core.sp_is_psp = FALSE
  BY <1>1, <1>2 DEF Shape, HandlerShape, CoreState
<1>7. /\ c \in CoreState /\ c.mode = "Handler" /\ c.sp_is_psp = FALSE /\ c.ipsr = core.ipsr
      /\ c.primask = core.primask /\ c.faultmask = core.faultmask
  <2>1. CASE kern.cur = Boot
    <3>1. c = [core EXCEPT !.spsel = FALSE, !.fpca = FALSE]
      BY <1>2, <1>6, <2>1 DEF SetControl
    <3> HIDE DEF c
    <3>2. c \in CoreState
      BY <1>1, <3>1 DEF CoreState
    <3> QED BY <1>1, <1>2, <1>6, <3>1, <3>2 DEF CoreState
  <2>2. CASE kern.cur # Boot
    BY <1>1, <1>2, <1>6, <2>2
  <2> QED BY <2>1, <2>2
<1> HIDE DEF c, x, e
<1>8. w \in CoreState /\ w.mode = "Handler" /\ w.ipsr = core.ipsr /\ w.primask = core.primask
      /\ w.faultmask = core.faultmask
  <2>1. w = [c EXCEPT !.psp = x, !.sp = c.sp] /\ c.sp \in Int
    BY <1>7 DEF WritePsp, CoreState
  <2> HIDE DEF w
  <2>2. w \in CoreState
    BY <1>5, <1>7, <2>1 DEF CoreState
  <2>3. w.mode = "Handler" /\ w.ipsr = core.ipsr /\ w.primask = core.primask /\ w.faultmask = core.faultmask
    BY <1>7, <2>1 DEF CoreState
  <2> QED BY <2>2, <2>3
<1> HIDE DEF w
<1>9. d \in CoreState
  BY <1>5, <1>8 DEF CoreState
<1>10. d.mode = "Handler" /\ d.ipsr = core.ipsr /\ d.primask = core.primask /\ d.faultmask = core.faultmask
  BY <1>8 DEF CoreState
<1> DEFINE b == [bus EXCEPT !.nvic_en = bus.nvic_en \cup on]
           m == [core |-> d, bus |-> b]
<1>11. b \in BusState /\ b.pend_pendsv = bus.pend_pendsv
  BY <1>1 DEF BusState
<1> HIDE DEF d, b
<1>12. m \in Machines /\ m.core = d /\ m.bus = b /\ Slot(m)
  BY <1>3, <1>9, <1>11 DEF Machines, b, d
<1> HIDE DEF m
<1>13. bus.pend_pendsv = FALSE /\ core.faultmask = FALSE /\ core.primask = FALSE
  BY <1>2, SwitchNoWait
<1> QED BY <1>4, <1>10, <1>11, <1>12, <1>13, HandlerSlotLatency

(* PendSV is not asked for before the first task runs.                     *)
LEMMA PendSvInBootLatency ==
  ASSUME IInv, LatencyInv, PendSvInBoot
  PROVE  LatencyInv'
<1>1. Machine \in Machines /\ Machine.core = core /\ Machine.bus = bus
  BY MachineFacts DEF Machine
<1>2. core.mode = "Handler" /\ core.ipsr \in {SVC, PENDSV} /\ Slot(Machine) /\ kern'.done = TRUE
  BY MachineFacts DEF PendSvInBoot, InHandler, KernState
<1>3. bus.pend_pendsv = FALSE /\ core.faultmask = FALSE /\ core.primask = FALSE
  BY <1>2, SwitchNoWait
<1> QED BY <1>1, <1>2, <1>3, HandlerSlotLatency

(* Between slots neither the handler nor what it spent changes.            *)
LEMMA EnvironmentLatency ==
  ASSUME IInv, LatencyInv, Environment
  PROVE  LatencyInv'
<1>1. core \in CoreState /\ bus \in BusState /\ kern \in KernState
  BY MachineFacts
<1>2. CASE Reset
  <2>1. core' = ResetCore(core) /\ waited' = 0 /\ bus'.pend_pendsv = FALSE /\ kern'.cur = Boot
    BY <1>1, <1>2 DEF Reset, BusState, KernState
  <2>2. core'.mode = "Thread" /\ core'.faultmask = FALSE
    BY <1>1, <2>1 DEF ResetCore, CoreState
  <2> QED BY <2>1, <2>2 DEF LatencyInv, LatencyOf, Unmasked
<1>3. ASSUME core'.mode = core.mode, core'.ipsr = core.ipsr, core'.systick = core.systick,
             core'.primask = core.primask, core'.faultmask = core.faultmask,
             bus'.nvic_en = bus.nvic_en, bus'.pend_pendsv = bus.pend_pendsv, kern' = kern, waited' = waited
      PROVE  LatencyInv'
  <2>1. Spent(core', bus', kern'.done) = Spent(core, bus, kern.done)
    BY <1>3 DEF Spent
  <2>2. \A k \in 0..2 : Accounted(core, bus, kern.done, waited, k) => Accounted(core', bus', kern'.done, waited', k)
    BY <1>3, <2>1 DEF Accounted
  <2>3. Deferred(core, bus, kern.done, waited) => Deferred(core', bus', kern'.done, waited')
    BY <1>3, <2>2 DEF Deferred
  <2>4. JustEntered(core, bus) => JustEntered(core', bus')
    BY <1>3 DEF JustEntered
  <2>5. Unmasked(core, kern.cur) => Unmasked(core', kern'.cur)
    BY <1>3 DEF Unmasked
  <2> QED BY <1>3, <2>3, <2>4, <2>5 DEF LatencyInv, LatencyOf
<1>4. CASE Resume
  <2>1. core' = [core EXCEPT !.halted = FALSE, !.bkpt_hit = FALSE] /\ UNCHANGED <<bus, kern, waited>>
    BY <1>4 DEF Resume
  <2>2. /\ core'.mode = core.mode /\ core'.ipsr = core.ipsr /\ core'.systick = core.systick
        /\ core'.primask = core.primask /\ core'.faultmask = core.faultmask
    BY <1>1, <2>1 DEF CoreState
  <2> QED BY <1>3, <2>1, <2>2
<1>5. ASSUME NEW i \in Irqs \ Polled, BusEvent(i)
      PROVE  LatencyInv'
  <2>1. bus' = [bus EXCEPT !.event = bus.event \cup {i}] /\ UNCHANGED <<core, kern, waited>>
    BY <1>5 DEF BusEvent
  <2>2. bus'.nvic_en = bus.nvic_en /\ bus'.pend_pendsv = bus.pend_pendsv
    BY <1>1, <2>1 DEF BusState
  <2> QED BY <1>3, <2>1, <2>2
<1> QED BY <1>2, <1>4, <1>5 DEF Environment

(* Nothing waits at reset.                                                 *)
LEMMA LatencyInit ==
  ASSUME CoreInit
  PROVE  LatencyInv
<1>1. bus.pend_pendsv = FALSE /\ waited = 0 /\ kern.cur = Boot
  BY DEF CoreInit
<1>2. core.mode = "Thread" /\ core.faultmask = FALSE
  BY DEF CoreInit, ResetCore
<1> QED BY <1>1, <1>2 DEF LatencyInv, LatencyOf, Unmasked

(* The invariant of a deferred switch, for any tasks, interrupts and       *)
(* priorities, if the tick period is longer than two slots and one for     *)
(* each interrupt (maybe_tick, maybe_interrupt).                           *)
THEOREM LatencyInvariance == Rvr > Cardinality(Irqs) + 2 => (CoreSpec => [](IInv /\ LatencyInv))
<1> SUFFICES ASSUME Rvr > Cardinality(Irqs) + 2
             PROVE  CoreSpec => [](IInv /\ LatencyInv)
  OBVIOUS
<1>1. CoreInit => IInv /\ LatencyInv
  BY InitOK, LatencyInit
<1>2. IInv /\ LatencyInv /\ [CoreNext]_coreVars => IInv' /\ LatencyInv'
  <2> SUFFICES ASSUME IInv, LatencyInv, [CoreNext]_coreVars
               PROVE  IInv' /\ LatencyInv'
    OBVIOUS
  <2>1. IInv'
    BY StepKeeps, StutterKeeps
  <2>2. CASE Thread
    BY <2>1, <2>2, ThreadLatency
  <2>3. CASE Kernel
    BY <2>1, <2>3, IsrLatency, PendSvInBootLatency, HandlerReturnLatency, SwitchBodyLatency DEF Kernel
  <2>4. CASE Environment
    BY <2>1, <2>4, EnvironmentLatency
  <2>5. CASE UNCHANGED coreVars
    BY <2>1, <2>5 DEF coreVars, LatencyInv, LatencyOf, Unmasked, Deferred, Accounted, Spent, JustEntered
  <2> QED BY <2>2, <2>3, <2>4, <2>5 DEF CoreNext
<1> QED BY <1>1, <1>2, PTL DEF CoreSpec

(* PendSV is entered within a bounded number of slots, interrupts and      *)
(* ticks that keep coming notwithstanding, under the same condition.       *)
THEOREM SwitchIsTimely == Rvr > Cardinality(Irqs) + 2 => (CoreSpec => []SwitchLatency)
<1> SUFFICES ASSUME Rvr > Cardinality(Irqs) + 2
             PROVE  CoreSpec => []SwitchLatency
  OBVIOUS
<1>1. IInv /\ LatencyInv => SwitchLatency
  BY LatencyBound DEF IInv
<1>2. CoreSpec => [](IInv /\ LatencyInv)
  BY LatencyInvariance
<1> QED BY <1>1, <1>2, PTL
=============================================================================
