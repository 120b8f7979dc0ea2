------------------------------ MODULE SprotLink ------------------------------
(***************************************************************************)
(* The in-process sprot link (src/src/sprot.rs) between the SP thread and  *)
(* the RoT thread (src/src/gdb.rs), with the chip-select half of the SP's  *)
(* GPIO bank (src/src/soc.rs).                                             *)
(*                                                                         *)
(* The link is one mutex-guarded block of wires and FIFOs plus one         *)
(* condition variable per side.  A step below is one critical section of   *)
(* the code; the notify that follows it, made after the lock is dropped,   *)
(* is a step of its own.                                                   *)
(*                                                                         *)
(* Both firmwares are outside the repository.  The SP firmware drives chip *)
(* select and TXDR as it likes.  The RoT firmware is the receive / clean   *)
(* up / acknowledge cycle the bridge is written for (variable fw): it      *)
(* polls FIFOSTAT before a FIFORD or a FIFOWR, does not drain its RX FIFO  *)
(* while it holds rot-irq, and cleans its FIFOs between the end of a       *)
(* transfer and the acknowledgement of it.                                 *)
(***************************************************************************)
EXTENDS Naturals, Sequences

CONSTANTS
  FifoBytes,    \* SPROT_FIFO_BYTES
  StallBudget,  \* STALL_BUDGET_ITERS
  MaxXfers,     \* bound: transfers the SP starts
  MaxClocks,    \* bound: bytes clocked in one transfer
  PintLines,    \* bound: PINT edges the SP thread may post
  SpIdles       \* bound: whether the SP leaves its burst to sample ROT_IRQ and park

ASSUME FifoAssumption   == FifoBytes \in Nat /\ FifoBytes >= 2
ASSUME BudgetAssumption == StallBudget \in Nat \ {0}
ASSUME BoundAssumption  == MaxXfers \in Nat /\ MaxClocks \in Nat
ASSUME LineAssumption   == PintLines \subseteq {"sp_reset", "jtag"} /\ SpIdles \in BOOLEAN

VARIABLES
  \* SprotLink, behind the mutex
  mosi,                \* request bytes; a byte is <<transfer, position in it>>
  miso,                \* number of reply bytes queued
  cs, rot_irq, ssa, ssd, sot_pending, request_in_flight, sp_rot_irq_pending,
  pints,               \* posted PINT edges: sp_reset_pint, jtag_pint
  rot_live,
  \* SP thread
  spPc,                \* "run", a wait ("csw", "tx2", "tx1", "idle"), "notify", "sampled"
  budget,              \* iterations left in the wait
  spSignal,            \* sp_cv was notified during this wait
  prev_rot_irq,
  \* RoT thread
  rotPc,               \* "preboot", "run", "notify", "idled", "parked"
  rotSignal,           \* rot_cv was notified while parked
  jtagArmed,           \* the firmware enabled NVIC IRQ 5
  fw,                  \* firmware phase: "wait", "xfer", "clean"
  sawRx, sawTx,        \* last FIFOSTAT: RXNOTEMPTY, TXNOTFULL
  \* history
  xfer,                \* transfers started
  clocked,             \* bytes clocked in this transfer
  rcvd,                \* bytes the RoT read in this transfer
  kind,                \* "request", or "reply" if rot-irq was held at its start
  degraded             \* this transfer began before rot_live or a stall gave up in it

fifos   == <<mosi, miso>>
wires   == <<cs, rot_irq, ssa, ssd, sot_pending>>
flags   == <<request_in_flight, sp_rot_irq_pending, pints, rot_live>>
spVars  == <<spPc, budget, spSignal, prev_rot_irq>>
rotVars == <<rotPc, rotSignal, jtagArmed, fw, sawRx, sawTx>>
history == <<xfer, clocked, rcvd, kind, degraded>>
vars    == <<fifos, wires, flags, spVars, rotVars, history>>

Bytes    == (0..MaxXfers) \X (0..MaxClocks)
SpWaits  == {"csw", "tx2", "tx1", "idle"}

Init ==
  /\ mosi = <<>> /\ miso = 0
  /\ cs = FALSE /\ rot_irq = FALSE /\ ssa = FALSE /\ ssd = FALSE /\ sot_pending = FALSE
  /\ request_in_flight = FALSE /\ sp_rot_irq_pending = FALSE /\ pints = {} /\ rot_live = FALSE
  /\ spPc = "run" /\ budget = 0 /\ spSignal = FALSE /\ prev_rot_irq = FALSE
  /\ rotPc = "preboot" /\ rotSignal = FALSE /\ jtagArmed = FALSE /\ fw = "wait"
  /\ sawRx = FALSE /\ sawTx = FALSE
  /\ xfer = 0 /\ clocked = 0 /\ rcvd = 0 /\ kind = "request" /\ degraded = TRUE

-----------------------------------------------------------------------------
(* SP thread: chip select (soc.rs, GPIO PE4).                              *)

SpRuns == spPc = "run"

\* The wait of a new transfer on the previous one's acknowledgement.
CsBlocked == ssa \/ ssd

\* The locals of a wait go out of scope.
EndWait == budget' = 0 /\ spSignal' = FALSE

\* Mutants of AssertCs: stale request bytes survive; the SSA latch is forgotten.
AssertCs_keepsStale(gaveUp) ==
  /\ cs' = TRUE /\ ssa' = TRUE /\ sot_pending' = TRUE
  /\ spPc' = "notify"
  /\ xfer' = xfer + 1 /\ clocked' = 0 /\ rcvd' = 0
  /\ kind' = IF rot_irq THEN "reply" ELSE "request"
  /\ degraded' = (gaveUp \/ ~rot_live)
  /\ EndWait
  /\ UNCHANGED <<fifos, rot_irq, ssd, flags, prev_rot_irq, rotVars>>

AssertCs_noLatch(gaveUp) ==
  /\ mosi' = IF rot_live THEN <<>> ELSE mosi
  /\ cs' = TRUE /\ sot_pending' = TRUE
  /\ spPc' = "notify"
  /\ xfer' = xfer + 1 /\ clocked' = 0 /\ rcvd' = 0
  /\ kind' = IF rot_irq THEN "reply" ELSE "request"
  /\ degraded' = (gaveUp \/ ~rot_live)
  /\ EndWait
  /\ UNCHANGED <<miso, rot_irq, ssa, ssd, flags, prev_rot_irq, rotVars>>

(* CS goes low: drop a dead transaction's bytes, latch SSA and SOT.        *)
AssertCs(gaveUp) ==
  /\ mosi' = IF rot_live THEN <<>> ELSE mosi
  /\ cs' = TRUE /\ ssa' = TRUE /\ sot_pending' = TRUE
  /\ spPc' = "notify"
  /\ xfer' = xfer + 1 /\ clocked' = 0 /\ rcvd' = 0
  /\ kind' = IF rot_irq THEN "reply" ELSE "request"
  /\ degraded' = (gaveUp \/ ~rot_live)
  /\ EndWait
  /\ UNCHANGED <<miso, rot_irq, ssd, flags, prev_rot_irq, rotVars>>

StartWait(where) ==
  /\ spPc' = where /\ budget' = StallBudget /\ spSignal' = FALSE
  /\ UNCHANGED <<fifos, wires, flags, prev_rot_irq, rotVars, xfer, clocked, rcvd, kind, degraded>>

GpioCsAssert ==
  /\ SpRuns /\ ~cs /\ xfer < MaxXfers
  /\ IF rot_live /\ CsBlocked
     THEN StartWait("csw")
     ELSE AssertCs(FALSE)

GpioCsDeassert ==
  /\ SpRuns /\ cs
  /\ cs' = FALSE /\ ssd' = TRUE
  /\ spPc' = "notify"
  /\ UNCHANGED <<fifos, rot_irq, ssa, sot_pending, flags, budget, spSignal, prev_rot_irq,
                 rotVars, history>>

-----------------------------------------------------------------------------
(* SP thread: the SPI master's TXDR (sprot.rs), one byte out and one in.   *)

\* Mutant of Tx2Blocked: the reply phase is not paced.
Tx2Blocked_never == FALSE

Tx2Blocked == rot_irq /\ cs /\ miso = 0
Tx1Blocked == ~rot_irq /\ Len(mosi) >= FifoBytes

\* Mutant of ClockByte: the drop on a full FIFO is missing.
ClockByte_noDrop(gaveUp) ==
  /\ mosi' = Append(mosi, <<xfer, clocked>>)
  /\ miso' = IF miso > 0 THEN miso - 1 ELSE 0
  /\ clocked' = clocked + 1
  /\ degraded' = (degraded \/ gaveUp)
  /\ spPc' = "notify"
  /\ EndWait
  /\ UNCHANGED <<wires, flags, prev_rot_irq, rotVars, xfer, rcvd, kind>>

ClockByte(gaveUp) ==
  /\ mosi' = IF Len(mosi) < FifoBytes THEN Append(mosi, <<xfer, clocked>>) ELSE mosi
  /\ miso' = IF miso > 0 THEN miso - 1 ELSE 0
  /\ clocked' = clocked + 1
  /\ degraded' = (degraded \/ gaveUp)
  /\ spPc' = "notify"
  /\ EndWait
  /\ UNCHANGED <<wires, flags, prev_rot_irq, rotVars, xfer, rcvd, kind>>

TxdrWrite ==
  /\ SpRuns /\ cs /\ clocked < MaxClocks
  /\ IF rot_live /\ Tx2Blocked THEN StartWait("tx2")
     ELSE IF rot_live /\ Tx1Blocked THEN StartWait("tx1")
     ELSE ClockByte(FALSE)

-----------------------------------------------------------------------------
(* SP thread: one return from wait_sp, by a notify or by WAIT_STEP_MS.     *)
(* Either costs one iteration of the budget.                               *)

\* Mutant of KeepWaiting: the budget is never spent.
KeepWaiting_free ==
  /\ spSignal' = FALSE
  /\ UNCHANGED <<fifos, wires, flags, spPc, budget, prev_rot_irq, rotVars, xfer, clocked, rcvd,
                 kind, degraded>>

KeepWaiting ==
  /\ budget' = budget - 1 /\ spSignal' = FALSE
  /\ UNCHANGED <<fifos, wires, flags, spPc, prev_rot_irq, rotVars, xfer, clocked, rcvd, kind,
                 degraded>>

StallStep(where, blocked) ==
  /\ spPc = where
  /\ blocked /\ budget > 1
  /\ KeepWaiting

CsStallEnd ==
  /\ spPc = "csw" /\ (~CsBlocked \/ budget <= 1)
  /\ AssertCs(CsBlocked)

Tx2StallEnd ==
  /\ spPc = "tx2" /\ (~Tx2Blocked \/ budget <= 1)
  /\ IF Tx1Blocked THEN StartWait("tx1")
     ELSE ClockByte(Tx2Blocked)

Tx1StallEnd ==
  /\ spPc = "tx1" /\ (~Tx1Blocked \/ budget <= 1)
  /\ ClockByte(Tx1Blocked)

WaitSpReturns ==
  \/ StallStep("csw", CsBlocked) \/ CsStallEnd
  \/ StallStep("tx2", Tx2Blocked) \/ Tx2StallEnd
  \/ StallStep("tx1", Tx1Blocked) \/ Tx1StallEnd

(* The link's wake_rot, after the lock is dropped.                         *)
WakeRot ==
  /\ spPc = "notify"
  /\ spPc' = "run"
  /\ rotSignal' = (rotSignal \/ rotPc = "parked")
  /\ UNCHANGED <<fifos, wires, flags, budget, spSignal, prev_rot_irq, rotPc, jtagArmed, fw,
                 sawRx, sawTx, history>>

-----------------------------------------------------------------------------
(* SP thread: the serve loop between two bursts (gdb.rs).                  *)

(* A self-reset or a probe attach posts a PINT edge for the RoT thread.    *)
PostPint(line) ==
  /\ SpRuns /\ line \notin pints
  /\ pints' = pints \cup {line}
  /\ spPc' = "notify"
  /\ UNCHANGED <<fifos, wires, request_in_flight, sp_rot_irq_pending, rot_live, budget,
                 spSignal, prev_rot_irq, rotVars, history>>

(* ROT_IRQ -> EXTI: sample the level, latch the pending bit and pend the   *)
(* IRQ on an edge; an idle core with no IRQ pending goes on to park.       *)
SampleRotIrq(idle) ==
  /\ SpRuns /\ SpIdles
  /\ prev_rot_irq' = rot_irq
  /\ sp_rot_irq_pending' = (sp_rot_irq_pending \/ rot_irq # prev_rot_irq)
  /\ spPc' = IF idle /\ rot_irq = prev_rot_irq THEN "sampled" ELSE "run"
  /\ UNCHANGED <<fifos, wires, request_in_flight, pints, rot_live, budget, spSignal, rotVars,
                 history>>

ParkSp ==
  /\ spPc = "sampled"
  /\ spPc' = "idle" /\ spSignal' = FALSE
  /\ UNCHANGED <<fifos, wires, flags, budget, prev_rot_irq, rotVars, history>>

UnparkSp ==
  /\ spPc = "idle"
  /\ spPc' = "run" /\ spSignal' = FALSE
  /\ UNCHANGED <<fifos, wires, flags, budget, prev_rot_irq, rotVars, history>>

(* The sys task's write-1-clear of EXTI CPUPR1.                            *)
ExtiClear ==
  /\ SpRuns /\ sp_rot_irq_pending
  /\ sp_rot_irq_pending' = FALSE
  /\ UNCHANGED <<fifos, wires, request_in_flight, pints, rot_live, spVars, rotVars, history>>

-----------------------------------------------------------------------------
(* RoT thread: register accesses of the firmware (sprot.rs).               *)

RotRuns == rotPc = "run"

FifoStat ==
  /\ RotRuns /\ fw \in {"xfer", "clean"}
  /\ sawRx' = (Len(mosi) >= 2) /\ sawTx' = (miso < FifoBytes)
  /\ <<sawRx', sawTx'>> # <<sawRx, sawTx>>
  /\ UNCHANGED <<fifos, wires, flags, spVars, rotPc, rotSignal, jtagArmed, fw, history>>

FifoRd ==
  /\ RotRuns /\ fw = "xfer" /\ sawRx /\ ~rot_irq
  /\ request_in_flight' = TRUE
  /\ mosi' = IF Len(mosi) >= 2 THEN SubSeq(mosi, 3, Len(mosi)) ELSE <<>>
  /\ rcvd' = rcvd + 2
  /\ sot_pending' = FALSE
  /\ sawRx' = FALSE
  /\ rotPc' = "notify"
  /\ UNCHANGED <<miso, cs, rot_irq, ssa, ssd, sp_rot_irq_pending, pints, rot_live, spVars,
                 rotSignal, jtagArmed, fw, sawTx, xfer, clocked, kind, degraded>>

FifoWr ==
  /\ RotRuns /\ sawTx
  /\ \/ fw = "xfer" /\ rot_irq
     \/ fw = "clean" /\ ~rot_irq
  /\ miso' = miso + 2
  /\ sawTx' = FALSE
  /\ rotPc' = "notify"
  /\ UNCHANGED <<mosi, wires, flags, spVars, rotSignal, jtagArmed, fw, sawRx, history>>

(* FIFOCFG: EMPTYTX and EMPTYRX.                                           *)
FifoCfg(tx, rx) ==
  /\ RotRuns /\ fw = "clean" /\ (tx \/ rx)
  /\ miso' = IF tx THEN 0 ELSE miso
  /\ mosi' = IF rx THEN <<>> ELSE mosi
  /\ rotPc' = "notify"
  /\ UNCHANGED <<wires, flags, spVars, rotSignal, jtagArmed, fw, sawRx, sawTx, history>>

(* STAT write-1-clear of SSA and SSD.                                      *)
StatClear(a, d) ==
  /\ RotRuns
  /\ \/ fw = "clean" /\ (a \/ d)
     \/ fw = "xfer" /\ a /\ ~d /\ ssa
  /\ ssa' = (ssa /\ ~a) /\ ssd' = (ssd /\ ~d)
  /\ fw' = IF fw = "clean" /\ ~ssa' /\ ~ssd' THEN "wait" ELSE fw
  /\ rotPc' = "notify"
  /\ UNCHANGED <<fifos, cs, rot_irq, sot_pending, flags, spVars, rotSignal, jtagArmed, sawRx,
                 sawTx, history>>

(* LpcGpio::refresh: the firmware moves rot-irq (P0_18).                   *)
SetRotIrq(asserted) ==
  /\ RotRuns /\ fw = "clean" /\ asserted # rot_irq
  /\ rot_irq' = asserted
  /\ request_in_flight' = (request_in_flight /\ ~asserted)
  /\ rotPc' = "notify"
  /\ UNCHANGED <<fifos, cs, ssa, ssd, sot_pending, sp_rot_irq_pending, pints, rot_live, spVars,
                 rotSignal, jtagArmed, fw, sawRx, sawTx, history>>

(* The link's wake_sp, after the lock is dropped.                          *)
WakeSp ==
  /\ rotPc = "notify"
  /\ rotPc' = "run"
  /\ spSignal' = (spSignal \/ spPc \in SpWaits)
  /\ UNCHANGED <<fifos, wires, flags, spPc, budget, prev_rot_irq, rotSignal, jtagArmed, fw,
                 sawRx, sawTx, history>>

(* The firmware notices the latched slave-select events.                   *)
SeeSsa ==
  /\ RotRuns /\ fw = "wait" /\ ssa
  /\ fw' = "xfer" /\ sawRx' = FALSE /\ sawTx' = FALSE
  /\ UNCHANGED <<fifos, wires, flags, spVars, rotPc, rotSignal, jtagArmed, history>>

SeeSsd ==
  /\ RotRuns /\ fw = "xfer" /\ ssd
  /\ fw' = "clean"
  /\ UNCHANGED <<fifos, wires, flags, spVars, rotPc, rotSignal, jtagArmed, sawRx, sawTx, history>>

ArmJtag ==
  /\ RotRuns /\ ~jtagArmed /\ "jtag" \in PintLines
  /\ jtagArmed' = TRUE
  /\ UNCHANGED <<fifos, wires, flags, spVars, rotPc, rotSignal, fw, sawRx, sawTx, history>>

-----------------------------------------------------------------------------
(* RoT thread: its loop (gdb.rs, rot_thread_main).                         *)

GoLive ==
  /\ rotPc = "preboot"
  /\ rotPc' = "run" /\ rot_live' = TRUE
  /\ UNCHANGED <<fifos, wires, request_in_flight, sp_rot_irq_pending, pints, spVars, rotSignal,
                 jtagArmed, fw, sawRx, sawTx, history>>

(* Top of the loop: take sp_reset_pint, take jtag_pint once it is armed.   *)
ConsumePints ==
  /\ RotRuns
  /\ pints' = {l \in pints : l = "jtag" /\ ~jtagArmed}
  /\ pints' # pints
  /\ UNCHANGED <<fifos, wires, request_in_flight, sp_rot_irq_pending, rot_live, spVars, rotVars,
                 history>>

(* The core reaches WFI with nothing for it to do.                         *)
RotIdles ==
  /\ RotRuns /\ fw = "wait" /\ ~ssa
  /\ rotPc' = "idled"
  /\ UNCHANGED <<fifos, wires, flags, spVars, rotSignal, jtagArmed, fw, sawRx, sawTx, history>>

Quiet == ~(ssa \/ cs \/ rot_irq \/ request_in_flight \/ pints # {})

\* Mutant of ParkRot: the check is made, the lock dropped, and only then the wait.
ParkRot_unguarded ==
  /\ rotPc = "idled"
  /\ rotPc' = "parked"
  /\ rotSignal' = FALSE
  /\ UNCHANGED <<fifos, wires, flags, spVars, jtagArmed, fw, sawRx, sawTx, history>>

(* Check and wait under one guard.                                         *)
ParkRot ==
  /\ rotPc = "idled"
  /\ rotPc' = IF Quiet THEN "parked" ELSE "run"
  /\ rotSignal' = FALSE
  /\ UNCHANGED <<fifos, wires, flags, spVars, jtagArmed, fw, sawRx, sawTx, history>>

UnparkRot ==
  /\ rotPc = "parked" /\ rotSignal
  /\ rotPc' = "run" /\ rotSignal' = FALSE
  /\ UNCHANGED <<fifos, wires, flags, spVars, jtagArmed, fw, sawRx, sawTx, history>>

UnparkRotTimeout ==
  /\ rotPc = "parked"
  /\ rotPc' = "run" /\ rotSignal' = FALSE
  /\ UNCHANGED <<fifos, wires, flags, spVars, jtagArmed, fw, sawRx, sawTx, history>>

-----------------------------------------------------------------------------
SpStep ==
  \/ GpioCsAssert \/ GpioCsDeassert \/ TxdrWrite
  \/ WaitSpReturns \/ WakeRot
  \/ \E line \in PintLines : PostPint(line)
  \/ \E idle \in BOOLEAN : SampleRotIrq(idle)
  \/ ParkSp \/ UnparkSp \/ ExtiClear

RotStep ==
  \/ FifoStat \/ FifoRd \/ FifoWr
  \/ \E tx, rx \in BOOLEAN : FifoCfg(tx, rx)
  \/ \E a, d \in BOOLEAN : StatClear(a, d)
  \/ \E asserted \in BOOLEAN : SetRotIrq(asserted)
  \/ WakeSp \/ SeeSsa \/ SeeSsd \/ ArmJtag
  \/ GoLive \/ ConsumePints \/ RotIdles \/ ParkRot \/ UnparkRot \/ UnparkRotTimeout

Next == SpStep \/ RotStep

Spec == Init /\ [][Next]_vars

(* Each thread keeps running and a bounded wait ends.  Nothing is assumed  *)
(* of the RoT's park timeout: a parked RoT comes back only when notified.  *)
(* The firmware's clean up is finite, so it gets to acknowledge.           *)
Fairness ==
  /\ WF_vars(WaitSpReturns) /\ WF_vars(WakeRot)
  /\ WF_vars(GoLive) /\ WF_vars(WakeSp) /\ WF_vars(ParkRot) /\ WF_vars(UnparkRot)
  /\ SF_vars(SeeSsa) /\ SF_vars(SeeSsd) /\ SF_vars(StatClear(TRUE, TRUE))

FairSpec == Spec /\ Fairness
-----------------------------------------------------------------------------
(* Properties.                                                             *)

(* Wires and latches of the link.                                          *)
WiresOK ==
  /\ cs \in BOOLEAN /\ rot_irq \in BOOLEAN /\ ssa \in BOOLEAN /\ ssd \in BOOLEAN
  /\ sot_pending \in BOOLEAN

(* Its other flags, and those of the SP thread.                            *)
FlagsOK ==
  /\ request_in_flight \in BOOLEAN /\ sp_rot_irq_pending \in BOOLEAN /\ rot_live \in BOOLEAN
  /\ spSignal \in BOOLEAN /\ prev_rot_irq \in BOOLEAN

(* Flags of the RoT thread and of the history.                             *)
RotFlagsOK ==
  /\ rotSignal \in BOOLEAN /\ jtagArmed \in BOOLEAN
  /\ sawRx \in BOOLEAN /\ sawTx \in BOOLEAN
  /\ degraded \in BOOLEAN

(* Buffers and counters, in their ranges.                                  *)
DataOK ==
  /\ mosi \in Seq(Bytes) /\ miso \in Nat
  /\ pints \subseteq PintLines
  /\ budget \in 0..StallBudget
  /\ xfer \in 0..MaxXfers /\ clocked \in 0..MaxClocks /\ rcvd \in Nat

(* Where the two threads and the RoT firmware are.                         *)
PcOK ==
  /\ spPc \in SpWaits \cup {"run", "notify", "sampled"}
  /\ rotPc \in {"preboot", "run", "notify", "idled", "parked"}
  /\ fw \in {"wait", "xfer", "clean"}
  /\ kind \in {"request", "reply"}

(* Every variable keeps its type; the link's counters stay in their        *)
(* ranges (struct SprotLink and the locals of the two thread loops).       *)
TypeOK == WiresOK /\ FlagsOK /\ RotFlagsOK /\ DataOK /\ PcOK

(* The bound the bridge really keeps: the request FIFO never exceeds its   *)
(* depth, and the reply FIFO, filled two bytes at a time behind a "not     *)
(* full" poll, exceeds it by at most one byte, whoever drains in between.  *)
FifoBound == Len(mosi) <= FifoBytes /\ miso <= FifoBytes + 1

(* The RoT thread checks for work and waits under one guard, so it is      *)
(* never left parked with work owed and no notify on its way.              *)
NoLostWakeup == (rotPc = "parked" /\ ~Quiet) => (rotSignal \/ spPc = "notify")

(* A request transfer that did not exhaust a stall budget reaches the RoT  *)
(* whole: each FIFORD pops the next two bytes of this transfer, in order,  *)
(* and the first frame, and only the first, carries SOT.                   *)
InOrderDelivery ==
  [][(rcvd' > rcvd /\ kind = "request" /\ ~degraded)
     => /\ Len(mosi) >= 2
        /\ mosi[1] = <<xfer, rcvd>> /\ mosi[2] = <<xfer, rcvd + 1>>
        /\ sot_pending <=> (rcvd = 0)]_vars

(* Within a reply transfer the master never clocks a zero in place of a    *)
(* reply byte unless the refill wait gave up ("would clock a zero into the *)
(* response and corrupt its CRC", TXDR phase 2).                           *)
ReplyNoUnderrun ==
  [][(clocked' > clocked /\ kind = "reply" /\ ~degraded') => miso > 0]_vars

(* A stalled SP thread always gets back to running, even against a RoT     *)
(* thread that parks and whose park timeout never fires.                   *)
SpUnblocks == (spPc \in {"csw", "tx1", "tx2"}) ~> (spPc = "run")

(* The end of a transfer is acknowledged unless the exchange degraded: the *)
(* RoT cannot sleep through an assert / clock / deassert cycle.            *)
SsdServed == (ssd /\ ~degraded) ~> (~ssd \/ degraded)
-----------------------------------------------------------------------------
(* The parts of the inductive invariant behind those properties.           *)

(* What a blocked store still knows when its wait returns.                 *)
WaitInv ==
  /\ spPc = "csw" => ~cs /\ rot_live /\ xfer < MaxXfers
  /\ spPc \in {"tx2", "tx1"} => cs /\ rot_live /\ clocked < MaxClocks

(* A poll that saw room still has it when FIFOWR acts on it.               *)
RoomInv == FifoBound /\ (sawTx => miso < FifoBytes)

(* The RoT firmware is never ahead of the wires.                           *)
PhaseInv ==
  /\ fw = "clean" => ssa \/ ssd
  /\ fw = "xfer" => cs \/ ssd
  /\ fw = "wait" /\ ssa => cs \/ ssd

(* The RoT has not reached the end of the transfer whose bytes it reads.   *)
Receiving == fw = "xfer" \/ (fw = "wait" /\ ssa)

(* While a paced transfer is being clocked the RoT neither cleans up nor   *)
(* moves rot-irq.                                                          *)
PacedInv ==
  /\ (~degraded /\ cs) => Receiving /\ ~ssd /\ rot_live
  /\ (~degraded /\ cs /\ kind = "reply") => rot_irq
  /\ spPc = "tx1" /\ kind = "reply" => degraded
  /\ (~degraded /\ Receiving /\ kind = "request") => ~rot_irq

(* A FIFO's bytes are those of transfer x from position r on.              *)
Stream(q, x, r) == \A i \in 1..Len(q) : q[i] = <<x, r + i - 1>>

(* The request FIFO holds exactly the bytes clocked and not yet read.      *)
StreamInv ==
  (~degraded /\ Receiving /\ kind = "request") =>
    /\ rcvd + Len(mosi) = clocked
    /\ Stream(mosi, xfer, rcvd)
    /\ sot_pending <=> (rcvd = 0)
    /\ fw = "wait" => rcvd = 0
    /\ fw = "xfer" /\ sawRx => Len(mosi) >= 2

IInv == TypeOK /\ WaitInv /\ RoomInv /\ NoLostWakeup /\ PhaseInv /\ PacedInv /\ StreamInv
-----------------------------------------------------------------------------
(* What a comment of the code says, and the code does not do.              *)

(* gdb.rs, the idle park: "Park on the link so RoT progress (rot-irq edge, *)
(* SWD requests) wakes the SP at once instead of after idle_ms".  The edge *)
(* is sampled under one lock and the wait taken under another.             *)
ParkedSpIsWoken == (spPc = "idle" /\ rot_irq # prev_rot_irq) => (spSignal \/ rotPc = "notify")
=============================================================================
