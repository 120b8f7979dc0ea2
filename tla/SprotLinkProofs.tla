--------------------------- MODULE SprotLinkProofs ---------------------------
(***************************************************************************)
(* Proofs about the sprot link: for every FIFO depth, stall budget and     *)
(* number of transfers, the inductive invariant IInv and what follows from *)
(* it.                                                                     *)
(***************************************************************************)
EXTENDS SprotLink, SequenceTheorems, TLAPS

USE FifoAssumption, BudgetAssumption, BoundAssumption, LineAssumption

(* What a step of the SP thread is, once the conditions of the stores and  *)
(* waits are resolved: a wait begins or goes on, a transfer is opened or   *)
(* closed, a byte is clocked, or the link's data is left alone.            *)
SpMoves ==
  \/ StartWait("csw") /\ ~cs /\ rot_live /\ xfer < MaxXfers
  \/ StartWait("tx2") /\ cs /\ rot_live /\ clocked < MaxClocks
  \/ StartWait("tx1") /\ cs /\ rot_live /\ clocked < MaxClocks /\ ~rot_irq
  \/ AssertCs(FALSE) /\ ~cs /\ xfer < MaxXfers /\ (rot_live => ~ssa /\ ~ssd)
  \/ AssertCs(TRUE) /\ ~cs /\ xfer < MaxXfers
  \/ ClockByte(FALSE) /\ cs /\ clocked < MaxClocks
       /\ (rot_live => (rot_irq => miso # 0 \/ spPc = "tx1") /\ (~rot_irq => Len(mosi) < FifoBytes))
  \/ ClockByte(TRUE) /\ cs /\ clocked < MaxClocks
  \/ KeepWaiting /\ budget > 1
  \/ GpioCsDeassert
  \/ WakeRot
  \/ \E line \in PintLines : PostPint(line)
  \/ \E idle \in BOOLEAN : SampleRotIrq(idle)
  \/ ParkSp \/ UnparkSp \/ ExtiClear

(* Every step of the SP thread is one of those.                            *)
LEMMA SpStepMoves ==
  ASSUME TypeOK, WaitInv, SpStep
  PROVE  SpMoves
<1>0. Len(mosi) \in Nat /\ (~(Len(mosi) >= FifoBytes) => Len(mosi) < FifoBytes)
  BY DEF TypeOK, DataOK
<1>1. CASE GpioCsAssert
  BY <1>1 DEF GpioCsAssert, SpMoves, CsBlocked, SpRuns
<1>2. CASE TxdrWrite
  BY <1>0, <1>2 DEF TxdrWrite, SpMoves, Tx2Blocked, Tx1Blocked, SpRuns
<1>3. CASE CsStallEnd
  <2>1. CASE CsBlocked
    BY <1>3, <2>1 DEF CsStallEnd, AssertCs, SpMoves, WaitInv
  <2>2. CASE ~CsBlocked
    BY <1>3, <2>2 DEF CsStallEnd, AssertCs, SpMoves, WaitInv, CsBlocked
  <2> QED BY <2>1, <2>2
<1>4. CASE Tx2StallEnd
  <2>1. CASE Tx1Blocked
    BY <1>4, <2>1 DEF Tx2StallEnd, SpMoves, WaitInv, Tx1Blocked
  <2>2. CASE ~Tx1Blocked /\ Tx2Blocked
    BY <1>4, <2>2 DEF Tx2StallEnd, ClockByte, SpMoves, WaitInv
  <2>3. CASE ~Tx1Blocked /\ ~Tx2Blocked
    <3>1. ClockByte(FALSE) /\ cs /\ clocked < MaxClocks
      BY <1>4, <2>3 DEF Tx2StallEnd, ClockByte, WaitInv
    <3> QED BY <1>0, <2>3, <3>1 DEF SpMoves, Tx2Blocked, Tx1Blocked
  <2> QED BY <2>1, <2>2, <2>3
<1>5. CASE Tx1StallEnd
  <2>1. CASE Tx1Blocked
    BY <1>5, <2>1 DEF Tx1StallEnd, ClockByte, SpMoves, WaitInv
  <2>2. CASE ~Tx1Blocked
    <3>1. ClockByte(FALSE) /\ cs /\ clocked < MaxClocks /\ spPc = "tx1"
      BY <1>5, <2>2 DEF Tx1StallEnd, ClockByte, WaitInv
    <3> QED BY <1>0, <2>2, <3>1 DEF SpMoves, Tx1Blocked
  <2> QED BY <2>1, <2>2
<1>6. CASE \/ StallStep("csw", CsBlocked) \/ StallStep("tx2", Tx2Blocked)
           \/ StallStep("tx1", Tx1Blocked)
  BY <1>6 DEF StallStep, SpMoves
<1>7. CASE \/ GpioCsDeassert \/ WakeRot \/ ParkSp \/ UnparkSp \/ ExtiClear
           \/ (\E line \in PintLines : PostPint(line))
           \/ \E idle \in BOOLEAN : SampleRotIrq(idle)
  BY <1>7 DEF SpMoves
<1> QED
  BY <1>1, <1>2, <1>3, <1>4, <1>5, <1>6, <1>7 DEF SpStep, WaitSpReturns

-----------------------------------------------------------------------------
(* Types.                                                                  *)

(* The initial state is well typed.                                        *)
LEMMA TypeInit == Init => TypeOK
<1>1. Init => WiresOK /\ FlagsOK
  BY DEF Init, WiresOK, FlagsOK
<1>2. Init => RotFlagsOK
  BY DEF Init, RotFlagsOK
<1>3. Init => DataOK
  BY DEF Init, DataOK
<1>4. Init => PcOK
  BY DEF Init, PcOK, SpWaits
<1> QED
  BY <1>1, <1>2, <1>3, <1>4 DEF TypeOK

(* The SP thread keeps the types.                                          *)
LEMMA TypeSp ==
  ASSUME TypeOK, SpMoves
  PROVE  TypeOK'
<1> USE DEF TypeOK
<1>1. WiresOK'
  BY DEF SpMoves, WiresOK, wires, StartWait, AssertCs, ClockByte, KeepWaiting, GpioCsDeassert,
         WakeRot, PostPint, SampleRotIrq, ParkSp, UnparkSp, ExtiClear
<1>2. FlagsOK'
  <2>1. ASSUME NEW i \in BOOLEAN, SampleRotIrq(i) PROVE FlagsOK'
    <3>1. prev_rot_irq' \in BOOLEAN /\ sp_rot_irq_pending' \in BOOLEAN
      BY <2>1 DEF FlagsOK, WiresOK, SampleRotIrq
    <3> QED BY <2>1, <3>1 DEF FlagsOK, SampleRotIrq
  <2>2. CASE ParkSp \/ UnparkSp \/ ExtiClear \/ WakeRot \/ KeepWaiting \/ GpioCsDeassert
    BY <2>2 DEF FlagsOK, flags, spVars, ParkSp, UnparkSp, ExtiClear, WakeRot, KeepWaiting,
                GpioCsDeassert
  <2>3. ASSUME NEW g \in BOOLEAN, AssertCs(g) \/ ClockByte(g) PROVE FlagsOK'
    BY <2>3 DEF FlagsOK, flags, AssertCs, ClockByte, EndWait
  <2>4. ASSUME NEW w, StartWait(w) PROVE FlagsOK'
    BY <2>4 DEF FlagsOK, flags, StartWait
  <2>5. ASSUME NEW l \in PintLines, PostPint(l) PROVE FlagsOK'
    BY <2>5 DEF FlagsOK, PostPint
  <2> QED BY <2>1, <2>2, <2>3, <2>4, <2>5 DEF SpMoves
<1>3. RotFlagsOK'
  BY DEF SpMoves, RotFlagsOK, FlagsOK, rotVars, history, StartWait, AssertCs, ClockByte,
         KeepWaiting, GpioCsDeassert, WakeRot, PostPint, SampleRotIrq, ParkSp, UnparkSp,
         ExtiClear, EndWait
<1>4. DataOK'
  <2>1. ASSUME NEW w, StartWait(w) PROVE DataOK'
    BY <2>1 DEF DataOK, StartWait, fifos, flags
  <2>2. ASSUME NEW g \in BOOLEAN, AssertCs(g), xfer < MaxXfers PROVE DataOK'
    BY <2>2 DEF DataOK, AssertCs, EndWait, flags
  <2>3. ASSUME NEW g \in BOOLEAN, ClockByte(g), clocked < MaxClocks PROVE DataOK'
    <3>1. <<xfer, clocked>> \in Bytes
      BY DEF DataOK, Bytes
    <3>2. mosi' \in Seq(Bytes)
      BY <2>3, <3>1 DEF DataOK, ClockByte
    <3> QED BY <2>3, <3>2 DEF DataOK, ClockByte, EndWait, flags
  <2>4. CASE KeepWaiting /\ budget > 1
    BY <2>4 DEF DataOK, KeepWaiting, fifos, flags
  <2>5. CASE GpioCsDeassert \/ WakeRot \/ ParkSp \/ UnparkSp \/ ExtiClear
    BY <2>5 DEF DataOK, GpioCsDeassert, WakeRot, ParkSp, UnparkSp, ExtiClear, fifos, flags,
                spVars, history
  <2>6. ASSUME NEW l \in PintLines, PostPint(l) PROVE DataOK'
    BY <2>6 DEF DataOK, PostPint, fifos, history
  <2>7. ASSUME NEW i \in BOOLEAN, SampleRotIrq(i) PROVE DataOK'
    BY <2>7 DEF DataOK, SampleRotIrq, fifos, history
  <2> QED
    BY <2>1, <2>2, <2>3, <2>4, <2>5, <2>6, <2>7 DEF SpMoves
<1>5. PcOK'
  <2>1. spPc' \in SpWaits \cup {"run", "notify", "sampled"}
    BY DEF SpMoves, PcOK, SpWaits, StartWait, AssertCs, ClockByte, KeepWaiting, GpioCsDeassert,
           WakeRot, PostPint, SampleRotIrq, ParkSp, UnparkSp, ExtiClear, spVars
  <2>2. UNCHANGED <<rotPc, fw>>
    BY DEF SpMoves, StartWait, AssertCs, ClockByte, KeepWaiting, GpioCsDeassert, WakeRot,
           PostPint, SampleRotIrq, ParkSp, UnparkSp, ExtiClear, rotVars
  <2>3. kind' \in {"request", "reply"}
    BY DEF SpMoves, PcOK, StartWait, AssertCs, ClockByte, KeepWaiting, GpioCsDeassert, WakeRot,
           PostPint, SampleRotIrq, ParkSp, UnparkSp, ExtiClear, history
  <2> QED BY <2>1, <2>2, <2>3 DEF PcOK, SpWaits
<1> QED
  BY <1>1, <1>2, <1>3, <1>4, <1>5

(* The RoT thread keeps the types.                                         *)
LEMMA TypeRot ==
  ASSUME TypeOK, RotStep
  PROVE  TypeOK'
<1> USE DEF TypeOK
<1>1. WiresOK'
  BY DEF RotStep, WiresOK, wires, FifoStat, FifoRd, FifoWr, FifoCfg, StatClear, SetRotIrq,
         WakeSp, SeeSsa, SeeSsd, ArmJtag, GoLive, ConsumePints, RotIdles, ParkRot, UnparkRot,
         UnparkRotTimeout
<1>2. FlagsOK'
  BY DEF RotStep, FlagsOK, flags, spVars, FifoStat, FifoRd, FifoWr, FifoCfg, StatClear,
         SetRotIrq, WakeSp, SeeSsa, SeeSsd, ArmJtag, GoLive, ConsumePints, RotIdles, ParkRot,
         UnparkRot, UnparkRotTimeout
<1>3. RotFlagsOK'
  <2>1. CASE FifoStat
    BY <2>1 DEF RotFlagsOK, FifoStat, history
  <2>2. CASE FifoRd \/ FifoWr \/ SeeSsa \/ SeeSsd \/ ArmJtag \/ ParkRot
    BY <2>2 DEF RotFlagsOK, FifoRd, FifoWr, SeeSsa, SeeSsd, ArmJtag, ParkRot, history
  <2>3. CASE UnparkRot \/ UnparkRotTimeout
    BY <2>3 DEF RotFlagsOK, UnparkRot, UnparkRotTimeout, history
  <2>4. CASE UNCHANGED <<rotSignal, jtagArmed, sawRx, sawTx, history>>
    BY <2>4 DEF RotFlagsOK, history
  <2>5. \/ FifoStat \/ FifoRd \/ FifoWr \/ SeeSsa \/ SeeSsd \/ ArmJtag
        \/ ParkRot \/ UnparkRot \/ UnparkRotTimeout
        \/ UNCHANGED <<rotSignal, jtagArmed, sawRx, sawTx, history>>
    BY DEF RotStep, FifoCfg, StatClear, SetRotIrq, WakeSp, GoLive, ConsumePints, RotIdles,
           rotVars
  <2> QED BY <2>1, <2>2, <2>3, <2>4, <2>5
<1>4. DataOK'
  <2>1. CASE FifoRd
    <3>1. mosi' \in Seq(Bytes)
      BY <2>1 DEF FifoRd, DataOK
    <3> QED BY <2>1, <3>1 DEF FifoRd, DataOK, spVars
  <2>2. CASE FifoWr
    BY <2>2 DEF FifoWr, DataOK, flags, spVars, history
  <2>3. ASSUME NEW tx \in BOOLEAN, NEW rx \in BOOLEAN, FifoCfg(tx, rx) PROVE DataOK'
    BY <2>3 DEF FifoCfg, DataOK, flags, spVars, history
  <2>4. CASE ConsumePints
    BY <2>4 DEF ConsumePints, DataOK, fifos, spVars, history
  <2>5. CASE UNCHANGED <<fifos, pints, budget, history>>
    BY <2>5 DEF DataOK, fifos, history
  <2>6. \/ FifoRd \/ FifoWr \/ (\E tx, rx \in BOOLEAN : FifoCfg(tx, rx)) \/ ConsumePints
        \/ UNCHANGED <<fifos, pints, budget, history>>
    BY DEF RotStep, flags, spVars, FifoStat, StatClear, SetRotIrq, WakeSp, SeeSsa, SeeSsd,
           ArmJtag, GoLive, RotIdles, ParkRot, UnparkRot, UnparkRotTimeout
  <2> QED BY <2>1, <2>2, <2>3, <2>4, <2>5, <2>6
<1>5. PcOK'
  BY DEF RotStep, PcOK, spVars, rotVars, history, FifoStat, FifoRd, FifoWr, FifoCfg, StatClear,
         SetRotIrq, WakeSp, SeeSsa, SeeSsd, ArmJtag, GoLive, ConsumePints, RotIdles, ParkRot,
         UnparkRot, UnparkRotTimeout
<1> QED
  BY <1>1, <1>2, <1>3, <1>4, <1>5
-----------------------------------------------------------------------------
(* The invariants that need only their own conjunct.                       *)

(* What a blocked store knows survives both threads' steps.                *)
LEMMA WaitStep ==
  ASSUME TypeOK, WaitInv, Next
  PROVE  WaitInv'
<1>1. CASE RotStep
  <2>1. UNCHANGED <<spPc, cs, xfer, clocked>> /\ (rot_live => rot_live')
    BY <1>1 DEF RotStep, wires, flags, spVars, history, FifoStat, FifoRd, FifoWr, FifoCfg,
           StatClear, SetRotIrq, WakeSp, SeeSsa, SeeSsd, ArmJtag, GoLive, ConsumePints, RotIdles,
           ParkRot, UnparkRot, UnparkRotTimeout
  <2> QED BY <2>1 DEF WaitInv
<1>2. CASE SpStep
  <2>1. SpMoves
    BY <1>2, SpStepMoves
  <2> QED BY <2>1 DEF SpMoves, WaitInv, wires, flags, spVars, history, StartWait, AssertCs,
             ClockByte, KeepWaiting, GpioCsDeassert, SpRuns, WakeRot, PostPint, SampleRotIrq, ParkSp,
             UnparkSp, ExtiClear
<1> QED BY <1>1, <1>2 DEF Next

(* The FIFOs keep their bounds: FIFOWR adds two bytes only after a poll    *)
(* that saw room, and between the two the SP can only take bytes out.      *)
LEMMA RoomStep ==
  ASSUME TypeOK, WaitInv, RoomInv, Next
  PROVE  RoomInv'
<1> USE DEF TypeOK, DataOK, RoomInv, FifoBound
<1>1. CASE SpStep
  <2>1. SpMoves
    BY <1>1, SpStepMoves
  <2>2. UNCHANGED sawTx
    BY <2>1 DEF SpMoves, rotVars, StartWait, AssertCs, ClockByte, KeepWaiting, GpioCsDeassert,
           WakeRot, PostPint, SampleRotIrq, ParkSp, UnparkSp, ExtiClear
  <2>3. ASSUME NEW g \in BOOLEAN, AssertCs(g) PROVE RoomInv'
    BY <2>2, <2>3 DEF AssertCs
  <2>4. ASSUME NEW g \in BOOLEAN, ClockByte(g) PROVE RoomInv'
    <3>1. Len(mosi') <= FifoBytes
      BY <2>4 DEF ClockByte
    <3>2. miso' <= miso
      BY <2>4 DEF ClockByte
    <3> QED BY <2>2, <2>4, <3>1, <3>2 DEF ClockByte
  <2>5. CASE UNCHANGED fifos
    BY <2>2, <2>5 DEF fifos
  <2>6. \/ AssertCs(TRUE) \/ AssertCs(FALSE) \/ ClockByte(TRUE) \/ ClockByte(FALSE)
        \/ UNCHANGED fifos
    BY <2>1 DEF SpMoves, StartWait, KeepWaiting, GpioCsDeassert, WakeRot, PostPint,
           SampleRotIrq, ParkSp, UnparkSp, ExtiClear
  <2> QED BY <2>3, <2>4, <2>5, <2>6
<1>2. CASE RotStep
  <2>1. CASE FifoStat
    BY <2>1 DEF FifoStat, fifos
  <2>2. CASE FifoRd
    <3>1. Len(mosi') <= FifoBytes
      BY <2>2 DEF FifoRd
    <3> QED BY <2>2, <3>1 DEF FifoRd
  <2>3. CASE FifoWr
    BY <2>3 DEF FifoWr
  <2>4. ASSUME NEW tx \in BOOLEAN, NEW rx \in BOOLEAN, FifoCfg(tx, rx) PROVE RoomInv'
    BY <2>4 DEF FifoCfg
  <2>5. CASE SeeSsa
    BY <2>5 DEF SeeSsa, fifos
  <2>6. CASE UNCHANGED <<fifos, sawTx>>
    BY <2>6 DEF fifos
  <2>7. \/ FifoStat \/ FifoRd \/ FifoWr \/ SeeSsa \/ UNCHANGED <<fifos, sawTx>>
        \/ \E tx, rx \in BOOLEAN : FifoCfg(tx, rx)
    BY <1>2 DEF RotStep, rotVars, StatClear, SetRotIrq, WakeSp, SeeSsd, ArmJtag, GoLive,
           ConsumePints, RotIdles, ParkRot, UnparkRot, UnparkRotTimeout
  <2> QED BY <2>1, <2>2, <2>3, <2>4, <2>5, <2>6, <2>7
<1> QED BY <1>1, <1>2 DEF Next

(* The RoT parks only when it sees nothing to do, and every SP step that   *)
(* gives it something to do owes it a notify.                              *)
LEMMA WakeupStep ==
  ASSUME TypeOK, WaitInv, NoLostWakeup, Next
  PROVE  NoLostWakeup'
<1> USE DEF NoLostWakeup, Quiet
<1>1. CASE SpStep
  <2>1. SpMoves
    BY <1>1, SpStepMoves
  <2>2. UNCHANGED <<rotPc, rot_irq, request_in_flight>>
    BY <2>1 DEF SpMoves, wires, flags, rotVars, StartWait, AssertCs, ClockByte, KeepWaiting,
           GpioCsDeassert, WakeRot, PostPint, SampleRotIrq, ParkSp, UnparkSp, ExtiClear
  <2>3. CASE WakeRot
    BY <2>2, <2>3 DEF WakeRot
  <2>4. CASE spPc' = "notify" /\ ~WakeRot
    BY <2>4
  <2>5. CASE UNCHANGED <<rotSignal, ssa, cs, pints>> /\ spPc # "notify"
    BY <2>2, <2>5
  <2>6. CASE KeepWaiting
    BY <2>2, <2>6 DEF KeepWaiting, wires, flags, rotVars
  <2>7. \/ WakeRot \/ spPc' = "notify" \/ KeepWaiting
        \/ UNCHANGED <<rotSignal, ssa, cs, pints, spPc>>
        \/ UNCHANGED <<rotSignal, ssa, cs, pints>> /\ spPc # "notify"
    BY <1>1 DEF SpStep, WaitSpReturns, GpioCsAssert, TxdrWrite, CsStallEnd, Tx2StallEnd,
           Tx1StallEnd, StallStep, SpRuns, wires, flags, rotVars, StartWait, AssertCs, ClockByte,
           GpioCsDeassert, PostPint, SampleRotIrq, ParkSp, UnparkSp, ExtiClear, spVars
  <2>8. CASE UNCHANGED <<rotSignal, ssa, cs, pints, spPc>>
    BY <2>2, <2>8
  <2> QED BY <2>3, <2>4, <2>5, <2>6, <2>7, <2>8 DEF WakeRot
<1>2. CASE RotStep
  <2>1. CASE ParkRot
    BY <2>1 DEF ParkRot, wires, flags
  <2>2. rotPc' = "parked" => ParkRot
    BY <1>2 DEF RotStep, FifoStat, FifoRd, FifoWr, FifoCfg, StatClear, SetRotIrq, WakeSp, SeeSsa,
           SeeSsd, ArmJtag, GoLive, ConsumePints, RotIdles, UnparkRot, UnparkRotTimeout, RotRuns,
           rotVars
  <2> QED BY <2>1, <2>2
<1> QED BY <1>1, <1>2 DEF Next

-----------------------------------------------------------------------------
(* The protocol between the two sides.                                     *)

(* The firmware's phase stays behind the wires.                            *)
LEMMA PhaseStep ==
  ASSUME TypeOK, WaitInv, PhaseInv, Next
  PROVE  PhaseInv'
<1> USE DEF PhaseInv
<1>1. CASE SpStep
  <2>1. SpMoves
    BY <1>1, SpStepMoves
  <2>2. UNCHANGED fw
    BY <2>1 DEF SpMoves, rotVars, StartWait, AssertCs, ClockByte, KeepWaiting, GpioCsDeassert,
           WakeRot, PostPint, SampleRotIrq, ParkSp, UnparkSp, ExtiClear
  <2>3. \/ cs' /\ ssa' /\ (ssd' = ssd)
        \/ ssd' /\ (ssa' = ssa)
        \/ UNCHANGED <<cs, ssa, ssd>>
    BY <2>1 DEF SpMoves, wires, StartWait, AssertCs, ClockByte, KeepWaiting, GpioCsDeassert,
           WakeRot, PostPint, SampleRotIrq, ParkSp, UnparkSp, ExtiClear
  <2> QED BY <2>2, <2>3
<1>2. CASE RotStep
  <2>1. ASSUME NEW a \in BOOLEAN, NEW d \in BOOLEAN, StatClear(a, d) PROVE PhaseInv'
    BY <2>1 DEF StatClear, TypeOK, PcOK
  <2>2. CASE SeeSsa \/ SeeSsd
    BY <2>2 DEF SeeSsa, SeeSsd, wires
  <2>3. CASE UNCHANGED <<cs, ssa, ssd, fw>>
    BY <2>3
  <2>4. \/ SeeSsa \/ SeeSsd \/ UNCHANGED <<cs, ssa, ssd, fw>>
        \/ \E a, d \in BOOLEAN : StatClear(a, d)
    BY <1>2 DEF RotStep, wires, rotVars, FifoStat, FifoRd, FifoWr, FifoCfg, SetRotIrq, WakeSp,
           ArmJtag, GoLive, ConsumePints, RotIdles, ParkRot, UnparkRot, UnparkRotTimeout
  <2> QED BY <2>1, <2>2, <2>3, <2>4
<1> QED BY <1>1, <1>2 DEF Next

(* A transfer opened after the last one was acknowledged finds the         *)
(* firmware waiting, and the firmware stays with it until it is closed.    *)
LEMMA PacedStep ==
  ASSUME TypeOK, WaitInv, PhaseInv, PacedInv, Next
  PROVE  PacedInv'
<1> USE DEF PacedInv, Receiving
<1>1. CASE SpStep
  <2>1. SpMoves
    BY <1>1, SpStepMoves
  <2>2. UNCHANGED <<fw, rot_irq, rot_live>>
    BY <2>1 DEF SpMoves, wires, flags, rotVars, StartWait, AssertCs, ClockByte, KeepWaiting,
           GpioCsDeassert, WakeRot, PostPint, SampleRotIrq, ParkSp, UnparkSp, ExtiClear
  <2>3. CASE AssertCs(FALSE) /\ ~cs /\ (rot_live => ~ssa /\ ~ssd)
    <3>1. rot_live => fw = "wait" /\ ~ssd
      BY <2>3 DEF PhaseInv, TypeOK, PcOK
    <3>2. /\ cs' /\ ssa' /\ (ssd' = ssd) /\ spPc' = "notify"
          /\ (~degraded' => rot_live) /\ (kind' = "reply" => rot_irq)
          /\ (kind' = "request" => ~rot_irq)
      BY <2>3 DEF AssertCs
    <3> QED BY <2>2, <3>1, <3>2
  <2>4. CASE AssertCs(TRUE)
    BY <2>4 DEF AssertCs
  <2>5. CASE StartWait("tx1") /\ cs /\ ~rot_irq
    BY <2>2, <2>5 DEF StartWait, wires, TypeOK, RotFlagsOK
  <2>6. CASE GpioCsDeassert
    BY <2>2, <2>6 DEF GpioCsDeassert, SpRuns, history
  <2>7. CASE /\ UNCHANGED <<cs, ssa, ssd, kind>> /\ (degraded => degraded')
             /\ spPc' = "tx1" => spPc = "tx1"
    BY <2>2, <2>7 DEF TypeOK, RotFlagsOK
  <2>8. \/ AssertCs(FALSE) /\ ~cs /\ (rot_live => ~ssa /\ ~ssd)
        \/ AssertCs(TRUE) \/ (StartWait("tx1") /\ cs /\ ~rot_irq) \/ GpioCsDeassert
        \/ /\ UNCHANGED <<cs, ssa, ssd, kind>> /\ (degraded => degraded')
           /\ spPc' = "tx1" => spPc = "tx1"
    <3>1. ASSUME NEW g \in BOOLEAN, ClockByte(g)
          PROVE  UNCHANGED <<cs, ssa, ssd, kind>> /\ (degraded => degraded') /\ spPc' = "notify"
      BY <3>1 DEF ClockByte, wires
    <3>2. CASE \/ StartWait("csw") \/ StartWait("tx2") \/ KeepWaiting \/ WakeRot
               \/ ParkSp \/ UnparkSp \/ ExtiClear
      BY <3>2 DEF StartWait, KeepWaiting, WakeRot, ParkSp, UnparkSp, ExtiClear, wires, history,
                  spVars
    <3>3. CASE (\E l \in PintLines : PostPint(l)) \/ (\E i \in BOOLEAN : SampleRotIrq(i))
      BY <3>3 DEF PostPint, SampleRotIrq, wires, history
    <3>4. CASE \/ AssertCs(FALSE) /\ ~cs /\ (rot_live => ~ssa /\ ~ssd)
               \/ AssertCs(TRUE) \/ (StartWait("tx1") /\ cs /\ ~rot_irq) \/ GpioCsDeassert
      BY <3>4
    <3>5. CASE ClockByte(TRUE) \/ ClockByte(FALSE)
      BY <3>1, <3>5
    <3> QED BY <2>1, <3>2, <3>3, <3>4, <3>5 DEF SpMoves
  <2> QED BY <2>3, <2>4, <2>5, <2>6, <2>7, <2>8
<1>2. CASE RotStep
  <2>1. UNCHANGED <<cs, kind, degraded, spPc>> /\ (rot_live => rot_live')
    BY <1>2 DEF RotStep, wires, flags, spVars, history, FifoStat, FifoRd, FifoWr, FifoCfg,
           StatClear, SetRotIrq, WakeSp, SeeSsa, SeeSsd, ArmJtag, GoLive, ConsumePints, RotIdles,
           ParkRot, UnparkRot, UnparkRotTimeout
  <2>2. ASSUME NEW a \in BOOLEAN, NEW d \in BOOLEAN, StatClear(a, d) PROVE PacedInv'
    BY <2>1, <2>2 DEF StatClear
  <2>3. ASSUME NEW r \in BOOLEAN, SetRotIrq(r) PROVE PacedInv'
    BY <2>1, <2>3 DEF SetRotIrq
  <2>4. CASE SeeSsa \/ SeeSsd
    BY <2>1, <2>4 DEF SeeSsa, SeeSsd, wires
  <2>5. CASE UNCHANGED <<fw, ssa, ssd, rot_irq>>
    BY <2>1, <2>5
  <2>6. \/ SeeSsa \/ SeeSsd \/ UNCHANGED <<fw, ssa, ssd, rot_irq>>
        \/ (\E a, d \in BOOLEAN : StatClear(a, d)) \/ (\E r \in BOOLEAN : SetRotIrq(r))
    BY <1>2 DEF RotStep, wires, rotVars, FifoStat, FifoRd, FifoWr, FifoCfg, WakeSp, ArmJtag,
           GoLive, ConsumePints, RotIdles, ParkRot, UnparkRot, UnparkRotTimeout
  <2> QED BY <2>2, <2>3, <2>4, <2>5, <2>6
<1> QED BY <1>1, <1>2 DEF Next

-----------------------------------------------------------------------------
(* The request stream.                                                     *)

(* Appending the next byte of the transfer extends the stream.             *)
LEMMA StreamAppend ==
  ASSUME NEW q \in Seq(Bytes), NEW r \in Nat, NEW x \in Nat, Stream(q, x, r),
         NEW e \in Bytes, e = <<x, r + Len(q)>>
  PROVE  Stream(Append(q, e), x, r)
<1> DEFINE n == Append(q, e)
<1>1. Len(n) = Len(q) + 1 /\ Len(q) \in Nat
  OBVIOUS
<1>2. n[Len(q) + 1] = e /\ \A i \in 1..Len(q) : n[i] = q[i]
  OBVIOUS
<1> HIDE DEF n
<1>3. ASSUME NEW i \in 1..Len(n) PROVE n[i] = <<x, r + i - 1>>
  <2>1. CASE i = Len(q) + 1
    <3>1. r + Len(q) = r + i - 1
      BY <1>1, <2>1
    <3> QED BY <1>2, <2>1, <3>1
  <2>2. CASE i \in 1..Len(q)
    BY <1>2, <2>2 DEF Stream
  <2> QED BY <1>1, <2>1, <2>2
<1>4. Stream(n, x, r)
  BY <1>3 DEF Stream
<1> QED BY <1>4 DEF n

(* What two bytes fewer means for lengths.                                 *)
LEMMA PopLength ==
  ASSUME NEW m \in Nat, m >= 2, NEW r \in Nat,
         NEW k, k = IF 3 <= m THEN m - 3 + 1 ELSE 0
  PROVE  k = m - 2 /\ (r + 2) + k = r + m
  OBVIOUS

(* Popping two bytes leaves the rest of the stream.                        *)
LEMMA StreamPop ==
  ASSUME NEW q \in Seq(Bytes), NEW r \in Nat, NEW x \in Nat, Len(q) >= 2, Stream(q, x, r),
         NEW n, n = SubSeq(q, 3, Len(q))
  PROVE  (r + 2) + Len(n) = r + Len(q) /\ Stream(n, x, r + 2)
<1>1. Len(q) \in Nat /\ \A i \in 3..Len(q) : q[i] \in Bytes
  OBVIOUS
<1>2. \A i \in 1..(Len(q) - 3 + 1) : n[i] = q[3 + i - 1]
  BY <1>1, SubSeqProperties
<1>3. Len(n) = Len(q) - 2 /\ (r + 2) + Len(n) = r + Len(q)
  <2>1. Len(n) = IF 3 <= Len(q) THEN Len(q) - 3 + 1 ELSE 0
    BY <1>1, SubSeqProperties
  <2> QED BY <1>1, <2>1, PopLength
<1>4. ASSUME NEW i \in 1..Len(n) PROVE n[i] = <<x, (r + 2) + i - 1>>
  <2>1. n[i] = q[i + 2] /\ i + 2 \in 1..Len(q)
    BY <1>1, <1>2, <1>3
  <2>2. r + (i + 2) - 1 = (r + 2) + i - 1
    BY <1>1, <1>3
  <2> QED BY <2>1, <2>2 DEF Stream
<1> QED BY <1>3, <1>4 DEF Stream

(* The RoT's read of two bytes, and every other step, keep the stream.     *)
LEMMA StreamStep ==
  ASSUME TypeOK, WaitInv, PhaseInv, PacedInv, StreamInv, Next
  PROVE  StreamInv'
<1> USE DEF StreamInv, Receiving
<1>1. CASE SpStep
  <2>1. SpMoves
    BY <1>1, SpStepMoves
  <2>2. UNCHANGED <<fw, sawRx, rot_irq, rot_live>>
    BY <2>1 DEF SpMoves, wires, flags, rotVars, StartWait, AssertCs, ClockByte, KeepWaiting,
           GpioCsDeassert, WakeRot, PostPint, SampleRotIrq, ParkSp, UnparkSp, ExtiClear
  <2>3. CASE AssertCs(FALSE) /\ ~cs /\ (rot_live => ~ssa /\ ~ssd)
    <3>1. rot_live => fw = "wait"
      BY <2>3 DEF PhaseInv, TypeOK, PcOK
    <3>2. /\ (~degraded' => rot_live) /\ (rot_live => mosi' = <<>>)
          /\ rcvd' = 0 /\ clocked' = 0 /\ sot_pending'
      BY <2>3 DEF AssertCs
    <3>3. mosi' = <<>> => Len(mosi') = 0 /\ Stream(mosi', xfer', rcvd')
      BY DEF Stream
    <3> QED BY <2>2, <3>1, <3>2, <3>3
  <2>4. CASE AssertCs(TRUE)
    BY <2>4 DEF AssertCs
  <2>5. CASE ClockByte(TRUE)
    BY <2>5 DEF ClockByte
  <2>6. CASE /\ ClockByte(FALSE) /\ cs /\ clocked < MaxClocks
             /\ rot_live => (~rot_irq => Len(mosi) < FifoBytes)
    <3> SUFFICES ASSUME ~degraded', Receiving', kind' = "request"
                 PROVE  StreamInv'
      OBVIOUS
    <3>1. ~degraded /\ Receiving /\ kind = "request"
      BY <2>2, <2>6 DEF ClockByte, wires
    <3>2. rot_live /\ ~rot_irq
      BY <2>6, <3>1 DEF PacedInv
    <3>3. /\ mosi' = Append(mosi, <<xfer, clocked>>) /\ clocked' = clocked + 1
          /\ UNCHANGED <<xfer, rcvd, sot_pending>>
      BY <2>6, <3>2 DEF ClockByte, wires
    <3>4. mosi \in Seq(Bytes) /\ rcvd \in Nat /\ clocked \in Nat /\ xfer \in Nat
          /\ <<xfer, clocked>> \in Bytes
      BY <2>6 DEF TypeOK, DataOK, Bytes
    <3>5. /\ rcvd + Len(mosi') = clocked'
          /\ Stream(mosi', xfer, rcvd)
      <4>1. rcvd + Len(mosi) = clocked /\ Stream(mosi, xfer, rcvd)
        BY <3>1
      <4>2. rcvd + Len(mosi') = clocked + 1 /\ Stream(mosi', xfer, rcvd)
        <5>1. Len(mosi) \in Nat /\ Len(mosi') = Len(mosi) + 1
          BY <3>3, <3>4
        <5>2. rcvd + Len(mosi') = clocked + 1
          BY <3>4, <4>1, <5>1
        <5>3. Stream(Append(mosi, <<xfer, clocked>>), xfer, rcvd)
          <6>1. <<xfer, clocked>> = <<xfer, rcvd + Len(mosi)>>
            BY <4>1
          <6> QED BY <3>4, <4>1, <6>1, StreamAppend
        <5> QED BY <3>3, <5>2, <5>3
      <4> QED BY <3>3, <4>2
    <3>6. Len(mosi') = Len(mosi) + 1 /\ Len(mosi) \in Nat
      BY <3>3, <3>4
    <3> QED BY <2>2, <3>1, <3>3, <3>5, <3>6
  <2>7. CASE UNCHANGED <<mosi, sot_pending, ssa, xfer, clocked, rcvd, kind, degraded>>
    BY <2>2, <2>7
  <2>8. \/ AssertCs(FALSE) /\ ~cs /\ (rot_live => ~ssa /\ ~ssd)
        \/ AssertCs(TRUE) \/ ClockByte(TRUE)
        \/ /\ ClockByte(FALSE) /\ cs /\ clocked < MaxClocks
           /\ rot_live => (~rot_irq => Len(mosi) < FifoBytes)
        \/ UNCHANGED <<mosi, sot_pending, ssa, xfer, clocked, rcvd, kind, degraded>>
    BY <2>1 DEF SpMoves, fifos, wires, history, StartWait, KeepWaiting, GpioCsDeassert, WakeRot,
           PostPint, SampleRotIrq, ParkSp, UnparkSp, ExtiClear
  <2> QED BY <2>3, <2>4, <2>5, <2>6, <2>7, <2>8
<1>2. CASE RotStep
  <2>1. UNCHANGED <<kind, degraded, xfer, clocked>>
    BY <1>2 DEF RotStep, history, FifoStat, FifoRd, FifoWr, FifoCfg, StatClear, SetRotIrq,
           WakeSp, SeeSsa, SeeSsd, ArmJtag, GoLive, ConsumePints, RotIdles, ParkRot, UnparkRot,
           UnparkRotTimeout
  <2>2. CASE FifoRd
    <3> SUFFICES ASSUME ~degraded, fw = "xfer", kind = "request"
                 PROVE  StreamInv'
      BY <2>1, <2>2 DEF FifoRd
    <3>1. Len(mosi) >= 2 /\ mosi \in Seq(Bytes) /\ rcvd \in Nat /\ xfer \in Nat
      BY <2>2 DEF FifoRd, TypeOK, DataOK
    <3>2. /\ mosi' = SubSeq(mosi, 3, Len(mosi)) /\ rcvd' = rcvd + 2
          /\ ~sot_pending' /\ ~sawRx' /\ fw' = "xfer"
      BY <2>2, <3>1 DEF FifoRd
    <3>3. /\ rcvd' + Len(mosi') = rcvd + Len(mosi)
          /\ Stream(mosi', xfer, rcvd')
      <4>1. Stream(mosi, xfer, rcvd)
        OBVIOUS
      <4> QED BY <3>1, <3>2, <4>1, StreamPop
    <3>4. rcvd' # 0
      BY <3>1, <3>2
    <3> QED BY <2>1, <3>2, <3>3, <3>4
  <2>3. CASE FifoStat
    <3>1. UNCHANGED <<mosi, sot_pending, ssa, rcvd, fw>> /\ (sawRx' => Len(mosi) >= 2)
      BY <2>3 DEF FifoStat, fifos, wires, history
    <3> QED BY <2>1, <3>1
  <2>4. CASE SeeSsa
    BY <2>1, <2>4 DEF SeeSsa, fifos, wires, history
  <2>5. CASE SeeSsd \/ (\E tx, rx \in BOOLEAN : FifoCfg(tx, rx))
    BY <2>5 DEF SeeSsd, FifoCfg
  <2>6. ASSUME NEW a \in BOOLEAN, NEW d \in BOOLEAN, StatClear(a, d) PROVE StreamInv'
    BY <2>1, <2>6 DEF StatClear, fifos, history
  <2>7. CASE UNCHANGED <<mosi, sot_pending, ssa, rcvd, fw, sawRx>>
    BY <2>1, <2>7
  <2>8. \/ FifoRd \/ FifoStat \/ SeeSsa \/ SeeSsd \/ (\E tx, rx \in BOOLEAN : FifoCfg(tx, rx))
        \/ (\E a, d \in BOOLEAN : StatClear(a, d))
        \/ UNCHANGED <<mosi, sot_pending, ssa, rcvd, fw, sawRx>>
    BY <1>2 DEF RotStep, fifos, wires, rotVars, history, FifoWr, SetRotIrq, WakeSp, ArmJtag,
           GoLive, ConsumePints, RotIdles, ParkRot, UnparkRot, UnparkRotTimeout
  <2> QED BY <2>2, <2>3, <2>4, <2>5, <2>6, <2>7, <2>8
<1> QED BY <1>1, <1>2 DEF Next

-----------------------------------------------------------------------------
(* The initial state satisfies the invariant: nothing is in flight.        *)
LEMMA IInvInit == Init => IInv
<1> SUFFICES ASSUME Init PROVE IInv
  OBVIOUS
<1>1. TypeOK
  BY TypeInit
<1>2. WaitInv /\ NoLostWakeup /\ PhaseInv /\ PacedInv
  BY DEF Init, WaitInv, NoLostWakeup, PhaseInv, PacedInv, Receiving
<1>3. RoomInv
  BY DEF Init, RoomInv, FifoBound
<1>4. StreamInv
  BY DEF Init, StreamInv
<1> QED BY <1>1, <1>2, <1>3, <1>4 DEF IInv

(* Every step of either thread preserves it.                               *)
LEMMA IInvStep == IInv /\ [Next]_vars => IInv'
<1> SUFFICES ASSUME IInv, [Next]_vars PROVE IInv'
  OBVIOUS
<1>0. TypeOK /\ WaitInv /\ RoomInv /\ NoLostWakeup /\ PhaseInv /\ PacedInv /\ StreamInv
  BY DEF IInv
<1>1. CASE Next
  <2>1. TypeOK'
    BY <1>0, <1>1, SpStepMoves, TypeSp, TypeRot DEF Next
  <2>2. WaitInv' /\ RoomInv'
    BY <1>0, <1>1, WaitStep, RoomStep
  <2>3. NoLostWakeup' /\ PhaseInv'
    BY <1>0, <1>1, WakeupStep, PhaseStep
  <2>4. PacedInv' /\ StreamInv'
    BY <1>0, <1>1, PacedStep, StreamStep
  <2> QED BY <2>1, <2>2, <2>3, <2>4 DEF IInv
<1>2. CASE UNCHANGED vars
  <2> USE <1>0, <1>2 DEF vars, fifos, wires, flags, spVars, rotVars, history
  <2>1. TypeOK'
    BY DEF TypeOK, WiresOK, FlagsOK, RotFlagsOK, DataOK, PcOK
  <2>2. WaitInv' /\ RoomInv'
    BY DEF WaitInv, RoomInv, FifoBound
  <2>3. NoLostWakeup' /\ PhaseInv'
    BY DEF NoLostWakeup, Quiet, PhaseInv
  <2>4. PacedInv'
    BY DEF PacedInv, Receiving
  <2>5. StreamInv'
    BY DEF StreamInv, Receiving, Stream
  <2> QED BY <2>1, <2>2, <2>3, <2>4, <2>5 DEF IInv
<1> QED BY <1>1, <1>2

(* In every reachable state of the link, for every FIFO depth, stall       *)
(* budget and number of transfers, the inductive invariant holds.          *)
THEOREM Invariance == Spec => []IInv
  BY IInvInit, IInvStep, PTL DEF Spec

(* The variables of the link and of its two threads keep their types; the  *)
(* stall budget never underflows.                                          *)
THEOREM TypeCorrect == Spec => []TypeOK
<1>1. IInv => TypeOK
  BY DEF IInv
<1> QED BY <1>1, Invariance, PTL

(* The request FIFO never exceeds SPROT_FIFO_BYTES and the reply FIFO      *)
(* exceeds it by at most one byte.                                         *)
THEOREM FifosBounded == Spec => []FifoBound
<1>1. IInv => FifoBound
  BY DEF IInv, RoomInv
<1> QED BY <1>1, Invariance, PTL

(* The RoT thread is never parked with work owed and no notify coming.     *)
THEOREM NoWakeupLost == Spec => []NoLostWakeup
<1>1. IInv => NoLostWakeup
  BY DEF IInv
<1> QED BY <1>1, Invariance, PTL

(* Only FIFORD counts a byte as received.                                  *)
LEMMA OnlyFifoRdReceives ==
  ASSUME TypeOK, WaitInv, Next, rcvd' > rcvd
  PROVE  FifoRd
<1>1. rcvd \in Nat
  BY DEF TypeOK, DataOK
<1>2. CASE SpStep
  <2>1. SpMoves
    BY <1>2, SpStepMoves
  <2>2. rcvd' = rcvd \/ rcvd' = 0
    BY <2>1 DEF SpMoves, history, StartWait, AssertCs, ClockByte, KeepWaiting, GpioCsDeassert,
           WakeRot, PostPint, SampleRotIrq, ParkSp, UnparkSp, ExtiClear
  <2> QED BY <1>1, <2>2
<1>3. CASE RotStep
  <2>1. FifoRd \/ rcvd' = rcvd
    BY <1>3 DEF RotStep, history, FifoStat, FifoWr, FifoCfg, StatClear, SetRotIrq, WakeSp,
           SeeSsa, SeeSsd, ArmJtag, GoLive, ConsumePints, RotIdles, ParkRot, UnparkRot,
           UnparkRotTimeout
  <2> QED BY <1>1, <2>1
<1> QED BY <1>2, <1>3 DEF Next

(* Only a TXDR store clocks a byte.                                        *)
LEMMA OnlyTxdrClocks ==
  ASSUME TypeOK, WaitInv, Next, clocked' > clocked
  PROVE  /\ cs /\ UNCHANGED kind
         /\ \/ ClockByte(TRUE)
            \/ /\ ClockByte(FALSE)
               /\ rot_live /\ rot_irq => miso # 0 \/ spPc = "tx1"
<1>1. clocked \in Nat
  BY DEF TypeOK, DataOK
<1>2. CASE SpStep
  <2>1. SpMoves
    BY <1>2, SpStepMoves
  <2>2. \/ clocked' = clocked \/ clocked' = 0
        \/ ClockByte(TRUE) /\ cs
        \/ ClockByte(FALSE) /\ cs /\ (rot_live /\ rot_irq => miso # 0 \/ spPc = "tx1")
    BY <2>1 DEF SpMoves, history, StartWait, AssertCs, KeepWaiting, GpioCsDeassert,
           WakeRot, PostPint, SampleRotIrq, ParkSp, UnparkSp, ExtiClear
  <2>3. \/ ClockByte(TRUE) /\ cs
        \/ ClockByte(FALSE) /\ cs /\ (rot_live /\ rot_irq => miso # 0 \/ spPc = "tx1")
    <3>1. clocked' # clocked /\ clocked' # 0
      BY <1>1
    <3> QED BY <2>2, <3>1
  <2> QED BY <2>3 DEF ClockByte
<1>3. CASE RotStep
  <2>1. clocked' = clocked
    BY <1>3 DEF RotStep, history, FifoStat, FifoRd, FifoWr, FifoCfg, StatClear, SetRotIrq,
           WakeSp, SeeSsa, SeeSsd, ArmJtag, GoLive, ConsumePints, RotIdles, ParkRot, UnparkRot,
           UnparkRotTimeout
  <2> QED BY <1>1, <2>1
<1> QED BY <1>2, <1>3 DEF Next

(* The bytes of a request that did not degrade reach the RoT whole and in  *)
(* order, and the first frame alone carries SOT.                           *)
THEOREM InOrder == Spec => InOrderDelivery
<1>1. ASSUME IInv, Next, rcvd' > rcvd, kind = "request", ~degraded
      PROVE  /\ Len(mosi) >= 2
             /\ mosi[1] = <<xfer, rcvd>> /\ mosi[2] = <<xfer, rcvd + 1>>
             /\ sot_pending <=> (rcvd = 0)
  <2>1. fw = "xfer" /\ sawRx
    BY <1>1, OnlyFifoRdReceives DEF IInv, FifoRd
  <2>2. Len(mosi) >= 2 /\ Stream(mosi, xfer, rcvd) /\ (sot_pending <=> (rcvd = 0))
    BY <1>1, <2>1 DEF IInv, StreamInv, Receiving
  <2>3. rcvd \in Nat /\ Len(mosi) \in Nat
    BY <1>1 DEF IInv, TypeOK, DataOK
  <2>4. 1 \in 1..Len(mosi) /\ 2 \in 1..Len(mosi) /\ rcvd + 1 - 1 = rcvd /\ rcvd + 2 - 1 = rcvd + 1
    BY <2>2, <2>3
  <2>5. mosi[1] = <<xfer, rcvd + 1 - 1>> /\ mosi[2] = <<xfer, rcvd + 2 - 1>>
    BY <2>2, <2>4 DEF Stream
  <2> QED BY <2>2, <2>4, <2>5
<1> QED BY <1>1, Invariance, PTL DEF Spec, InOrderDelivery

(* A reply byte is never clocked out of an empty FIFO unless the stall     *)
(* that waited for it gave up.                                             *)
THEOREM NoUnderrun == Spec => ReplyNoUnderrun
<1>1. ASSUME IInv, Next, clocked' > clocked, kind = "reply", ~degraded'
      PROVE  miso > 0
  <2>1. /\ cs
        /\ \/ ClockByte(TRUE)
           \/ ClockByte(FALSE) /\ (rot_live /\ rot_irq => miso # 0 \/ spPc = "tx1")
    BY <1>1, OnlyTxdrClocks DEF IInv
  <2>2. ClockByte(FALSE) /\ ~degraded
    BY <1>1, <2>1 DEF ClockByte
  <2>3. rot_live /\ rot_irq /\ spPc # "tx1"
    BY <1>1, <2>1, <2>2 DEF IInv, PacedInv
  <2>4. miso # 0 /\ miso \in Nat
    BY <1>1, <2>1, <2>2, <2>3 DEF IInv, TypeOK, DataOK, ClockByte
  <2> QED BY <2>4
<1> QED BY <1>1, Invariance, PTL DEF Spec, ReplyNoUnderrun
=============================================================================
