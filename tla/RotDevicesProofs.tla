-------------------------- MODULE RotDevicesProofs ---------------------------
(***************************************************************************)
(* Proofs about the RoT's boot path and its flash.                         *)
(***************************************************************************)
EXTENDS RotFlash, RotBoot, WellFoundedInduction, TLAPS

-----------------------------------------------------------------------------
(* The boot path: frames                                                   *)

Regs == {"a", "b", "success", "fail"}
Pcs  == {"code", "AUTH_TRAP", "HASHCRYPT_TRAP", "systick", "hashcrypt", "hashcrypt_end", "exc_return"}
FrameType == [pc : Pcs, lr : Pcs, r0 : Regs, r1 : Regs]

(* bootleby's own context, running or interrupted.                         *)
MainFrame(f) == f.pc \in {"code", "AUTH_TRAP"} /\ (f.pc = "AUTH_TRAP" => f.lr = "code")

(* An interrupt handler's, running or interrupted by another.              *)
HandlerFrame(f) ==
  \/ f.pc \in {"systick", "hashcrypt", "hashcrypt_end"}
  \/ f.pc = "HASHCRYPT_TRAP" /\ f.lr = "hashcrypt_end"

RcpuState == [pc : Pcs, lr : Pcs, r0 : Regs, r1 : Regs, stack : Seq(FrameType),
              active : SUBSET {"systick", "hashcrypt"}]

FramesOK ==
  /\ rcpu.stack = <<>> => MainFrame(Frame)
  /\ rcpu.stack # <<>> => /\ MainFrame(rcpu.stack[1]) /\ HandlerFrame(Frame)
                          /\ \A i \in 2..Len(rcpu.stack) : HandlerFrame(rcpu.stack[i])

Main == IF rcpu.stack = <<>> THEN Frame ELSE rcpu.stack[1]

-----------------------------------------------------------------------------
(* The boot path: verdicts                                                 *)

Steps == {"auth", "ret", "select", "panic", "measure", "generate", "getkey", "booted"}

RbTypeOK ==
  /\ pfr \in [signed : SUBSET Slots, version : [Cfpas -> 0..1], revoked : [Cfpas -> SUBSET Slots],
              pref : Slots]
  /\ rcpu \in RcpuState
  /\ rom_call \in [k : {"Idle", "Settling"}, left : 0..Settle_Steps, ptr : Slots, ok : BOOLEAN]
  /\ outParam \in [Slots -> BOOLEAN]
  /\ irqs \in 0..MaxIrqs
  /\ DOMAIN boot = {"step", "slot", "verdict", "fed", "digest", "key"}
  /\ DOMAIN hash = {"state", "fill", "digest", "digestReady"}
  /\ DOMAIN puf = {"codeout", "codein_left", "keyout", "busy", "success", "blocked"}

(* The call the ROM works on is the one bootleby made, however often it    *)
(* was interrupted, and its answer is the verdict on that slot.            *)
CallOK ==
  /\ Main.pc = "AUTH_TRAP" =>
       boot.step = "ret" /\ boot.slot \in Slots /\ Main.r0 = boot.slot /\ Main.r1 = boot.slot
  /\ rom_call.k = "Settling" =>
       Main.pc = "AUTH_TRAP" /\ rom_call.ptr = boot.slot /\ rom_call.ok = VerifySlot(boot.slot)
  /\ (boot.step = "ret" /\ Main.pc = "code") =>
       /\ boot.slot \in Slots
       /\ (Main.r0 = "success" /\ outParam[boot.slot]) <=> VerifySlot(boot.slot)

VerdictOK ==
  /\ boot.step \in Steps
  /\ DOMAIN boot.verdict \subseteq Slots
  /\ \A s \in DOMAIN boot.verdict : boot.verdict[s] = VerifySlot(s)
  /\ boot.step = "select" => DOMAIN boot.verdict = Slots
  /\ boot.step \in {"measure", "generate", "getkey", "booted"} =>
       boot.slot \in Slots /\ VerifySlot(boot.slot) /\ (VerifySlot(pfr.pref) => boot.slot = pfr.pref)
  /\ boot.step = "panic" => \A s \in Slots : ~VerifySlot(s)

-----------------------------------------------------------------------------
(* The boot path: measurement and key                                      *)

(* The first n blocks of an image, and e words of the next.                *)
Blocks(s, n) == [b \in 1..n |-> [i \in 1..BlockWords |-> Word(s, (b - 1) * BlockWords + i)]]
Rest(s, n, e) == [i \in 1..e |-> Word(s, n * BlockWords + i)]

Measured(n, e) ==
  /\ boot.fed = n * BlockWords + e
  /\ hash.state = Blocks(boot.slot, n) /\ hash.fill = Rest(boot.slot, n, e)
  /\ hash.digestReady => hash.digest = hash.state

HashOK ==
  /\ boot.step = "measure" => \E n \in 0..ImageBlocks, e \in 0..(BlockWords - 1) : Measured(n, e)
  /\ boot.step \in {"generate", "getkey", "booted"} => boot.digest = Blocks(boot.slot, ImageBlocks)

(* Of the key, what the firmware has read and what the PUF has yet to give. *)
Handed(key, out) ==
  /\ Len(key) + Len(out) = KeyWords
  /\ \A i \in 1..Len(key) : key[i] = Seed[i]
  /\ \A i \in 1..Len(out) : out[i] = Seed[Len(key) + i]

KeyOK ==
  /\ boot.key \in Seq({Seed[i] : i \in 1..KeyWords}) /\ puf.keyout \in Seq({Seed[i] : i \in 1..KeyWords})
  /\ puf.codein_left \in 0..KeyWords
  /\ boot.step \notin {"getkey", "booted"} => boot.key = <<>>
  /\ boot.step = "getkey" =>
       /\ puf.codein_left > 0 => boot.key = <<>> /\ puf.keyout = <<>> /\ ~puf.success
       /\ puf.codein_left = 0 => Handed(boot.key, puf.keyout)
       /\ puf.success => puf.codein_left = 0 /\ puf.keyout = <<>>
  /\ boot.step = "booted" => boot.key = Seed /\ puf.blocked

RbInv == RbTypeOK /\ FramesOK /\ CallOK /\ VerdictOK /\ HashOK /\ KeyOK

-----------------------------------------------------------------------------
(* The boot path: interrupts                                               *)

LEMMA RbConstants ==
  /\ Settle_Steps \in Nat \ {0} /\ BlockWords \in Nat \ {0} /\ ImageBlocks \in Nat \ {0}
  /\ KeyWords \in Nat \ {0} /\ MaxIrqs \in Nat \ {0}
  BY RotBootAssumption

(* Only bootleby's own context is at a ROM trap of its or in its code.     *)
LEMMA MainRuns ==
  ASSUME RbInv, rcpu.pc \in {"code", "AUTH_TRAP"}
  PROVE  rcpu.stack = <<>> /\ Main = Frame /\ Main.pc = rcpu.pc /\ Main.lr = rcpu.lr
         /\ Main.r0 = rcpu.r0 /\ Main.r1 = rcpu.r1
<1>1. Frame.pc = rcpu.pc /\ Frame.lr = rcpu.lr /\ Frame.r0 = rcpu.r0 /\ Frame.r1 = rcpu.r1
  BY DEF Frame
<1>2. rcpu.stack = <<>>
  BY <1>1 DEF RbInv, FramesOK, HandlerFrame
<1> QED BY <1>1, <1>2 DEF Main

LEMMA HandlerRuns ==
  ASSUME RbInv, rcpu.pc \in {"systick", "hashcrypt", "hashcrypt_end", "HASHCRYPT_TRAP"}
  PROVE  rcpu.stack # <<>> /\ (rcpu.pc = "HASHCRYPT_TRAP" => rcpu.lr = "hashcrypt_end")
<1>1. Frame.pc = rcpu.pc /\ Frame.lr = rcpu.lr
  BY DEF Frame
<1>2. rcpu.stack # <<>>
  BY <1>1 DEF RbInv, FramesOK, MainFrame
<1> QED BY <1>1, <1>2 DEF RbInv, FramesOK, HandlerFrame

(* Interrupts, their handlers and their calls into the ROM leave all of    *)
(* bootleby's state where it was.                                          *)
LEMMA MainKeeps ==
  ASSUME RbInv, rcpu' \in RcpuState, irqs' \in 0..MaxIrqs, FramesOK', Main' = Main,
         UNCHANGED <<pfr, rom_call, outParam, hash, puf, boot>>
  PROVE  RbInv'
<1>1. \A s : VerifySlot(s)' = VerifySlot(s)
  BY DEF VerifySlot, ActiveCfpa
<1>2. RbTypeOK'
  BY DEF RbInv, RbTypeOK
<1>3. CallOK'
  BY <1>1 DEF RbInv, CallOK
<1>4. VerdictOK'
  BY <1>1 DEF RbInv, VerdictOK
<1>5. HashOK' /\ KeyOK'
  BY DEF RbInv, HashOK, KeyOK, Measured
<1> QED BY <1>2, <1>3, <1>4, <1>5 DEF RbInv

LEMMA FrameTyped ==
  ASSUME RbInv
  PROVE  rcpu \in RcpuState /\ rcpu.stack \in Seq(FrameType) /\ Frame \in FrameType
<1>1. rcpu \in RcpuState
  BY DEF RbInv, RbTypeOK
<1> QED BY <1>1 DEF RcpuState, Frame, FrameType

LEMMA InterruptRb ==
  ASSUME RbInv, NEW h \in {"systick", "hashcrypt"}, Interrupt(h)
  PROVE  RbInv'
<1> DEFINE st == rcpu.stack
           n == Len(st)
<1>1. rcpu \in RcpuState /\ st \in Seq(FrameType) /\ Frame \in FrameType
  BY FrameTyped
<1>2. /\ rcpu' = [rcpu EXCEPT !.pc = h, !.lr = "exc_return", !.stack = Append(st, Frame),
                              !.active = rcpu.active \cup {h}]
      /\ UNCHANGED <<pfr, rom_call, outParam, hash, puf, boot>>
  BY DEF Interrupt
<1>3. irqs' \in 0..MaxIrqs
  BY RbConstants DEF Interrupt, RbInv, RbTypeOK
<1>4. Append(st, Frame) \in Seq(FrameType) /\ Len(Append(st, Frame)) = n + 1 /\ n \in Nat
      /\ Append(st, Frame)[n + 1] = Frame /\ \A i \in 1..n : Append(st, Frame)[i] = st[i]
      /\ (st # <<>> => n > 0) /\ (st = <<>> => n = 0) /\ Append(st, Frame) # <<>>
  BY <1>1
<1>5. rcpu'.pc = h /\ rcpu'.stack = Append(st, Frame)
  BY <1>1, <1>2 DEF RcpuState
<1>6. rcpu' \in RcpuState
  <2>1. h \in Pcs /\ "exc_return" \in Pcs
    BY DEF Pcs
  <2> QED BY <1>1, <1>2, <1>4, <2>1 DEF RcpuState
<1>7. Frame'.pc = h
  BY <1>5 DEF Frame
<1>8. HandlerFrame(Frame')
  BY <1>7 DEF HandlerFrame
<1>9. FramesOK' /\ Main' = Main
  <2>1. CASE st = <<>>
    BY <1>4, <1>5, <1>8, <2>1 DEF RbInv, FramesOK, Main
  <2>2. CASE st # <<>>
    <3>1. MainFrame(st[1]) /\ HandlerFrame(Frame) /\ \A i \in 2..n : HandlerFrame(st[i])
      BY <2>2 DEF RbInv, FramesOK
    <3>2. \A i \in 2..(n + 1) : HandlerFrame(Append(st, Frame)[i])
      BY <1>4, <3>1
    <3> QED BY <1>4, <1>5, <1>8, <2>2, <3>1, <3>2 DEF FramesOK, Main
  <2> QED BY <2>1, <2>2
<1> QED BY <1>2, <1>3, <1>6, <1>9, MainKeeps

LEMMA HashcryptRb ==
  ASSUME RbInv, HashcryptHandler
  PROVE  RbInv'
<1>1. rcpu \in RcpuState
  BY FrameTyped
<1>2. /\ rcpu' = [rcpu EXCEPT !.pc = "HASHCRYPT_TRAP", !.lr = "hashcrypt_end"]
      /\ UNCHANGED <<pfr, rom_call, outParam, hash, puf, boot, irqs>> /\ rcpu.stack # <<>>
  BY HandlerRuns DEF HashcryptHandler
<1>3. rcpu'.pc = "HASHCRYPT_TRAP" /\ rcpu'.lr = "hashcrypt_end" /\ rcpu'.stack = rcpu.stack
  BY <1>1, <1>2 DEF RcpuState
<1>4. rcpu' \in RcpuState
  BY <1>1, <1>2 DEF RcpuState, Pcs
<1>5. HandlerFrame(Frame')
  BY <1>3 DEF HandlerFrame, Frame
<1>6. FramesOK' /\ Main' = Main
  BY <1>2, <1>3, <1>5 DEF RbInv, FramesOK, Main
<1>7. irqs' \in 0..MaxIrqs
  BY <1>2 DEF RbInv, RbTypeOK
<1> QED BY <1>2, <1>4, <1>6, <1>7, MainKeeps

LEMMA ExceptionEndRb ==
  ASSUME RbInv, ExceptionEnd
  PROVE  RbInv'
<1> DEFINE st == rcpu.stack
           n == Len(st)
           f == st[n]
           fr == SubSeq(st, 1, n - 1)
<1>1. rcpu \in RcpuState /\ st \in Seq(FrameType)
  BY FrameTyped
<1>2. st # <<>> /\ rcpu.active \subseteq {"systick", "hashcrypt"}
  BY <1>1, HandlerRuns DEF ExceptionEnd, RcpuState
<1>3. PICK h \in {"systick", "hashcrypt"} :
        rcpu' = [pc |-> f.pc, lr |-> f.lr, r0 |-> f.r0, r1 |-> f.r1, stack |-> fr,
                 active |-> rcpu.active \ {h}]
  BY DEF ExceptionEnd, Last, Front
<1>4. UNCHANGED <<pfr, rom_call, outParam, hash, puf, boot, irqs>>
  BY DEF ExceptionEnd
<1>5. n \in Nat /\ n >= 1 /\ f \in FrameType
  BY <1>1, <1>2
<1>6. fr \in Seq(FrameType) /\ Len(fr) = n - 1 /\ (\A i \in 1..(n - 1) : fr[i] = st[i])
      /\ (n = 1 => fr = <<>>) /\ (n > 1 => fr # <<>>)
  <2>1. fr = [i \in 1..(n - 1) |-> st[i]]
    BY <1>1, <1>5
  <2>2. fr \in Seq(FrameType)
    BY <1>1, <1>5
  <2>3. Len(fr) = n - 1
    BY <1>1, <1>5
  <2> HIDE DEF fr
  <2>4. \A i \in 1..(n - 1) : fr[i] = st[i]
    BY <2>1
  <2>5. (n = 1 => fr = <<>>) /\ (n > 1 => fr # <<>>)
    BY <1>5, <2>2, <2>3
  <2> QED BY <2>2, <2>3, <2>4, <2>5
<1> HIDE DEF fr
<1>7. rcpu' \in RcpuState /\ rcpu'.stack = fr
  BY <1>2, <1>3, <1>5, <1>6 DEF RcpuState, FrameType
<1>8. Frame' = f
  <2>1. Frame' = [pc |-> f.pc, lr |-> f.lr, r0 |-> f.r0, r1 |-> f.r1]
    BY <1>3 DEF Frame
  <2> HIDE DEF f
  <2> QED BY <1>5, <2>1 DEF FrameType
<1>9. FramesOK' /\ Main' = Main
  <2>1. CASE n = 1
    BY <1>2, <1>6, <1>7, <1>8, <2>1 DEF RbInv, FramesOK, Main
  <2>2. CASE n > 1
    <3>1. HandlerFrame(f) /\ MainFrame(st[1]) /\ \A i \in 2..(n - 1) : HandlerFrame(st[i])
      BY <1>2, <1>5, <2>2 DEF RbInv, FramesOK
    <3>2. fr[1] = st[1] /\ fr # <<>> /\ \A i \in 2..Len(fr) : HandlerFrame(fr[i])
      BY <1>5, <1>6, <2>2, <3>1
    <3>3. Main' = Main
      BY <1>2, <1>7, <3>2 DEF Main
    <3>4. HandlerFrame(Frame') /\ MainFrame(fr[1])
      BY <1>8, <3>1, <3>2
    <3> HIDE DEF f, n, st
    <3>5. FramesOK'
      BY <1>7, <3>2, <3>4 DEF FramesOK
    <3> QED BY <3>3, <3>5
  <2>3. n = 1 \/ n > 1
    <3> HIDE DEF n
    <3> QED BY <1>5
  <2> QED BY <2>1, <2>2, <2>3
<1>10. irqs' \in 0..MaxIrqs
  BY <1>4 DEF RbInv, RbTypeOK
<1> QED BY <1>4, <1>7, <1>9, <1>10, MainKeeps

LEMMA RomDispatchRb ==
  ASSUME RbInv, RomDispatch
  PROVE  RbInv'
<1>1. rcpu \in RcpuState /\ UNCHANGED <<pfr, hash, puf, boot, irqs>> /\ irqs' \in 0..MaxIrqs
  BY FrameTyped DEF RomDispatch, RbInv, RbTypeOK
<1>2. \A s : VerifySlot(s)' = VerifySlot(s)
  BY <1>1 DEF VerifySlot, ActiveCfpa
<1>3. VerdictOK' /\ HashOK' /\ KeyOK'
  BY <1>1, <1>2 DEF RbInv, VerdictOK, HashOK, KeyOK, Measured
<1>4. CASE /\ rcpu.pc = "HASHCRYPT_TRAP"
           /\ rcpu' = [rcpu EXCEPT !.pc = rcpu.lr]
           /\ UNCHANGED <<rom_call, outParam>>
  <2>1. rcpu.stack # <<>> /\ rcpu.lr = "hashcrypt_end"
    BY <1>4, HandlerRuns
  <2>2. rcpu'.pc = "hashcrypt_end" /\ rcpu'.stack = rcpu.stack
    BY <1>1, <1>4, <2>1 DEF RcpuState
  <2>3. rcpu' \in RcpuState
    BY <1>1, <1>4 DEF RcpuState
  <2>4. HandlerFrame(Frame')
    BY <2>2 DEF HandlerFrame, Frame
  <2>5. FramesOK' /\ Main' = Main
    BY <2>1, <2>2, <2>4 DEF RbInv, FramesOK, Main
  <2> QED BY <1>1, <1>4, <2>3, <2>5, MainKeeps
<1>5. CASE rcpu.pc = "AUTH_TRAP" /\ UNCHANGED <<rcpu, outParam>> /\ rom_call.k = "Idle"
           /\ rom_call' = [k |-> "Settling", left |-> Settle_Steps, ptr |-> rcpu.r1,
                           ok |-> VerifySlot(rcpu.r0)]
  <2>1. Main.pc = "AUTH_TRAP" /\ Main.r0 = rcpu.r0 /\ Main.r1 = rcpu.r1
    BY <1>5, MainRuns
  <2>2. boot.step = "ret" /\ boot.slot \in Slots /\ rcpu.r0 = boot.slot /\ rcpu.r1 = boot.slot
    BY <2>1 DEF RbInv, CallOK
  <2>3. Main' = Main /\ FramesOK'
    BY <1>5 DEF RbInv, Main, FramesOK, Frame
  <2>4. VerifySlot(boot.slot) \in BOOLEAN
    BY DEF VerifySlot
  <2>5. rom_call'.k = "Settling" /\ rom_call'.ptr = boot.slot /\ rom_call'.ok = VerifySlot(boot.slot)
        /\ rom_call' \in [k : {"Idle", "Settling"}, left : 0..Settle_Steps, ptr : Slots, ok : BOOLEAN]
    BY <1>5, <2>2, <2>4, RbConstants
  <2>6. RbTypeOK'
    BY <1>1, <1>5, <2>5 DEF RbInv, RbTypeOK
  <2>7. CallOK'
    BY <1>1, <1>2, <1>5, <2>1, <2>2, <2>3, <2>5 DEF RbInv, CallOK
  <2> QED BY <1>3, <2>3, <2>6, <2>7 DEF RbInv
<1>6. CASE rcpu.pc = "AUTH_TRAP" /\ rom_call.k = "Settling" /\ rom_call.left > 0
           /\ rom_call' = [rom_call EXCEPT !.left = rom_call.left - 1]
           /\ UNCHANGED <<rcpu, outParam>>
  <2>1. rom_call \in [k : {"Idle", "Settling"}, left : 0..Settle_Steps, ptr : Slots, ok : BOOLEAN]
    BY DEF RbInv, RbTypeOK
  <2>2. rom_call'.k = rom_call.k /\ rom_call'.ptr = rom_call.ptr /\ rom_call'.ok = rom_call.ok
    BY <1>6, <2>1
  <2>3. rom_call.left - 1 \in 0..Settle_Steps
    BY <1>6, <2>1, RbConstants
  <2>4. rom_call' \in [k : {"Idle", "Settling"}, left : 0..Settle_Steps, ptr : Slots, ok : BOOLEAN]
    BY <1>6, <2>1, <2>3
  <2>5. Main' = Main /\ FramesOK'
    BY <1>6 DEF RbInv, Main, FramesOK, Frame
  <2>6. RbTypeOK'
    BY <1>1, <1>6, <2>4 DEF RbInv, RbTypeOK
  <2>7. CallOK'
    BY <1>1, <1>2, <1>6, <2>2, <2>5 DEF RbInv, CallOK
  <2> QED BY <1>3, <2>5, <2>6, <2>7 DEF RbInv
<1>7. CASE rcpu.pc = "AUTH_TRAP" /\ rom_call.k = "Settling"
           /\ outParam' = [outParam EXCEPT ![rom_call.ptr] = rom_call.ok]
           /\ rcpu' = [rcpu EXCEPT !.pc = rcpu.lr, !.r0 = IF rom_call.ok THEN "success" ELSE "fail"]
           /\ rom_call' = RomIdle
  <2>1. rcpu.stack = <<>> /\ Main = Frame /\ Main.pc = "AUTH_TRAP" /\ Main.lr = rcpu.lr
    BY <1>7, MainRuns
  <2>2. boot.step = "ret" /\ boot.slot \in Slots
        /\ rom_call.ptr = boot.slot /\ rom_call.ok = VerifySlot(boot.slot)
    BY <1>7, <2>1 DEF RbInv, CallOK
  <2>3. rcpu.lr = "code"
    BY <2>1 DEF RbInv, FramesOK, MainFrame
  <2> DEFINE a == IF rom_call.ok THEN "success" ELSE "fail"
  <2>4. a \in Regs /\ (a = "success" <=> VerifySlot(boot.slot))
    BY <2>2 DEF Regs
  <2>5. rcpu' = [rcpu EXCEPT !.pc = "code", !.r0 = a]
    BY <1>7, <2>3
  <2> HIDE DEF a
  <2>6. rcpu'.pc = "code" /\ rcpu'.r0 = a /\ rcpu'.stack = <<>>
    BY <1>1, <2>1, <2>5 DEF RcpuState
  <2>7. rcpu' \in RcpuState
    BY <1>1, <2>4, <2>5 DEF RcpuState, Pcs
  <2>8. Main'.pc = "code" /\ Main'.r0 = a /\ FramesOK'
    BY <2>6 DEF Main, Frame, FramesOK, MainFrame
  <2>9. VerifySlot(boot.slot) \in BOOLEAN /\ outParam \in [Slots -> BOOLEAN]
    BY DEF VerifySlot, RbInv, RbTypeOK
  <2>10. outParam' \in [Slots -> BOOLEAN] /\ outParam'[boot.slot] = VerifySlot(boot.slot)
    BY <1>7, <2>2, <2>9
  <2>11. rom_call'.k = "Idle"
         /\ rom_call' \in [k : {"Idle", "Settling"}, left : 0..Settle_Steps, ptr : Slots, ok : BOOLEAN]
    BY <1>7, RbConstants DEF RomIdle, Slots
  <2>12. RbTypeOK'
    BY <1>1, <2>7, <2>10, <2>11 DEF RbInv, RbTypeOK
  <2>13. CallOK'
    BY <1>1, <1>2, <2>2, <2>4, <2>8, <2>10, <2>11 DEF CallOK
  <2> QED BY <1>3, <2>8, <2>12, <2>13 DEF RbInv
<1> QED BY <1>4, <1>5, <1>6, <1>7 DEF RomDispatch

-----------------------------------------------------------------------------
(* The boot path: bootleby                                                 *)

(* bootleby executes: no handler runs, no ROM call is parked.              *)
LEMMA CodeFacts ==
  ASSUME RbInv, rcpu.pc = "code"
  PROVE  /\ rcpu.stack = <<>> /\ Main.pc = "code" /\ Main.r0 = rcpu.r0 /\ rom_call.k = "Idle"
         /\ DOMAIN boot = {"step", "slot", "verdict", "fed", "digest", "key"}
         /\ DOMAIN hash = {"state", "fill", "digest", "digestReady"}
         /\ DOMAIN puf = {"codeout", "codein_left", "keyout", "busy", "success", "blocked"}
<1>1. rcpu.stack = <<>> /\ Main.pc = "code" /\ Main.r0 = rcpu.r0
  BY MainRuns
<1>2. rom_call.k \in {"Idle", "Settling"}
  BY DEF RbInv, RbTypeOK
<1>3. rom_call.k = "Idle"
  BY <1>1, <1>2 DEF RbInv, CallOK
<1> QED BY <1>1, <1>3 DEF RbInv, RbTypeOK

LEMMA CodeStep ==
  ASSUME RbInv, rcpu.pc = "code", UNCHANGED <<pfr, rcpu, rom_call, outParam, irqs>>,
         boot'.step # "ret", VerdictOK', HashOK', KeyOK',
         DOMAIN boot' = DOMAIN boot, DOMAIN hash' = DOMAIN hash, DOMAIN puf' = DOMAIN puf
  PROVE  RbInv'
<1>1. RbTypeOK'
  BY DEF RbInv, RbTypeOK
<1>2. FramesOK' /\ Main' = Main
  BY DEF RbInv, FramesOK, Main, Frame
<1>3. CallOK'
  BY <1>2, CodeFacts DEF CallOK
<1> QED BY <1>1, <1>2, <1>3 DEF RbInv

LEMMA CallAuthRb ==
  ASSUME RbInv, NEW s \in Slots, CallAuth(s)
  PROVE  RbInv'
<1>1. rcpu \in RcpuState /\ rcpu.stack = <<>> /\ rom_call.k = "Idle" /\ rcpu.pc = "code"
      /\ boot.step = "auth" /\ DOMAIN boot = {"step", "slot", "verdict", "fed", "digest", "key"}
  BY FrameTyped, CodeFacts DEF CallAuth, InCode
<1>2. /\ rcpu' = [rcpu EXCEPT !.pc = "AUTH_TRAP", !.lr = "code", !.r0 = s, !.r1 = s]
      /\ boot' = [boot EXCEPT !.step = "ret", !.slot = s]
      /\ UNCHANGED <<pfr, rom_call, outParam, hash, puf, irqs>>
  BY DEF CallAuth
<1>3. rcpu'.pc = "AUTH_TRAP" /\ rcpu'.lr = "code" /\ rcpu'.r0 = s /\ rcpu'.r1 = s
      /\ rcpu'.stack = <<>>
  BY <1>1, <1>2 DEF RcpuState
<1>4. s \in Regs
  BY DEF Slots, Regs
<1>5. rcpu' \in RcpuState
  BY <1>1, <1>2, <1>4 DEF RcpuState, Pcs
<1>6. boot'.step = "ret" /\ boot'.slot = s /\ boot'.verdict = boot.verdict /\ boot'.key = boot.key
      /\ DOMAIN boot' = DOMAIN boot
  BY <1>1, <1>2
<1>7. \A x : VerifySlot(x)' = VerifySlot(x)
  BY <1>2 DEF VerifySlot, ActiveCfpa
<1>8. Main'.pc = "AUTH_TRAP" /\ Main'.r0 = s /\ Main'.r1 = s /\ FramesOK'
  BY <1>3 DEF Main, Frame, FramesOK, MainFrame
<1>9. RbTypeOK'
  BY <1>1, <1>2, <1>5, <1>6 DEF RbInv, RbTypeOK
<1>10. CallOK'
  BY <1>1, <1>2, <1>6, <1>8 DEF CallOK
<1>11. VerdictOK'
  BY <1>6, <1>7 DEF RbInv, VerdictOK, Steps
<1>12. HashOK' /\ KeyOK'
  BY <1>1, <1>2, <1>6 DEF RbInv, HashOK, KeyOK
<1> QED BY <1>8, <1>9, <1>10, <1>11, <1>12 DEF RbInv

LEMMA AuthReturnedRb ==
  ASSUME RbInv, AuthReturned
  PROVE  RbInv'
<1> DEFINE ok == rcpu.r0 = "success" /\ outParam[boot.slot]
           v  == [s \in DOMAIN boot.verdict \cup {boot.slot} |->
                    IF s = boot.slot THEN ok ELSE boot.verdict[s]]
           st == IF DOMAIN v = Slots THEN "select" ELSE "auth"
<1>1. rcpu.pc = "code" /\ boot.step = "ret" /\ Main.pc = "code" /\ Main.r0 = rcpu.r0
      /\ DOMAIN boot = {"step", "slot", "verdict", "fed", "digest", "key"}
  BY CodeFacts DEF AuthReturned, InCode
<1>2. /\ boot' = [boot EXCEPT !.verdict = v, !.step = st] /\ hash' = hash /\ puf' = puf
      /\ UNCHANGED <<pfr, rcpu, rom_call, outParam, irqs>>
  BY DEF AuthReturned, Step
<1>3. boot.slot \in Slots /\ (ok <=> VerifySlot(boot.slot))
  BY <1>1 DEF RbInv, CallOK
<1>4. ok = VerifySlot(boot.slot)
  <2>1. ok \in BOOLEAN /\ VerifySlot(boot.slot) \in BOOLEAN
    BY DEF VerifySlot
  <2> HIDE DEF ok
  <2> QED BY <1>3, <2>1
<1>5. \A x : VerifySlot(x)' = VerifySlot(x)
  BY <1>2 DEF VerifySlot, ActiveCfpa
<1> HIDE DEF ok
<1>6. DOMAIN v = DOMAIN boot.verdict \cup {boot.slot}
      /\ \A s \in DOMAIN v : v[s] = VerifySlot(s)
  BY <1>4 DEF RbInv, VerdictOK
<1>7. DOMAIN v \subseteq Slots
  BY <1>3, <1>6 DEF RbInv, VerdictOK
<1>8. st \in {"select", "auth"} /\ (st = "select" => DOMAIN v = Slots)
  OBVIOUS
<1> HIDE DEF v, st
<1>9. boot'.step = st /\ boot'.verdict = v /\ boot'.key = boot.key /\ DOMAIN boot' = DOMAIN boot
  BY <1>1, <1>2
<1>10. VerdictOK'
  BY <1>5, <1>6, <1>7, <1>8, <1>9 DEF VerdictOK, Steps
<1>11. HashOK' /\ KeyOK'
  BY <1>1, <1>2, <1>8, <1>9 DEF RbInv, HashOK, KeyOK
<1> QED BY <1>1, <1>2, <1>8, <1>9, <1>10, <1>11, CodeStep

(* After the choice of a slot, the verdicts stand.                         *)
Chosen == {"measure", "generate", "getkey", "booted"}

LEMMA VerdictStands ==
  ASSUME RbInv, pfr' = pfr, boot'.slot = boot.slot, boot'.verdict = boot.verdict,
         boot.step \in Chosen, boot'.step \in Chosen
  PROVE  VerdictOK'
<1>1. \A x : VerifySlot(x)' = VerifySlot(x)
  BY DEF VerifySlot, ActiveCfpa
<1> QED BY <1>1 DEF RbInv, VerdictOK, Chosen, Steps

-----------------------------------------------------------------------------
(* The boot path: words and blocks                                         *)

LEMMA ProductMonotone ==
  \A a, b, c \in Nat : a <= b => a * c <= b * c /\ (a + 1) * c = a * c + c
<1> SUFFICES ASSUME NEW a \in Nat, NEW b \in Nat, NEW c \in Nat, a <= b
             PROVE  a * c <= b * c /\ (a + 1) * c = a * c + c
  OBVIOUS
<1>1. PICK d \in Nat : b = a + d
  <2>1. b - a \in Nat /\ b = a + (b - a)
    OBVIOUS
  <2> QED BY <2>1
<1>2. (a + d) * c = a * c + d * c /\ d * c \in Nat /\ a * c \in Nat /\ (a + 1) * c = a * c + c
  BY <1>1
<1> QED BY <1>1, <1>2

(* The words before the end of an image are of its blocks before the last. *)
LEMMA BlockArith ==
  ASSUME NEW n \in 0..ImageBlocks, NEW e \in 0..(BlockWords - 1)
  PROVE  /\ n * BlockWords + e < BlockWords * ImageBlocks => n < ImageBlocks
         /\ n * BlockWords + e = BlockWords * ImageBlocks => n = ImageBlocks /\ e = 0
         /\ (n + 1) * BlockWords = n * BlockWords + BlockWords
         /\ n * BlockWords \in Nat
<1>1. BlockWords \in Nat \ {0} /\ ImageBlocks \in Nat \ {0} /\ n \in Nat /\ e \in Nat
      /\ n <= ImageBlocks /\ e < BlockWords
  BY RbConstants
<1>2. BlockWords * ImageBlocks = ImageBlocks * BlockWords /\ n * BlockWords \in Nat
      /\ ImageBlocks * BlockWords \in Nat
  BY <1>1
<1>3. (n + 1) * BlockWords = n * BlockWords + BlockWords
  BY <1>1, ProductMonotone
<1>4. n < ImageBlocks => n * BlockWords + BlockWords <= ImageBlocks * BlockWords
  <2> SUFFICES ASSUME n < ImageBlocks PROVE n * BlockWords + BlockWords <= ImageBlocks * BlockWords
    OBVIOUS
  <2>1. n + 1 \in Nat /\ n + 1 <= ImageBlocks
    BY <1>1
  <2>2. (n + 1) * BlockWords <= ImageBlocks * BlockWords
    BY <1>1, <2>1, ProductMonotone
  <2> QED BY <1>3, <2>2
<1> DEFINE x == n * BlockWords
           y == ImageBlocks * BlockWords
<1>5. x \in Nat /\ y \in Nat /\ (n < ImageBlocks => x + BlockWords <= y) /\ (n = ImageBlocks => x = y)
  BY <1>2, <1>4
<1> HIDE DEF x, y
<1>6. (x + e < y => n < ImageBlocks) /\ (x + e = y => n = ImageBlocks /\ e = 0)
  BY <1>1, <1>5
<1> QED BY <1>2, <1>3, <1>6 DEF x, y

LEMMA BlocksGrow ==
  ASSUME NEW s, NEW n \in Nat, NEW e \in Nat
  PROVE  /\ Append(Rest(s, n, e), Word(s, n * BlockWords + e + 1)) = Rest(s, n, e + 1)
         /\ Len(Rest(s, n, e)) = e
         /\ Append(Blocks(s, n), Rest(s, n, BlockWords)) = Blocks(s, n + 1)
         /\ Rest(s, n, 0) = <<>> /\ Blocks(s, 0) = <<>>
<1> DEFINE k == n * BlockWords
           w == BlockWords
<1>1. k \in Nat /\ w \in Nat
  BY RbConstants
<1>2. \A m : Rest(s, n, m) = [i \in 1..m |-> Word(s, k + i)]
  BY DEF Rest
<1>3. n + 1 - 1 = n
  OBVIOUS
<1>4. Blocks(s, n + 1) = [b \in 1..(n + 1) |-> [i \in 1..w |-> Word(s, (b - 1) * w + i)]]
      /\ Blocks(s, n) = [b \in 1..n |-> [i \in 1..w |-> Word(s, (b - 1) * w + i)]]
      /\ Rest(s, n, w) = [i \in 1..w |-> Word(s, (n + 1 - 1) * w + i)]
  BY <1>2, <1>3 DEF Blocks
<1> HIDE DEF k
<1>5. Append(Rest(s, n, e), Word(s, k + e + 1)) = Rest(s, n, e + 1) /\ Len(Rest(s, n, e)) = e
  <2> DEFINE f(i) == Word(s, k + i)
  <2>1. Rest(s, n, e) = [i \in 1..e |-> f(i)] /\ Rest(s, n, e + 1) = [i \in 1..(e + 1) |-> f(i)]
        /\ Word(s, k + e + 1) = f(e + 1)
    <3>1. k + e + 1 = k + (e + 1)
      BY <1>1
    <3> QED BY <1>2, <3>1
  <2> HIDE DEF f
  <2>2. Len(Rest(s, n, e)) = e
    BY <2>1
  <2>3. Append([i \in 1..e |-> f(i)], f(e + 1)) = [i \in 1..(e + 1) |-> f(i)]
    OBVIOUS
  <2> QED BY <2>1, <2>2, <2>3
<1>6. Append(Blocks(s, n), Rest(s, n, w)) = Blocks(s, n + 1)
  <2> DEFINE f(b) == [i \in 1..w |-> Word(s, (b - 1) * w + i)]
  <2>1. Blocks(s, n) = [b \in 1..n |-> f(b)] /\ Blocks(s, n + 1) = [b \in 1..(n + 1) |-> f(b)]
        /\ Rest(s, n, w) = f(n + 1)
    BY <1>4
  <2> HIDE DEF f
  <2>2. Append([b \in 1..n |-> f(b)], f(n + 1)) = [b \in 1..(n + 1) |-> f(b)]
    OBVIOUS
  <2> QED BY <2>1, <2>2
<1>7. Rest(s, n, 0) = <<>> /\ Blocks(s, 0) = <<>>
  BY <1>2 DEF Blocks
<1> QED BY <1>5, <1>6, <1>7 DEF k, w

LEMMA BlocksAreTheImage ==
  ASSUME NEW s
  PROVE  Blocks(s, ImageBlocks) = BlocksOf(s)
<1>1. ASSUME NEW b \in 1..ImageBlocks
      PROVE  SubSeq(Image(s), (b - 1) * BlockWords + 1, b * BlockWords)
               = [i \in 1..BlockWords |-> Word(s, (b - 1) * BlockWords + i)]
  <2> DEFINE k == (b - 1) * BlockWords
             l == BlockWords * ImageBlocks
             w == BlockWords
  <2>1. w \in Nat \ {0} /\ ImageBlocks \in Nat /\ b - 1 \in Nat /\ b \in Nat /\ b <= ImageBlocks
    BY RbConstants
  <2>2. b * w = k + w
    <3>1. (b - 1 + 1) * w = (b - 1) * w + w
      BY <2>1, ProductMonotone
    <3>2. b - 1 + 1 = b
      BY <2>1
    <3> QED BY <3>1, <3>2
  <2>3. b * w <= l /\ k \in Nat /\ l \in Nat
    <3>1. b * w <= ImageBlocks * w
      BY <2>1, ProductMonotone
    <3>2. l = ImageBlocks * w /\ l \in Nat /\ k \in Nat
      BY <2>1
    <3> QED BY <3>1, <3>2
  <2>4. Image(s) = [i \in 1..l |-> Word(s, i)]
    BY DEF Image
  <2> HIDE DEF k, l, w
  <2>5. k + w <= l
    BY <2>2, <2>3
  <2>6. SubSeq(Image(s), k + 1, k + w) = [i \in 1..(k + w - (k + 1) + 1) |-> Image(s)[i + (k + 1) - 1]]
    BY <2>1, <2>3, <2>4, <2>5
  <2>7. k + w - (k + 1) + 1 = w /\ \A i \in 1..w : i + (k + 1) - 1 = k + i /\ k + i \in 1..l
    BY <2>1, <2>3, <2>5
  <2>8. SubSeq(Image(s), k + 1, k + w) = [i \in 1..w |-> Image(s)[k + i]]
    BY <2>6, <2>7
  <2>9. \A i \in 1..w : Image(s)[k + i] = Word(s, k + i)
    BY <2>4, <2>7
  <2> QED BY <2>2, <2>8, <2>9 DEF k, w
<1> QED BY <1>1 DEF Blocks, BlocksOf

-----------------------------------------------------------------------------
(* The boot path: measuring and drawing the key                            *)

LEMMA SelectRb ==
  ASSUME RbInv, Select
  PROVE  RbInv'
<1> DEFINE valid == {s \in Slots : boot.verdict[s]}
<1>1. rcpu.pc = "code" /\ boot.step = "select"
      /\ DOMAIN boot = {"step", "slot", "verdict", "fed", "digest", "key"}
      /\ DOMAIN hash = {"state", "fill", "digest", "digestReady"}
  BY CodeFacts DEF Select, InCode
<1>2. PICK s \in IF pfr.pref \in valid THEN {pfr.pref} ELSE valid \cup {"none"} :
        /\ s = "none" => valid = {}
        /\ boot' = [boot EXCEPT !.slot = s, !.fed = 0,
                                !.step = IF s = "none" THEN "panic" ELSE "measure"]
        /\ hash' = IF s = "none" THEN hash ELSE HashStart(hash)
        /\ puf' = puf
        /\ UNCHANGED <<pfr, rcpu, rom_call, outParam, irqs>>
  BY DEF Select, Step
<1>3. \A x : VerifySlot(x)' = VerifySlot(x)
  BY <1>2 DEF VerifySlot, ActiveCfpa
<1>4. \A x \in Slots : x \in valid <=> VerifySlot(x)
  BY <1>1 DEF RbInv, VerdictOK
<1>5. DOMAIN boot' = DOMAIN boot /\ boot'.slot = s /\ boot'.fed = 0 /\ boot'.verdict = boot.verdict
      /\ boot'.key = boot.key /\ boot'.step = (IF s = "none" THEN "panic" ELSE "measure")
  BY <1>1, <1>2
<1>6. pfr.pref \in Slots /\ valid \subseteq Slots
  BY DEF RbInv, RbTypeOK
<1> HIDE DEF valid
<1>7. s # "none" => s \in Slots /\ VerifySlot(s) /\ (VerifySlot(pfr.pref) => s = pfr.pref)
  BY <1>2, <1>4, <1>6
<1>8. s = "none" => \A x \in Slots : ~VerifySlot(x)
  BY <1>2, <1>4
<1>9. VerdictOK'
  <2>1. DOMAIN boot'.verdict \subseteq Slots
        /\ \A x \in DOMAIN boot'.verdict : boot'.verdict[x] = VerifySlot(x)'
    BY <1>3, <1>5 DEF RbInv, VerdictOK
  <2>2. CASE s = "none"
    BY <1>2, <1>3, <1>5, <1>8, <2>1, <2>2 DEF VerdictOK, Steps
  <2>3. CASE s # "none"
    BY <1>2, <1>3, <1>5, <1>7, <2>1, <2>3 DEF VerdictOK, Steps
  <2> QED BY <2>2, <2>3
<1>10. HashOK' /\ DOMAIN hash' = DOMAIN hash
  <2>1. CASE s = "none"
    BY <1>2, <1>5, <2>1 DEF HashOK
  <2>2. CASE s # "none"
    <3>1. hash' = [hash EXCEPT !.state = <<>>, !.fill = <<>>, !.digestReady = FALSE]
      BY <1>2, <2>2 DEF HashStart
    <3>2. hash'.state = <<>> /\ hash'.fill = <<>> /\ ~hash'.digestReady /\ DOMAIN hash' = DOMAIN hash
      BY <1>1, <3>1
    <3>3. Rest(s, 0, 0) = <<>> /\ Blocks(s, 0) = <<>> /\ 0 = 0 * BlockWords + 0
          /\ 0 \in 0..ImageBlocks /\ 0 \in 0..(BlockWords - 1)
      BY BlocksGrow, RbConstants
    <3>4. Measured(0, 0)'
      BY <1>5, <3>2, <3>3 DEF Measured
    <3> QED BY <1>5, <2>2, <3>2, <3>3, <3>4 DEF HashOK
  <2> QED BY <2>1, <2>2
<1>11. KeyOK'
  BY <1>1, <1>2, <1>5 DEF RbInv, KeyOK
<1> QED BY <1>1, <1>2, <1>5, <1>9, <1>10, <1>11, CodeStep

LEMMA RemeasureRb ==
  ASSUME RbInv, Remeasure
  PROVE  RbInv'
<1>1. rcpu.pc = "code" /\ boot.step = "measure"
      /\ DOMAIN boot = {"step", "slot", "verdict", "fed", "digest", "key"}
      /\ DOMAIN hash = {"state", "fill", "digest", "digestReady"}
  BY CodeFacts DEF Remeasure, InCode
<1>2. /\ boot' = [boot EXCEPT !.fed = 0]
      /\ hash' = [hash EXCEPT !.state = <<>>, !.fill = <<>>, !.digestReady = FALSE]
      /\ puf' = puf /\ UNCHANGED <<pfr, rcpu, rom_call, outParam, irqs>>
  BY DEF Remeasure, Step, HashStart
<1>3. DOMAIN boot' = DOMAIN boot /\ boot'.slot = boot.slot /\ boot'.fed = 0
      /\ boot'.verdict = boot.verdict /\ boot'.key = boot.key /\ boot'.step = "measure"
  BY <1>1, <1>2
<1>4. hash'.state = <<>> /\ hash'.fill = <<>> /\ ~hash'.digestReady /\ DOMAIN hash' = DOMAIN hash
  BY <1>1, <1>2
<1>5. VerdictOK'
  BY <1>1, <1>2, <1>3, VerdictStands DEF Chosen
<1>6. Rest(boot.slot, 0, 0) = <<>> /\ Blocks(boot.slot, 0) = <<>> /\ 0 = 0 * BlockWords + 0
      /\ 0 \in 0..ImageBlocks /\ 0 \in 0..(BlockWords - 1)
  BY BlocksGrow, RbConstants
<1>7. Measured(0, 0)'
  BY <1>3, <1>4, <1>6 DEF Measured
<1>8. HashOK'
  BY <1>3, <1>6, <1>7 DEF HashOK
<1>9. KeyOK'
  BY <1>1, <1>2, <1>3 DEF RbInv, KeyOK
<1> QED BY <1>1, <1>2, <1>3, <1>4, <1>5, <1>8, <1>9, CodeStep

LEMMA FeedRb ==
  ASSUME RbInv, Feed
  PROVE  RbInv'
<1> DEFINE x == boot.slot
<1>1. rcpu.pc = "code" /\ boot.step = "measure" /\ boot.fed < BlockWords * ImageBlocks
      /\ DOMAIN boot = {"step", "slot", "verdict", "fed", "digest", "key"}
      /\ DOMAIN hash = {"state", "fill", "digest", "digestReady"}
  BY CodeFacts DEF Feed, InCode
<1>2. /\ boot' = [boot EXCEPT !.fed = boot.fed + 1]
      /\ hash' = HashFeed(hash, Word(x, boot.fed + 1))
      /\ puf' = puf /\ UNCHANGED <<pfr, rcpu, rom_call, outParam, irqs>>
  BY DEF Feed, Step
<1>3. DOMAIN boot' = DOMAIN boot /\ boot'.slot = x /\ boot'.fed = boot.fed + 1
      /\ boot'.verdict = boot.verdict /\ boot'.key = boot.key /\ boot'.step = "measure"
  BY <1>1, <1>2
<1>4. VerdictOK'
  BY <1>1, <1>2, <1>3, VerdictStands DEF Chosen
<1>5. KeyOK'
  BY <1>1, <1>2, <1>3 DEF RbInv, KeyOK
<1>6. PICK n \in 0..ImageBlocks, e \in 0..(BlockWords - 1) : Measured(n, e)
  BY <1>1 DEF RbInv, HashOK
<1> DEFINE k == n * BlockWords
           block == Append(hash.fill, Word(x, boot.fed + 1))
<1>7. /\ boot.fed = k + e /\ k \in Nat /\ n < ImageBlocks /\ (n + 1) * BlockWords = k + BlockWords
      /\ hash.state = Blocks(x, n) /\ hash.fill = Rest(x, n, e)
      /\ e \in Nat /\ n \in Nat /\ e < BlockWords /\ BlockWords \in Nat /\ ImageBlocks \in Nat
      /\ n <= ImageBlocks
  BY <1>1, <1>6, BlockArith, RbConstants DEF Measured
<1>a. e + 1 \in Nat /\ boot.fed + 1 = n * BlockWords + e + 1
  BY <1>7
<1>b. /\ Append(Rest(x, n, e), Word(x, n * BlockWords + e + 1)) = Rest(x, n, e + 1)
      /\ Len(Rest(x, n, e + 1)) = e + 1
      /\ Append(Blocks(x, n), Rest(x, n, BlockWords)) = Blocks(x, n + 1)
  <2>1. n \in Nat /\ e \in Nat /\ e + 1 \in Nat
    BY <1>7, <1>a
  <2> QED BY <2>1, BlocksGrow
<1>8. block = Rest(x, n, e + 1)
  BY <1>7, <1>a, <1>b
<1>9. Len(block) = e + 1
  BY <1>8, <1>b
<1> HIDE DEF block, k
<1>10. CASE e + 1 = BlockWords
  <2>1. hash' = [state |-> Append(hash.state, block), fill |-> <<>>,
                 digest |-> Append(hash.state, block), digestReady |-> TRUE]
    BY <1>2, <1>9, <1>10 DEF HashFeed, block
  <2>2. Append(hash.state, block) = Blocks(x, n + 1)
    BY <1>7, <1>8, <1>10, <1>b
  <2>3. n + 1 \in 0..ImageBlocks /\ n + 1 \in Nat /\ boot'.fed = (n + 1) * BlockWords + 0
        /\ 0 \in 0..(BlockWords - 1)
    BY <1>3, <1>7, <1>10
  <2>4. Rest(x, n + 1, 0) = <<>>
    BY <2>3, BlocksGrow
  <2>5. hash'.state = Blocks(x, n + 1) /\ hash'.fill = Rest(x, n + 1, 0) /\ hash'.digest = hash'.state
        /\ DOMAIN hash' = {"state", "fill", "digest", "digestReady"}
    BY <2>1, <2>2, <2>4
  <2>6. Measured(n + 1, 0)'
    BY <1>3, <2>3, <2>5 DEF Measured
  <2>7. HashOK'
    BY <1>3, <2>3, <2>6 DEF HashOK
  <2> QED BY <1>1, <1>2, <1>3, <1>4, <1>5, <2>5, <2>7, CodeStep
<1>11. CASE e + 1 # BlockWords
  <2>1. hash' = [hash EXCEPT !.fill = block, !.digestReady = FALSE]
    BY <1>2, <1>9, <1>11 DEF HashFeed, block
  <2>2. hash'.state = hash.state /\ hash'.fill = block /\ ~hash'.digestReady
        /\ DOMAIN hash' = DOMAIN hash
    BY <1>1, <2>1
  <2>3. e + 1 \in 0..(BlockWords - 1) /\ boot'.fed = k + (e + 1)
    <3>1. boot'.fed = k + e + 1 /\ k + e + 1 = k + (e + 1)
      BY <1>3, <1>7
    <3>2. e + 1 \in 0..(BlockWords - 1)
      BY <1>7, <1>11
    <3> QED BY <3>1, <3>2
  <2>4. Measured(n, e + 1)'
    BY <1>3, <1>7, <1>8, <2>2, <2>3 DEF Measured, k
  <2>5. HashOK'
    BY <1>3, <1>6, <2>3, <2>4 DEF HashOK
  <2> QED BY <1>1, <1>2, <1>3, <1>4, <1>5, <2>2, <2>5, CodeStep
<1> QED BY <1>10, <1>11

LEMMA ReadDigestRb ==
  ASSUME RbInv, ReadDigest
  PROVE  RbInv'
<1>1. rcpu.pc = "code" /\ boot.step = "measure" /\ boot.fed = BlockWords * ImageBlocks
      /\ DOMAIN boot = {"step", "slot", "verdict", "fed", "digest", "key"}
      /\ DOMAIN puf = {"codeout", "codein_left", "keyout", "busy", "success", "blocked"}
      /\ hash.digestReady
  BY CodeFacts DEF ReadDigest, InCode
<1>2. /\ boot' = [boot EXCEPT !.step = "generate", !.digest = hash.digest]
      /\ hash' = hash /\ puf' = StartGenerate(puf)
      /\ UNCHANGED <<pfr, rcpu, rom_call, outParam, irqs>>
  BY DEF ReadDigest, Step
<1>3. DOMAIN boot' = DOMAIN boot /\ boot'.slot = boot.slot /\ boot'.verdict = boot.verdict
      /\ boot'.key = boot.key /\ boot'.step = "generate" /\ boot'.digest = hash.digest
  BY <1>1, <1>2
<1>4. PICK n \in 0..ImageBlocks, e \in 0..(BlockWords - 1) : Measured(n, e)
  BY <1>1 DEF RbInv, HashOK
<1>5. n = ImageBlocks
  BY <1>1, <1>4, BlockArith DEF Measured
<1>6. hash.digest = Blocks(boot.slot, ImageBlocks)
  BY <1>1, <1>4, <1>5 DEF Measured
<1>7. HashOK'
  BY <1>3, <1>6 DEF HashOK
<1>8. VerdictOK'
  BY <1>1, <1>2, <1>3, VerdictStands DEF Chosen
<1>9. DOMAIN puf' = DOMAIN puf /\ puf'.keyout = puf.keyout /\ puf'.codein_left = puf.codein_left
  BY <1>1, <1>2 DEF StartGenerate
<1>10. KeyOK'
  BY <1>1, <1>3, <1>9 DEF RbInv, KeyOK
<1> QED BY <1>1, <1>2, <1>3, <1>7, <1>8, <1>9, <1>10, CodeStep

(* The digest is read: only the key moves.                                 *)
LEMMA KeyStep ==
  ASSUME RbInv, rcpu.pc = "code", boot.step \in {"generate", "getkey"},
         boot'.step \in {"generate", "getkey", "booted"}, boot'.slot = boot.slot,
         boot'.verdict = boot.verdict, boot'.digest = boot.digest, hash' = hash,
         UNCHANGED <<pfr, rcpu, rom_call, outParam, irqs>>,
         DOMAIN boot' = DOMAIN boot, DOMAIN puf' = DOMAIN puf, KeyOK'
  PROVE  RbInv'
<1>1. VerdictOK'
  BY VerdictStands DEF Chosen
<1>2. HashOK'
  BY DEF RbInv, HashOK
<1> QED BY <1>1, <1>2, CodeStep

KeyWordSet == {Seed[i] : i \in 1..KeyWords}

LEMMA KeycodeOutRb ==
  ASSUME RbInv, KeycodeOut
  PROVE  RbInv'
<1>1. rcpu.pc = "code" /\ boot.step = "generate"
      /\ DOMAIN boot = {"step", "slot", "verdict", "fed", "digest", "key"}
      /\ DOMAIN puf = {"codeout", "codein_left", "keyout", "busy", "success", "blocked"}
  BY CodeFacts DEF KeycodeOut, InCode
<1>2. hash' = hash /\ UNCHANGED <<pfr, rcpu, rom_call, outParam, irqs>>
  BY DEF KeycodeOut, Step
<1>3. boot.key = <<>>
  BY <1>1 DEF RbInv, KeyOK
<1>4. CASE boot' = boot /\ puf' = PopCodeout(puf)
  <2>1. DOMAIN puf' = DOMAIN puf /\ puf'.keyout = puf.keyout /\ puf'.codein_left = puf.codein_left
    BY <1>1, <1>4 DEF PopCodeout
  <2>2. KeyOK'
    BY <1>1, <1>4, <2>1 DEF RbInv, KeyOK
  <2> QED BY <1>1, <1>2, <1>4, <2>1, <2>2, KeyStep
<1>5. CASE boot' = [boot EXCEPT !.step = "getkey"] /\ puf' = StartGetkey(puf)
  <2>1. DOMAIN puf' = DOMAIN puf /\ puf'.keyout = <<>> /\ puf'.codein_left = KeyWords
        /\ puf'.success = FALSE
    BY <1>1, <1>5 DEF StartGetkey
  <2>2. DOMAIN boot' = DOMAIN boot /\ boot'.slot = boot.slot /\ boot'.verdict = boot.verdict
        /\ boot'.key = <<>> /\ boot'.step = "getkey" /\ boot'.digest = boot.digest
    BY <1>1, <1>3, <1>5
  <2>3. <<>> \in Seq(KeyWordSet) /\ KeyWords \in 0..KeyWords /\ KeyWords # 0
    BY RbConstants
  <2>4. KeyOK'
    BY <2>1, <2>2, <2>3 DEF KeyOK, KeyWordSet
  <2> QED BY <1>1, <1>2, <2>1, <2>2, <2>4, KeyStep
<1> QED BY <1>4, <1>5 DEF KeycodeOut, Step

LEMMA KeycodeInRb ==
  ASSUME RbInv, KeycodeIn
  PROVE  RbInv'
<1>1. rcpu.pc = "code" /\ boot.step = "getkey" /\ puf.codein_left > 0 /\ boot' = boot /\ hash' = hash
      /\ puf' = ConsumeCodein(puf) /\ UNCHANGED <<pfr, rcpu, rom_call, outParam, irqs>>
      /\ DOMAIN puf = {"codeout", "codein_left", "keyout", "busy", "success", "blocked"}
  BY CodeFacts DEF KeycodeIn, InCode, Step
<1>2. puf.codein_left \in 0..KeyWords /\ puf.codein_left # 0 /\ KeyWords \in Nat \ {0}
  BY <1>1, RbConstants DEF RbInv, KeyOK
<1>3. boot.key = <<>> /\ puf.keyout = <<>> /\ ~puf.success
  BY <1>1 DEF RbInv, KeyOK
<1> DEFINE out == IF puf.codein_left = 1 THEN Seed ELSE puf.keyout
<1>4. puf' = [puf EXCEPT !.codein_left = puf.codein_left - 1, !.keyout = out]
  BY <1>1, <1>2 DEF ConsumeCodein
<1>5. Seed \in Seq(KeyWordSet) /\ Len(Seed) = KeyWords /\ <<>> \in Seq(KeyWordSet) /\ Len(<<>>) = 0
  BY <1>2 DEF KeyWordSet, Seed
<1>6. out \in Seq(KeyWordSet)
  BY <1>3, <1>5
<1> HIDE DEF out
<1>7. DOMAIN puf' = DOMAIN puf /\ puf'.codein_left = puf.codein_left - 1 /\ puf'.keyout = out
      /\ puf'.success = puf.success
  BY <1>1, <1>4
<1>8. puf.codein_left - 1 \in 0..KeyWords
      /\ (puf.codein_left - 1 = 0 => puf.codein_left = 1)
      /\ (puf.codein_left - 1 > 0 => puf.codein_left # 1)
  BY <1>2
<1>9. Handed(<<>>, Seed)
  BY <1>2, <1>5 DEF Handed
<1>10. KeyOK'
  <2>1. boot.key \in Seq(KeyWordSet)
    BY <1>3, <1>5
  <2>2. puf'.codein_left > 0 => puf'.keyout = <<>>
    BY <1>3, <1>7, <1>8 DEF out
  <2>3. puf'.codein_left = 0 => Handed(boot.key, puf'.keyout)
    BY <1>3, <1>7, <1>8, <1>9 DEF out
  <2> QED BY <1>1, <1>3, <1>6, <1>7, <1>8, <2>1, <2>2, <2>3 DEF KeyOK, KeyWordSet
<1> QED BY <1>1, <1>7, <1>10, KeyStep

LEMMA HandOver ==
  ASSUME NEW key \in Seq(KeyWordSet), NEW out \in Seq(KeyWordSet), Handed(key, out), out # <<>>
  PROVE  /\ Append(key, Head(out)) \in Seq(KeyWordSet) /\ Tail(out) \in Seq(KeyWordSet)
         /\ Handed(Append(key, Head(out)), Tail(out))
         /\ Len(out) = 1 => Tail(out) = <<>>
<1> DEFINE n == Len(key)
           m == Len(out)
           k == Append(key, Head(out))
           o == Tail(out)
<1>1. n \in Nat /\ m \in Nat /\ m >= 1 /\ n + m = KeyWords /\ KeyWords \in Nat
      /\ (\A i \in 1..n : key[i] = Seed[i]) /\ (\A i \in 1..m : out[i] = Seed[n + i])
  BY RbConstants DEF Handed
<1>2. k \in Seq(KeyWordSet) /\ o \in Seq(KeyWordSet) /\ Len(k) = n + 1 /\ Len(o) = m - 1
      /\ Head(out) = out[1]
  OBVIOUS
<1>3. (\A i \in 1..n : k[i] = key[i]) /\ k[n + 1] = out[1]
  OBVIOUS
<1>4. \A i \in 1..(m - 1) : o[i] = out[i + 1]
  OBVIOUS
<1>5. m = 1 => o = <<>>
  <2>1. \A q \in Seq(KeyWordSet) : Len(q) = 0 => q = <<>>
    OBVIOUS
  <2> HIDE DEF o, m
  <2> QED BY <1>1, <1>2, <2>1
<1> HIDE DEF n, m, k, o
<1>6. \A i \in 1..(n + 1) : k[i] = Seed[i]
  <2> SUFFICES ASSUME NEW i \in 1..(n + 1) PROVE k[i] = Seed[i]
    OBVIOUS
  <2>1. CASE i \in 1..n
    BY <1>1, <1>3, <2>1
  <2>2. CASE i = n + 1
    <3>1. out[1] = Seed[n + 1]
      BY <1>1
    <3> QED BY <1>3, <2>2, <3>1
  <2> QED BY <1>1, <2>1, <2>2
<1>7. \A i \in 1..(m - 1) : o[i] = Seed[n + 1 + i]
  <2> SUFFICES ASSUME NEW i \in 1..(m - 1) PROVE o[i] = Seed[n + 1 + i]
    OBVIOUS
  <2>1. i + 1 \in 1..m /\ n + (i + 1) = n + 1 + i
    BY <1>1
  <2>2. o[i] = out[i + 1] /\ out[i + 1] = Seed[n + (i + 1)]
    BY <1>1, <1>4, <2>1
  <2> QED BY <2>1, <2>2
<1>8. n + 1 + (m - 1) = KeyWords
  BY <1>1
<1>9. Handed(k, o)
  BY <1>2, <1>6, <1>7, <1>8 DEF Handed
<1> QED BY <1>2, <1>5, <1>9 DEF k, o, m

LEMMA KeyOutRb ==
  ASSUME RbInv, KeyOut
  PROVE  RbInv'
<1> DEFINE done == Len(puf.keyout) = 1 /\ puf.codein_left = 0
           k == Append(boot.key, Head(puf.keyout))
           o == Tail(puf.keyout)
           ok == IF done THEN TRUE ELSE puf.success
           by == IF done THEN FALSE ELSE puf.busy
<1>1. /\ rcpu.pc = "code" /\ boot.step = "getkey" /\ puf.keyout # <<>> /\ hash' = hash
      /\ UNCHANGED <<pfr, rcpu, rom_call, outParam, irqs>>
      /\ DOMAIN boot = {"step", "slot", "verdict", "fed", "digest", "key"}
      /\ DOMAIN puf = {"codeout", "codein_left", "keyout", "busy", "success", "blocked"}
  BY CodeFacts DEF KeyOut, InCode, Step
<1>2. boot' = [boot EXCEPT !.key = k] /\ puf' = [puf EXCEPT !.keyout = o, !.busy = by, !.success = ok]
  BY DEF KeyOut, Step, PopKeyout
<1>3. puf.codein_left = 0 /\ Handed(boot.key, puf.keyout) /\ ~puf.success
      /\ boot.key \in Seq(KeyWordSet) /\ puf.keyout \in Seq(KeyWordSet)
  <2>1. puf.codein_left \in 0..KeyWords /\ boot.key \in Seq(KeyWordSet) /\ puf.keyout \in Seq(KeyWordSet)
    BY DEF RbInv, KeyOK, KeyWordSet
  <2>2. ~(puf.codein_left > 0) /\ ~puf.success
    BY <1>1 DEF RbInv, KeyOK
  <2>3. puf.codein_left = 0
    BY <2>1, <2>2, RbConstants
  <2> QED BY <1>1, <2>1, <2>2, <2>3 DEF RbInv, KeyOK
<1>4. k \in Seq(KeyWordSet) /\ o \in Seq(KeyWordSet) /\ Handed(k, o) /\ (Len(puf.keyout) = 1 => o = <<>>)
  BY <1>1, <1>3, HandOver
<1>5. ok => o = <<>>
  BY <1>3, <1>4
<1> HIDE DEF k, o, ok, by
<1>6. /\ DOMAIN boot' = DOMAIN boot /\ DOMAIN puf' = DOMAIN puf /\ boot'.key = k
      /\ boot'.step = "getkey" /\ boot'.slot = boot.slot /\ boot'.verdict = boot.verdict
      /\ boot'.digest = boot.digest /\ puf'.keyout = o /\ puf'.success = ok
      /\ puf'.codein_left = puf.codein_left
  BY <1>1, <1>2
<1>7. ~(0 > 0) /\ 0 \in 0..KeyWords
  BY RbConstants
<1>8. KeyOK'
  BY <1>3, <1>4, <1>5, <1>6, <1>7 DEF KeyOK, KeyWordSet
<1> QED BY <1>1, <1>6, <1>8, KeyStep

LEMMA BlockIndexRb ==
  ASSUME RbInv, BlockIndex
  PROVE  RbInv'
<1>1. /\ rcpu.pc = "code" /\ boot.step = "getkey" /\ puf.success /\ hash' = hash
      /\ UNCHANGED <<pfr, rcpu, rom_call, outParam, irqs>>
      /\ boot' = [boot EXCEPT !.step = "booted"] /\ puf' = [puf EXCEPT !.blocked = TRUE]
      /\ DOMAIN boot = {"step", "slot", "verdict", "fed", "digest", "key"}
      /\ DOMAIN puf = {"codeout", "codein_left", "keyout", "busy", "success", "blocked"}
  BY CodeFacts DEF BlockIndex, InCode, Step
<1>2. puf.codein_left = 0 /\ puf.keyout = <<>> /\ Handed(boot.key, <<>>)
      /\ boot.key \in Seq(KeyWordSet) /\ puf.keyout \in Seq(KeyWordSet)
  BY <1>1 DEF RbInv, KeyOK, KeyWordSet
<1>3. Len(boot.key) = KeyWords /\ \A i \in 1..KeyWords : boot.key[i] = Seed[i]
  BY <1>2, RbConstants DEF Handed
<1>4. boot.key = Seed
  <2>1. boot.key = [i \in 1..KeyWords |-> boot.key[i]]
    BY <1>2, <1>3
  <2>2. Seed = [i \in 1..KeyWords |-> Seed[i]]
    BY DEF Seed
  <2> QED BY <1>3, <2>1, <2>2
<1>5. /\ DOMAIN boot' = DOMAIN boot /\ DOMAIN puf' = DOMAIN puf /\ boot'.key = boot.key
      /\ boot'.step = "booted" /\ boot'.slot = boot.slot /\ boot'.verdict = boot.verdict
      /\ boot'.digest = boot.digest /\ puf'.keyout = puf.keyout
      /\ puf'.codein_left = puf.codein_left /\ puf'.blocked
  BY <1>1
<1>6. 0 \in 0..KeyWords
  BY RbConstants
<1>7. KeyOK'
  BY <1>2, <1>4, <1>5, <1>6 DEF KeyOK, KeyWordSet
<1> QED BY <1>1, <1>5, <1>7, KeyStep

LEMMA InitRb == RbInit => RbInv
<1> SUFFICES ASSUME RbInit PROVE RbInv
  OBVIOUS
<1>1. /\ rcpu = [pc |-> "code", lr |-> "code", r0 |-> "a", r1 |-> "a", stack |-> <<>>, active |-> {}]
      /\ rom_call = RomIdle /\ outParam = [s \in Slots |-> FALSE]
      /\ hash = [state |-> <<>>, fill |-> <<>>, digest |-> <<>>, digestReady |-> FALSE]
      /\ puf = [codeout |-> <<>>, codein_left |-> 0, keyout |-> <<>>, busy |-> FALSE,
                success |-> FALSE, blocked |-> FALSE]
      /\ boot = [step |-> "auth", slot |-> "a", verdict |-> <<>>, fed |-> 0, digest |-> <<>>, key |-> <<>>]
      /\ irqs = 0
  BY DEF RbInit
<1>2. rcpu \in RcpuState /\ rcpu.stack = <<>> /\ Frame.pc = "code"
  BY <1>1 DEF RcpuState, Pcs, Regs, Frame
<1>3. FramesOK /\ Main.pc = "code"
  BY <1>2 DEF FramesOK, MainFrame, Main
<1>4. rom_call \in [k : {"Idle", "Settling"}, left : 0..Settle_Steps, ptr : Slots, ok : BOOLEAN]
      /\ rom_call.k = "Idle"
  BY <1>1, RbConstants DEF RomIdle, Slots
<1>5. outParam \in [Slots -> BOOLEAN] /\ irqs \in 0..MaxIrqs
  BY <1>1, RbConstants
<1>6. RbTypeOK
  BY <1>1, <1>2, <1>4, <1>5 DEF RbTypeOK, RbInit
<1>7. CallOK
  BY <1>1, <1>3, <1>4 DEF CallOK
<1>8. VerdictOK
  BY <1>1 DEF VerdictOK, Steps
<1>9. HashOK
  BY <1>1 DEF HashOK
<1>10. <<>> \in Seq(KeyWordSet) /\ 0 \in 0..KeyWords
  BY RbConstants
<1>11. KeyOK
  BY <1>1, <1>10 DEF KeyOK, KeyWordSet
<1> QED BY <1>3, <1>6, <1>7, <1>8, <1>9, <1>11 DEF RbInv

LEMMA StutterRb ==
  ASSUME RbInv, UNCHANGED rbVars
  PROVE  RbInv'
<1>1. UNCHANGED <<pfr, rcpu, rom_call, outParam, hash, puf, boot, irqs>>
  BY DEF rbVars
<1>2. FramesOK' /\ Main' = Main
  BY <1>1 DEF RbInv, FramesOK, Main, Frame
<1>3. rcpu' \in RcpuState /\ irqs' \in 0..MaxIrqs
  BY <1>1 DEF RbInv, RbTypeOK
<1> QED BY <1>1, <1>2, <1>3, MainKeeps

(* The boot path is always in one of these states, for images and keys of  *)
(* any length, any number of settling steps and of interrupts.             *)
THEOREM BootInvariance == RbSpec => []RbInv
<1>1. RbInit => RbInv
  BY InitRb
<1>2. ASSUME RbInv, RbNext PROVE RbInv'
  <2>1. Finished => UNCHANGED rbVars
    BY DEF Finished
  <2> QED BY <1>2, <2>1, RomDispatchRb, InterruptRb, HashcryptRb, ExceptionEndRb, CallAuthRb,
             AuthReturnedRb, SelectRb, FeedRb, RemeasureRb, ReadDigestRb, KeycodeOutRb,
             KeycodeInRb, KeyOutRb, BlockIndexRb, StutterRb DEF RbNext
<1>3. RbInv /\ [RbNext]_rbVars => RbInv'
  BY <1>2, StutterRb
<1> QED BY <1>1, <1>3, PTL DEF RbSpec

(* What rom_dispatch answers for a slot is what bootleby acts on, however  *)
(* the parked call was interrupted: the image booted is a verified one.    *)
THEOREM OnlyVerifiedBoots == RbSpec => []BootedImageVerified
<1>1. RbInv => BootedImageVerified
  <2> SUFFICES ASSUME RbInv PROVE BootedImageVerified
    OBVIOUS
  <2> DEFINE newer == {c \in Cfpas : \A d \in Cfpas : pfr.version[c] >= pfr.version[d]}
             cfpa  == IF "ping" \in newer THEN "ping" ELSE "pong"
             valid == pfr.signed \ pfr.revoked[cfpa]
  <2>1. pfr.version["ping"] \in 0..1 /\ pfr.version["pong"] \in 0..1 /\ pfr.signed \subseteq Slots
        /\ pfr.pref \in Slots
    BY DEF RbInv, RbTypeOK, Cfpas
  <2>2. "ping" \in newer <=> pfr.version["ping"] >= pfr.version["pong"]
    BY <2>1 DEF Cfpas
  <2>3. cfpa = ActiveCfpa
    BY <2>2 DEF ActiveCfpa
  <2>4. \A s : VerifySlot(s) <=> s \in valid
    BY <2>3 DEF VerifySlot
  <2>5. valid \subseteq Slots
    BY <2>1
  <2> HIDE DEF valid
  <2>6. boot.step \in {"measure", "generate", "getkey", "booted"} =>
           boot.slot \in valid /\ (pfr.pref \in valid => boot.slot = pfr.pref)
    BY <2>4 DEF RbInv, VerdictOK
  <2>7. boot.step = "panic" => valid = {}
    BY <2>4, <2>5 DEF RbInv, VerdictOK
  <2> QED BY <2>6, <2>7 DEF BootedImageVerified, valid
<1> QED BY <1>1, BootInvariance, PTL

(* The digest HASHCRYPT gives covers exactly the image that is booted; by  *)
(* then the key the PUF streamed is whole and its index is blocked.        *)
THEOREM BootIdentity == RbSpec => []IdentityIsBound
<1>1. RbInv => IdentityIsBound
  BY BlocksAreTheImage DEF RbInv, HashOK, KeyOK, IdentityIsBound
<1> QED BY <1>1, BootInvariance, PTL

-----------------------------------------------------------------------------
(* The flash: words, rows and pages                                        *)

(* A set of natural numbers that is not empty has a least element.         *)
LEMMA LessIsWellFounded == IsWellFoundedOn({ss \in Nat \X Nat : ss[1] < ss[2]}, Nat)
  BY NatLessThanWellFounded, Zenon DEF OpToRel

LEMMA LeastElement ==
  ASSUME NEW T \in SUBSET Nat, T # {}
  PROVE  \E x \in T : \A y \in T : x <= y
<1> DEFINE R == {ss \in Nat \X Nat : ss[1] < ss[2]}
<1>1. \A x, y \in Nat : x < y => <<x, y>> \in R
  OBVIOUS
<1>2. IsWellFoundedOn(R, Nat)
  BY LessIsWellFounded
<1> HIDE DEF R
<1>3. PICK x \in T : \A y \in T : ~(<<y, x>> \in R)
  BY <1>2, WFMin, Zenon
<1>4. ASSUME NEW y \in T PROVE x <= y
  <2>1. x \in Nat /\ y \in Nat
    OBVIOUS
  <2>2. ~(y < x)
    BY <1>1, <1>3, <2>1
  <2> QED BY <2>1, <2>2
<1> QED BY <1>4

(* The product of an earlier page number leaves room for a whole page.     *)
LEMMA PageBelow ==
  ASSUME NEW a \in Int, NEW b \in Int, a < b
  PROVE  a * RfRows + RfRows <= b * RfRows
<1>1. PICK d \in Nat : b = a + 1 + d
  <2>1. b - a - 1 \in Nat /\ b = a + 1 + (b - a - 1)
    OBVIOUS
  <2> QED BY <2>1
<1>2. RfRows \in Nat
  BY RotFlashAssumption
<1>3. (a + 1 + d) * RfRows = a * RfRows + RfRows + d * RfRows /\ d * RfRows \in Nat
  BY <1>2
<1> QED BY <1>1, <1>2, <1>3

(* A word is row w % RfRows of page PageOf(w).                             *)
LEMMA WordInPage ==
  ASSUME NEW w \in Nat
  PROVE  /\ PageOf(w) \in Nat /\ w % RfRows \in Row
         /\ w = PageOf(w) * RfRows + (w % RfRows)
<1>1. RfRows \in Nat \ {0}
  BY RotFlashAssumption
<1>2. w \div RfRows \in Nat /\ w % RfRows \in 0..(RfRows - 1) /\ w = RfRows * (w \div RfRows) + (w % RfRows)
  BY <1>1
<1>3. RfRows * (w \div RfRows) = (w \div RfRows) * RfRows
  BY <1>1, <1>2
<1>4. w = (w \div RfRows) * RfRows + (w % RfRows)
  BY <1>2, <1>3, Zenon
<1> QED BY <1>2, <1>4, Zenon DEF PageOf, Row

LEMMA WordOfRow ==
  ASSUME NEW p \in Nat, NEW r \in Row
  PROVE  p * RfRows + r \in Nat /\ PageOf(p * RfRows + r) = p /\ (p * RfRows + r) % RfRows = r
<1>0. RfRows \in Nat \ {0} /\ r \in Nat /\ r < RfRows
  BY RotFlashAssumption DEF Row
<1> DEFINE w == p * RfRows + r
           q == PageOf(w)
           s == w % RfRows
           pr == p * RfRows
           qr == q * RfRows
<1>1. w \in Nat /\ pr \in Nat /\ w = pr + r
  BY <1>0
<1>2. q \in Nat /\ s \in 0..(RfRows - 1) /\ w = qr + s
  BY <1>1, WordInPage, Zenon DEF Row
<1>3. qr \in Nat
  BY <1>0, <1>2
<1>4. q < p => qr + RfRows <= pr
  BY <1>2, PageBelow
<1>5. p < q => pr + RfRows <= qr
  BY <1>2, PageBelow
<1>6. q = p => qr = pr
  OBVIOUS
<1> HIDE DEF q, s, pr, qr, w
<1>7. q = p
  BY <1>0, <1>1, <1>2, <1>3, <1>4, <1>5
<1>8. s = r
  BY <1>0, <1>1, <1>2, <1>3, <1>6, <1>7
<1> QED BY <1>1, <1>7, <1>8 DEF q, s, w

(* The words of the array are the rows of its pages.                       *)
LEMMA WordsAreRows ==
  /\ \A w \in WordNo : w \in Nat /\ PageOf(w) \in Page
  /\ \A p \in Page : \A r \in Row : p * RfRows + r \in WordNo
<1>0. RfRows \in Nat \ {0} /\ RfPages \in Nat \ {0} /\ RfPages * RfRows \in Nat
  BY RotFlashAssumption
<1>1. ASSUME NEW w \in WordNo PROVE w \in Nat /\ PageOf(w) \in Page
  <2> DEFINE N == RfPages * RfRows
  <2>1. w \in Nat /\ w < N
    BY <1>0 DEF WordNo
  <2> DEFINE q == PageOf(w)
             qr == q * RfRows
             s == w % RfRows
  <2>2. q \in Nat /\ s \in Row /\ w = qr + s
    BY <2>1, WordInPage, Zenon
  <2>3. qr \in Nat /\ s \in Nat
    BY <1>0, <2>2 DEF Row
  <2>4. RfPages < q => N + RfRows <= qr
    BY <1>0, <2>2, PageBelow
  <2>5. RfPages = q => N = qr
    OBVIOUS
  <2> HIDE DEF q, qr, s, N
  <2>6. q < RfPages
    BY <1>0, <2>1, <2>2, <2>3, <2>4, <2>5 DEF N
  <2> QED BY <1>0, <2>1, <2>2, <2>6 DEF q, Page
<1>2. ASSUME NEW p \in Page, NEW r \in Row PROVE p * RfRows + r \in WordNo
  <2>1. p \in Nat /\ p < RfPages /\ r \in Nat /\ r < RfRows
    BY <1>0 DEF Page, Row
  <2> DEFINE N == RfPages * RfRows
             pr == p * RfRows
  <2>2. pr \in Nat /\ N \in Nat
    BY <1>0, <2>1
  <2>3. pr + RfRows <= N
    BY <1>0, <2>1, PageBelow
  <2> HIDE DEF N, pr
  <2>4. pr + r \in 0..N - 1
    BY <1>0, <2>1, <2>2, <2>3
  <2> QED BY <2>4 DEF N, pr, WordNo
<1> QED BY <1>1, <1>2

LEMMA RowBounds ==
  ASSUME NEW p \in Int, NEW x \in Int, NEW y \in Int, NEW r \in Row
  PROVE  /\ p * RfRows + r < (p + 1) * RfRows
         /\ x <= p => x * RfRows <= p * RfRows + r
         /\ p < x => p * RfRows + r < x * RfRows
         /\ p <= y => p * RfRows + r < (y + 1) * RfRows
         /\ y < p => (y + 1) * RfRows <= p * RfRows + r
<1> DEFINE pr == p * RfRows
           xr == x * RfRows
           yr == (y + 1) * RfRows
           qr == (p + 1) * RfRows
<1>1. RfRows \in Nat \ {0} /\ r \in Nat /\ r < RfRows
  BY RotFlashAssumption DEF Row
<1>2. pr \in Int /\ xr \in Int /\ yr \in Int /\ qr \in Int /\ p + 1 \in Int /\ y + 1 \in Int
  BY <1>1
<1>3. pr + RfRows <= qr
  BY <1>2, PageBelow
<1>4. x < p => xr + RfRows <= pr
  BY PageBelow
<1>5. x = p => xr = pr
  OBVIOUS
<1>6. p < x => pr + RfRows <= xr
  BY PageBelow
<1>7. p < y + 1 => pr + RfRows <= yr
  BY <1>2, PageBelow
<1>8. y + 1 < p => yr + RfRows <= pr
  BY <1>2, PageBelow
<1>9. y + 1 = p => yr = pr
  OBVIOUS
<1> HIDE DEF pr, xr, yr, qr
<1>10. /\ pr + r < qr
       /\ x <= p => xr <= pr + r
       /\ p < x => pr + r < xr
       /\ p <= y => pr + r < yr
       /\ y < p => yr <= pr + r
  BY <1>1, <1>2, <1>3, <1>4, <1>5, <1>6, <1>7, <1>8, <1>9
<1> QED BY <1>10 DEF pr, xr, yr, qr
-----------------------------------------------------------------------------
(* The flash: the inductive invariant                                      *)

Ack == [k : {"any", "erased", "data"}, v : [Row -> BOOLEAN]]

FlashType == [mem : [WordNo -> BOOLEAN], erased : SUBSET Page, page_buf : [Row -> BOOLEAN], file : BOOLEAN]
DiskType  == [data : Seq(BOOLEAN), bits : SUBSET Page, exists : BOOLEAN, hasBits : BOOLEAN]
DrvType   == [st : {"idle", "rows"}, page : 0..RfPages, row : 0..RfRows, data : [Row -> BOOLEAN]]
StoredType == [array : SUBSET Page, bits : SUBSET Page]
AnsType   == [status : SUBSET {"fail", "ecc"}, dataw : Nat]
RespType  == [cmd : {"none", "read", "blank", "other"}, a : Nat, b : Nat, ans : AnsType]

RfTypeOK ==
  /\ rf \in FlashType
  /\ rfDisk \in DiskType
  /\ rfAlive \in BOOLEAN
  /\ rfDrv \in DrvType
  /\ rfAck \in [Page -> Ack]
  /\ rfStored \in StoredType
  /\ rfResp \in RespType

(* The erased set e agrees with what was made of a page, and so does the   *)
(* array m.                                                                *)
BitMatches(k, p, e) ==
  /\ k.k = "erased" => p \in e
  /\ k.k = "data" => p \notin e
PageMatches(k, p, e, m) ==
  /\ BitMatches(k, p, e)
  /\ k.k = "data" => \A r \in Row : m[p * RfRows + r] = k.v[r]

(* The array file reaches the page and agrees with it: where it ends new() *)
(* sees erased words, and in its gaps cleared ones.                        *)
FileMatches(k, p, d) ==
  k.k = "data" => \A r \in Row : p * RfRows + r < Len(d.data) /\ d.data[p * RfRows + r + 1] = k.v[r]

(* The running engine has every page as the last command made it ...       *)
MemOK == rfAlive => \A p \in Page : PageMatches(rfAck[p], p, rf.erased, rf.mem)

(* ... and so has each of the files, separately: they come apart and are   *)
(* brought together again by later commands.                               *)
DiskOK ==
  /\ \A p \in rfStored.bits : BitMatches(rfAck[p], p, rfDisk.bits)
  /\ \A p \in rfStored.array : FileMatches(rfAck[p], p, rfDisk)

(* Without a process, only what is in both files is known ...              *)
KnownOK == ~rfAlive => \A p \in Page : rfAck[p].k # "any" => p \in rfStored.array /\ p \in rfStored.bits

(* ... and nothing is answered, nor in the middle of a page write.         *)
AnswerOK == ~rfAlive \/ rfDrv.st = "rows" => rfResp = NoResp

(* A page write under way: its page is erased and the rows loaded so far   *)
(* are in the buffer, whatever an abandoned write left there.              *)
DrvOK ==
  rfAlive /\ rfDrv.st = "rows" =>
    \A r \in Row : /\ rfDrv.page \in Page => rf.mem[rfDrv.page * RfRows + r] = TRUE
                   /\ r < rfDrv.row => rf.page_buf[r] = rfDrv.data[r]

RfInv == RfTypeOK /\ MemOK /\ DiskOK /\ KnownOK /\ AnswerOK /\ DrvOK /\ RfReadBack

LEMMA AckTypes ==
  /\ BlankBuf \in [Row -> BOOLEAN]
  /\ Unknowable \in Ack /\ Unknowable.k = "any"
  /\ AckErased \in Ack /\ AckErased.k = "erased"
  /\ \A v \in [Row -> BOOLEAN] : Data(v) \in Ack /\ Data(v).k = "data" /\ Data(v).v = v
<1>1. BlankBuf \in [Row -> BOOLEAN]
  BY DEF BlankBuf
<1> QED BY <1>1 DEF Unknowable, AckErased, Data, Ack

-----------------------------------------------------------------------------
(* The flash: what is in the files after a write                           *)

(* x is d with words lo.. of m, n of them.                                 *)
Wrote(x, d, m, lo, n) ==
  /\ x \in DiskType /\ x.bits = d.bits
  /\ Len(d.data) <= Len(x.data)
  /\ \A w \in Nat : w < Len(d.data) /\ ~(lo <= w /\ w < lo + n) => x.data[w + 1] = d.data[w + 1]
  /\ \A w \in Nat : lo <= w /\ w < lo + n => w < Len(x.data) /\ x.data[w + 1] = m[w]

LEMMA PutWordsOK ==
  ASSUME NEW d \in DiskType, NEW m \in [WordNo -> BOOLEAN], NEW lo \in Nat, NEW n \in Nat,
         lo + n <= RfPages * RfRows
  PROVE  Wrote(PutWords(d, m, lo, n), d, m, lo, n)
<1> DEFINE x == PutWords(d, m, lo, n)
           old == Len(d.data)
           len == IF n = 0 \/ old > lo + n THEN old ELSE lo + n
           Cell(i) == IF i > lo /\ i <= lo + n THEN m[i - 1]
                      ELSE IF i <= old THEN d.data[i] ELSE FALSE
           N == RfPages * RfRows
<1>0. d.data \in Seq(BOOLEAN) /\ N \in Nat
  BY RotFlashAssumption DEF DiskType
<1>1. old \in Nat /\ d.data \in [1..old -> BOOLEAN]
  BY <1>0
<1>2. x = [d EXCEPT !.exists = TRUE, !.data = [i \in 1..len |-> Cell(i)]]
  BY DEF PutWords
<1> HIDE DEF old, N
<1>3. len \in Nat /\ old <= len /\ (n > 0 => lo + n <= len) /\ (n = 0 => len = old)
  BY <1>1
<1>4. ASSUME NEW i \in 1..len PROVE Cell(i) \in BOOLEAN
  <2>1. CASE i > lo /\ i <= lo + n
    <3>1. i - 1 \in WordNo
      BY <2>1, <1>0, <1>3 DEF WordNo, N
    <3> QED BY <2>1, <3>1
  <2>2. CASE ~(i > lo /\ i <= lo + n) /\ i <= old
    BY <2>2, <1>1, <1>3
  <2>3. CASE ~(i > lo /\ i <= lo + n) /\ ~(i <= old)
    BY <2>3
  <2> QED BY <2>1, <2>2, <2>3
<1>5. x.data = [i \in 1..len |-> Cell(i)] /\ x.bits = d.bits
  BY <1>2 DEF DiskType
<1> HIDE DEF Cell, len
<1>6. x.data \in [1..len -> BOOLEAN]
  BY <1>4, <1>5
<1>7. x.data \in Seq(BOOLEAN) /\ Len(x.data) = len
  BY <1>3, <1>6
<1>8. x \in DiskType
  <2>1. [i \in 1..len |-> Cell(i)] \in Seq(BOOLEAN)
    BY <1>5, <1>7
  <2> QED BY <1>2, <2>1, Zenon DEF DiskType
<1>9. ASSUME NEW w \in Nat, w < len PROVE x.data[w + 1] = Cell(w + 1)
  BY <1>3, <1>5, <1>9
<1>10. ASSUME NEW w \in Nat, w < old, ~(lo <= w /\ w < lo + n) PROVE x.data[w + 1] = d.data[w + 1]
  <2>1. x.data[w + 1] = Cell(w + 1)
    BY <1>1, <1>3, <1>9, <1>10
  <2>2. ~(w + 1 > lo /\ w + 1 <= lo + n) /\ w + 1 <= old
    BY <1>1, <1>10
  <2> QED BY <2>1, <2>2 DEF Cell
<1>11. ASSUME NEW w \in Nat, lo <= w /\ w < lo + n PROVE w < len /\ x.data[w + 1] = m[w]
  <2>0. w < len
    BY <1>3, <1>11
  <2>1. x.data[w + 1] = Cell(w + 1)
    BY <1>9, <2>0
  <2>2. w + 1 > lo /\ w + 1 <= lo + n /\ (w + 1) - 1 = w
    BY <1>11
  <2> QED BY <2>0, <2>1, <2>2 DEF Cell
<1> QED BY <1>3, <1>5, <1>7, <1>8, <1>10, <1>11 DEF old, Wrote

(* Outcome o of writing n words from lo of f to the files d: the bitset is *)
(* as it was or has the first pages of f, what is outside of the range     *)
(* stays, and a whole write has stored all of it.                          *)
Persisted(o, f, d, lo, n) ==
  /\ o.d \in DiskType /\ o.alive \in BOOLEAN /\ o.f \in {f, [f EXCEPT !.file = FALSE]}
  /\ o.opened \in BOOLEAN /\ o.whole \in BOOLEAN
  /\ o.opened = TRUE => o.d.bits = {p \in Page : p < o.upto => p \in f.erased}
  /\ o.opened = FALSE => o.d.bits = d.bits
  /\ Len(d.data) <= Len(o.d.data)
  /\ \A w \in Nat : w < Len(d.data) =>
       \/ o.d.data[w + 1] = d.data[w + 1]
       \/ lo <= w /\ w < lo + n /\ o.d.data[w + 1] = f.mem[w]
  /\ o.whole = TRUE =>
       \A w \in Nat : lo <= w /\ w < lo + n => w < Len(o.d.data) /\ o.d.data[w + 1] = f.mem[w]

(* The bitset alone.                                                       *)
BitsWritten(b, d, e) ==
  /\ b.d \in DiskType /\ b.d.data = d.data /\ b.opened \in BOOLEAN
  /\ b.opened = TRUE => b.d.bits = {p \in Page : p < b.upto => p \in e}
  /\ b.opened = FALSE => b.d.bits = d.bits

LEMMA WriteBitsOK ==
  ASSUME NEW d \in DiskType, NEW e \in SUBSET Page, NEW b \in WriteBits(d, e)
  PROVE  BitsWritten(b, d, e)
<1>1. CASE b = [d |-> d, opened |-> FALSE, upto |-> 0]
  BY <1>1 DEF BitsWritten
<1>2. CASE \E n \in 0..RfPages : b = [d |-> PutBits(d, e, n), opened |-> TRUE, upto |-> n]
  <2>1. PICK n \in 0..RfPages : b = [d |-> PutBits(d, e, n), opened |-> TRUE, upto |-> n]
    BY <1>2
  <2> DEFINE s == {p \in Page : p < n => p \in e}
  <2>2. s \in SUBSET Page
    OBVIOUS
  <2> HIDE DEF s
  <2>3. PutBits(d, e, n) = [d EXCEPT !.bits = s, !.hasBits = TRUE]
    BY DEF PutBits, s
  <2>4. [d EXCEPT !.bits = s, !.hasBits = TRUE] \in DiskType
    BY <2>2, Zenon DEF DiskType
  <2>5. [d EXCEPT !.bits = s, !.hasBits = TRUE].bits = s /\ [d EXCEPT !.bits = s, !.hasBits = TRUE].data = d.data
    BY DEF DiskType
  <2>6. b.d = [d EXCEPT !.bits = s, !.hasBits = TRUE] /\ b.opened = TRUE /\ b.upto = n
    BY <2>1, <2>3
  <2>7. b.d \in DiskType /\ b.d.data = d.data /\ b.d.bits = s
    BY <2>4, <2>5, <2>6
  <2> QED BY <2>6, <2>7 DEF s, BitsWritten
<1> QED BY <1>1, <1>2 DEF WriteBits

(* The array alone: a is an outcome of writing it.                         *)
ArrayWritten(a, f, d, lo, n) ==
  /\ a.d \in DiskType /\ a.d.bits = d.bits /\ a.whole \in BOOLEAN
  /\ a.f \in {f, [f EXCEPT !.file = FALSE]}
  /\ Len(d.data) <= Len(a.d.data)
  /\ \A w \in Nat : w < Len(d.data) =>
       \/ a.d.data[w + 1] = d.data[w + 1]
       \/ lo <= w /\ w < lo + n /\ a.d.data[w + 1] = f.mem[w]
  /\ a.whole = TRUE =>
       \A w \in Nat : lo <= w /\ w < lo + n => w < Len(a.d.data) /\ a.d.data[w + 1] = f.mem[w]

LEMMA WriteArrayOK ==
  ASSUME NEW f \in FlashType, NEW d \in DiskType, NEW lo \in Int, NEW n \in Int,
         f.file = TRUE => lo \in Nat /\ n \in Nat /\ lo + n <= RfPages * RfRows,
         NEW a \in WriteArray(f, d, lo, n)
  PROVE  ArrayWritten(a, f, d, lo, n)
<1>1. f.mem \in [WordNo -> BOOLEAN] /\ f.file \in BOOLEAN /\ Len(d.data) \in Nat
  BY DEF FlashType, DiskType
<1>2. CASE f.file = FALSE
  <2>1. a = [d |-> d, f |-> f, whole |-> FALSE]
    BY <1>2 DEF WriteArray
  <2> QED BY <1>1, <2>1 DEF ArrayWritten
<1>3. CASE f.file = TRUE
  <2>0. lo \in Nat /\ n \in Nat /\ lo + n <= RfPages * RfRows
    BY <1>3
  <2>1. \/ a = [d |-> PutWords(d, f.mem, lo, n), f |-> f, whole |-> TRUE]
        \/ \E k \in 0..n : a = [d |-> PutWords(d, f.mem, lo, k), f |-> [f EXCEPT !.file = FALSE], whole |-> FALSE]
    BY <1>3 DEF WriteArray
  <2>2. PICK k \in 0..n : /\ a.d = PutWords(d, f.mem, lo, k) /\ a.whole \in BOOLEAN /\ (a.whole = TRUE => k = n)
                          /\ a.f \in {f, [f EXCEPT !.file = FALSE]}
    <3>1. CASE a = [d |-> PutWords(d, f.mem, lo, n), f |-> f, whole |-> TRUE]
      <4>1. n \in 0..n
        BY <2>0
      <4> QED BY <3>1, <4>1
    <3>2. CASE \E k \in 0..n : a = [d |-> PutWords(d, f.mem, lo, k), f |-> [f EXCEPT !.file = FALSE], whole |-> FALSE]
      BY <3>2
    <3> QED BY <2>1, <3>1, <3>2
  <2>3. k \in Nat /\ k <= n /\ lo + k <= RfPages * RfRows
    <3> DEFINE N == RfPages * RfRows
    <3>1. N \in Nat
      BY RotFlashAssumption
    <3> HIDE DEF N
    <3>2. lo + n <= N
      BY <2>0 DEF N
    <3>3. k \in Nat /\ k <= n /\ lo + k <= N
      BY <2>0, <3>1, <3>2
    <3> QED BY <3>3 DEF N
  <2>4. Wrote(a.d, d, f.mem, lo, k)
    BY <1>1, <2>0, <2>2, <2>3, PutWordsOK
  <2>5. ASSUME NEW w \in Nat, w < Len(d.data)
        PROVE  \/ a.d.data[w + 1] = d.data[w + 1]
               \/ lo <= w /\ w < lo + n /\ a.d.data[w + 1] = f.mem[w]
    <3>1. CASE lo <= w /\ w < lo + k
      <4>1. lo <= w /\ w < lo + n
        BY <2>0, <2>3, <3>1
      <4> QED BY <2>4, <3>1, <4>1 DEF Wrote
    <3>2. CASE ~(lo <= w /\ w < lo + k)
      BY <2>4, <2>5, <3>2 DEF Wrote
    <3> QED BY <3>1, <3>2
  <2>6. a.whole = TRUE =>
          \A w \in Nat : lo <= w /\ w < lo + n => w < Len(a.d.data) /\ a.d.data[w + 1] = f.mem[w]
    BY <2>2, <2>4 DEF Wrote
  <2>7. a.d \in DiskType /\ a.d.bits = d.bits /\ Len(d.data) <= Len(a.d.data)
    BY <2>4 DEF Wrote
  <2> QED BY <2>2, <2>5, <2>6, <2>7 DEF ArrayWritten
<1> QED BY <1>1, <1>2, <1>3

LEMMA OutcomesOK ==
  ASSUME NEW f \in FlashType, NEW d \in DiskType, NEW lo \in Int, NEW n \in Int,
         f.file = TRUE => lo \in Nat /\ n \in Nat /\ lo + n <= RfPages * RfRows,
         NEW o \in Outcomes(f, d, lo, n)
  PROVE  Persisted(o, f, d, lo, n)
<1>0. PICK a \in WriteArray(f, d, lo, n) :
        o \in {[d |-> b.d, f |-> a.f, whole |-> a.whole, opened |-> b.opened, upto |-> b.upto, alive |-> alive] :
                 b \in WriteBits(a.d, f.erased), alive \in BOOLEAN}
  BY DEF Outcomes
<1>1. PICK b \in WriteBits(a.d, f.erased), alive \in BOOLEAN :
        o = [d |-> b.d, f |-> a.f, whole |-> a.whole, opened |-> b.opened, upto |-> b.upto, alive |-> alive]
  BY <1>0
<1>2. ArrayWritten(a, f, d, lo, n)
  BY WriteArrayOK, Zenon
<1>3. f.erased \in SUBSET Page /\ a.d \in DiskType
  BY <1>2 DEF FlashType, ArrayWritten
<1>4. BitsWritten(b, a.d, f.erased)
  BY <1>3, WriteBitsOK, Zenon
<1>5. /\ o.d = b.d /\ o.f = a.f /\ o.whole = a.whole /\ o.opened = b.opened /\ o.upto = b.upto
      /\ o.alive \in BOOLEAN
  BY <1>1
<1> QED BY <1>2, <1>4, <1>5 DEF Persisted, ArrayWritten, BitsWritten

(* An outcome of a command or of a start that made the pages ps: every     *)
(* word of the array file is as before or as in f, and a whole write has   *)
(* stored ps.                                                              *)
Saved(o, f, d, ps) ==
  /\ o.d \in DiskType /\ o.alive \in BOOLEAN /\ o.f \in {f, [f EXCEPT !.file = FALSE]}
  /\ o.opened \in BOOLEAN /\ o.whole \in BOOLEAN
  /\ o.opened = TRUE => o.d.bits = {p \in Page : p < o.upto => p \in f.erased}
  /\ o.opened = FALSE => o.d.bits = d.bits
  /\ Len(d.data) <= Len(o.d.data)
  /\ \A w \in Nat : w < Len(d.data) => o.d.data[w + 1] \in {d.data[w + 1], f.mem[w]}
  /\ o.whole = TRUE =>
       \A p \in ps : \A r \in Row :
         p * RfRows + r < Len(o.d.data) /\ o.d.data[p * RfRows + r + 1] = f.mem[p * RfRows + r]

LEMMA UnwrittenOK ==
  ASSUME NEW f \in FlashType, rfDisk \in DiskType, NEW alive \in BOOLEAN, NEW ps
  PROVE  Saved(Unwritten(f, alive), f, rfDisk, ps)
<1>1. Len(rfDisk.data) \in Nat
  BY DEF DiskType
<1> QED BY <1>1 DEF Unwritten, Saved

LEMMA PersistedSaves ==
  ASSUME NEW o, NEW f, NEW d, NEW lo, NEW n, Persisted(o, f, d, lo, n), NEW ps \in SUBSET Page,
         \A p \in ps : \A r \in Row : lo <= p * RfRows + r /\ p * RfRows + r < lo + n
  PROVE  Saved(o, f, d, ps)
<1>1. ASSUME o.whole = TRUE, NEW p \in ps, NEW r \in Row
      PROVE  p * RfRows + r < Len(o.d.data) /\ o.d.data[p * RfRows + r + 1] = f.mem[p * RfRows + r]
  <2> DEFINE w == p * RfRows + r
  <2>1. w \in Nat /\ lo <= w /\ w < lo + n
    <3>1. p \in Page
      OBVIOUS
    <3> QED BY <3>1, WordsAreRows
  <2> HIDE DEF w
  <2>2. w < Len(o.d.data) /\ o.d.data[w + 1] = f.mem[w]
    BY <1>1, <2>1 DEF Persisted
  <2> QED BY <2>2 DEF w
<1>2. \A w \in Nat : w < Len(d.data) => o.d.data[w + 1] \in {d.data[w + 1], f.mem[w]}
  BY DEF Persisted
<1> QED BY <1>1, <1>2 DEF Persisted, Saved

LEMMA PersistPagesOK ==
  ASSUME rfDisk \in DiskType, NEW f \in FlashType, NEW x \in Nat, NEW y \in Nat,
         NEW o \in PersistPages(f, x, y)
  PROVE  Saved(o, f, rfDisk, {p \in Page : x <= p /\ p <= y})
<1> DEFINE ps == {p \in Page : x <= p /\ p <= y}
           N == RfPages * RfRows
           lo == x * RfRows
           yr == (y + 1) * RfRows
           end == IF y < RfPages THEN yr ELSE N
<1>1. RfPages \in Nat \ {0} /\ RfRows \in Nat \ {0} /\ f.file \in BOOLEAN
  BY RotFlashAssumption DEF FlashType
<1>2. lo \in Nat /\ yr \in Nat /\ N \in Nat
  BY <1>1
<1>3. y < RfPages => yr <= N
  <2>1. y + 1 < RfPages => yr + RfRows <= N
    BY <1>1, PageBelow
  <2>2. y + 1 = RfPages => yr = N
    OBVIOUS
  <2> HIDE DEF yr, N
  <2> QED BY <1>1, <1>2, <2>1, <2>2
<1>4. ASSUME NEW p \in ps, NEW r \in Row PROVE lo <= p * RfRows + r /\ p * RfRows + r < end
  <2>1. p \in Int /\ x \in Int /\ y \in Int /\ RfPages \in Int /\ x <= p /\ p <= y /\ p < RfPages
    BY <1>1 DEF Page
  <2>2. x <= p => lo <= p * RfRows + r
    BY <2>1, RowBounds, Zenon
  <2>3. p <= y => p * RfRows + r < yr
    BY <2>1, RowBounds, Zenon
  <2>4. p < RfPages => p * RfRows + r < N
    BY <2>1, RowBounds, Zenon
  <2> QED BY <2>1, <2>2, <2>3, <2>4
<1>5. o \in IF f.file /\ lo > end THEN {Unwritten(f, FALSE)} ELSE Outcomes(f, rfDisk, lo, end - lo)
  BY DEF PersistPages
<1> HIDE DEF lo, yr, N, ps
<1>6. end \in Nat /\ end <= N
  BY <1>2, <1>3
<1> HIDE DEF end
<1>7. CASE f.file /\ lo > end
  <2>1. o = Unwritten(f, FALSE)
    BY <1>5, <1>7
  <2> QED BY <2>1, UnwrittenOK DEF ps
<1>8. CASE ~(f.file /\ lo > end)
  <2> DEFINE n == end - lo
  <2>1. o \in Outcomes(f, rfDisk, lo, n)
    BY <1>5, <1>8
  <2>2. lo \in Int /\ n \in Int /\ lo + n = end /\ (f.file = TRUE => lo \in Nat /\ n \in Nat /\ lo + n <= N)
    BY <1>2, <1>6, <1>8
  <2>3. \A p \in ps : \A r \in Row : lo <= p * RfRows + r /\ p * RfRows + r < lo + n
    BY <1>4, <2>2
  <2> HIDE DEF n
  <2>4. Persisted(o, f, rfDisk, lo, n)
    BY <2>1, <2>2, OutcomesOK DEF N
  <2>5. ps \in SUBSET Page
    BY DEF ps
  <2> QED BY <2>3, <2>4, <2>5, PersistedSaves DEF ps
<1> QED BY <1>7, <1>8

LEMMA PersistAllOK ==
  ASSUME rfDisk \in DiskType, NEW f \in FlashType, NEW o \in PersistAll(f), NEW ps \in SUBSET Page
  PROVE  Saved(o, f, rfDisk, ps)
<1> DEFINE N == RfPages * RfRows
<1>1. N \in Nat /\ 0 \in Nat /\ 0 + N = N /\ N <= N
  BY RotFlashAssumption
<1>2. \A p \in ps : \A r \in Row : 0 <= p * RfRows + r /\ p * RfRows + r < 0 + N
  <2>1. \A w \in WordNo : 0 <= w /\ w < N
    BY <1>1 DEF WordNo
  <2> QED BY <1>1, <2>1, WordsAreRows
<1>3. o \in Outcomes(f, rfDisk, 0, N)
  BY DEF PersistAll
<1>4. Persisted(o, f, rfDisk, 0, N)
  <2>1. 0 \in Int /\ N \in Int /\ (f.file = TRUE => 0 \in Nat /\ N \in Nat /\ 0 + N <= RfPages * RfRows)
    BY <1>1
  <2> QED BY <1>3, <2>1, OutcomesOK, Zenon
<1> QED BY <1>2, <1>4, PersistedSaves

-----------------------------------------------------------------------------
(* The flash: the end of a command or of a start                           *)

LEMMA FileFlag ==
  ASSUME NEW f \in FlashType, NEW x \in BOOLEAN
  PROVE  LET g == [f EXCEPT !.file = x]
         IN  g \in FlashType /\ g.mem = f.mem /\ g.erased = f.erased /\ g.page_buf = f.page_buf
<1>1. [f EXCEPT !.file = x] \in FlashType
  BY Zenon DEF FlashType
<1> QED BY <1>1 DEF FlashType

LEMMA NewFlashOK ==
  ASSUME NEW m \in [WordNo -> BOOLEAN], NEW e \in SUBSET Page
  PROVE  NewFlash(m, e) \in FlashType /\ NewFlash(m, e).mem = m /\ NewFlash(m, e).erased = e
  BY AckTypes DEF NewFlash, FlashType

LEMMA OffType == Off \in FlashType
<1>1. [w \in WordNo |-> TRUE] \in [WordNo -> BOOLEAN] /\ Page \in SUBSET Page
  OBVIOUS
<1> QED BY <1>1, NewFlashOK DEF Off

(* The files of an outcome against what was made of a page: k, which f has *)
(* and, where the page is not among ps, the files had.                     *)
LEMMA SavedPage ==
  ASSUME rfDisk \in DiskType, NEW o, NEW f, NEW ps \in SUBSET Page, Saved(o, f, rfDisk, ps),
         NEW p \in Page, NEW k, PageMatches(k, p, f.erased, f.mem),
         p \notin ps /\ p \in rfStored.bits => BitMatches(k, p, rfDisk.bits),
         p \notin ps /\ p \in rfStored.array => FileMatches(k, p, rfDisk)
  PROVE  /\ p \in Stored(o, ps).bits => BitMatches(k, p, o.d.bits)
         /\ p \in Stored(o, ps).array => FileMatches(k, p, o.d)
<1>1. o.opened \in BOOLEAN /\ o.whole \in BOOLEAN /\ o.alive \in BOOLEAN
  BY DEF Saved
<1>2. ASSUME p \in Stored(o, ps).bits PROVE BitMatches(k, p, o.d.bits)
  <2>1. CASE o.opened = TRUE
    <3>1. p < o.upto
      BY <1>2, <2>1 DEF Stored
    <3>2. p \in o.d.bits <=> p \in f.erased
      BY <2>1, <3>1 DEF Saved
    <3> QED BY <3>2 DEF PageMatches, BitMatches
  <2>2. CASE o.opened = FALSE
    <3>1. p \in rfStored.bits /\ p \notin ps
      BY <1>2, <2>2 DEF Stored
    <3>2. o.d.bits = rfDisk.bits
      BY <2>2 DEF Saved
    <3> QED BY <3>1, <3>2
  <2> QED BY <1>1, <2>1, <2>2
<1>3. ASSUME p \in Stored(o, ps).array PROVE FileMatches(k, p, o.d)
  <2> SUFFICES ASSUME k.k = "data", NEW r \in Row
               PROVE  p * RfRows + r < Len(o.d.data) /\ o.d.data[p * RfRows + r + 1] = k.v[r]
    BY DEF FileMatches
  <2> DEFINE w == p * RfRows + r
             m == Len(rfDisk.data)
             n == Len(o.d.data)
  <2>0. f.mem[w] = k.v[r] /\ w \in Nat
    BY WordsAreRows DEF PageMatches
  <2>1. CASE p \in ps
    <3>1. o.whole = TRUE
      BY <1>1, <1>3, <2>1 DEF Stored
    <3>2. w < n /\ o.d.data[w + 1] = f.mem[w]
      BY <2>1, <3>1 DEF Saved
    <3> QED BY <2>0, <3>2
  <2>2. CASE p \notin ps
    <3>1. p \in rfStored.array
      BY <1>3, <2>2 DEF Stored
    <3>2. w < m /\ rfDisk.data[w + 1] = k.v[r]
      BY <2>2, <3>1 DEF FileMatches
    <3>3. m \in Nat /\ n \in Nat /\ m <= n
      BY DEF Saved, DiskType
    <3>4. \A z \in Nat : z < m => o.d.data[z + 1] \in {rfDisk.data[z + 1], f.mem[z]}
      BY DEF Saved
    <3> HIDE DEF w, m, n
    <3>5. w < n
      BY <2>0, <3>2, <3>3
    <3>6. o.d.data[w + 1] = k.v[r]
      BY <2>0, <3>2, <3>4
    <3> QED BY <3>5, <3>6 DEF w, n
  <2> QED BY <2>1, <2>2
<1> QED BY <1>2, <1>3

LEMMA SettleKeeps ==
  ASSUME RfTypeOK, DiskOK, NEW f \in FlashType, NEW ps \in SUBSET Page, NEW new \in [Page -> Ack],
         NEW saves, \A o \in saves : Saved(o, f, rfDisk, ps),
         \A p \in Page : PageMatches(IF p \in ps THEN new[p] ELSE rfAck[p], p, f.erased, f.mem),
         Settle(saves, ps, new, rfAck)
  PROVE  /\ rf' \in FlashType /\ rfDisk' \in DiskType /\ rfAlive' \in BOOLEAN
         /\ rfAck' \in [Page -> Ack] /\ rfStored' \in StoredType
         /\ rfAlive' = TRUE => rf'.mem = f.mem /\ rf'.page_buf = f.page_buf
         /\ MemOK' /\ DiskOK' /\ KnownOK'
<1> DEFINE ack == [p \in Page |-> IF p \in ps THEN new[p] ELSE rfAck[p]]
<1>1. PICK o \in saves :
        /\ rf' = (IF o.alive THEN o.f ELSE Off) /\ rfDisk' = o.d /\ rfAlive' = o.alive
        /\ rfStored' = Stored(o, ps)
        /\ rfAck' = IF o.alive THEN ack ELSE Outlives(ack, Stored(o, ps))
  BY DEF Settle
<1>2. rfDisk \in DiskType /\ rfAck \in [Page -> Ack] /\ rfStored \in StoredType
  BY DEF RfTypeOK
<1>3. Saved(o, f, rfDisk, ps)
  OBVIOUS
<1>4. /\ o.d \in DiskType /\ o.alive \in BOOLEAN /\ o.opened \in BOOLEAN /\ o.whole \in BOOLEAN
      /\ o.f \in {f, [f EXCEPT !.file = FALSE]}
  BY <1>3 DEF Saved
<1>5. o.f \in FlashType /\ o.f.mem = f.mem /\ o.f.erased = f.erased /\ o.f.page_buf = f.page_buf
  <2>1. LET g == [f EXCEPT !.file = FALSE]
        IN  g \in FlashType /\ g.mem = f.mem /\ g.erased = f.erased /\ g.page_buf = f.page_buf
    BY FileFlag
  <2> QED BY <1>4, <2>1
<1>6. rfStored' \in StoredType
  <2>1. rfStored.array \in SUBSET Page /\ rfStored.bits \in SUBSET Page
    BY <1>2 DEF StoredType
  <2> QED BY <1>1, <2>1 DEF Stored, StoredType
<1>7. ack \in [Page -> Ack] /\ \A p \in Page : ack[p] = IF p \in ps THEN new[p] ELSE rfAck[p]
  BY <1>2
<1> HIDE DEF ack
<1>8. /\ rfAck' \in [Page -> Ack]
      /\ \A p \in Page : rfAck'[p] = ack[p] \/ rfAck'[p] = Unknowable
      /\ o.alive = TRUE => rfAck' = ack
      /\ o.alive = FALSE => \A p \in Page :
           rfAck'[p] = IF p \in rfStored'.array \cap rfStored'.bits THEN ack[p] ELSE Unknowable
  <2>1. CASE o.alive = TRUE
    BY <1>1, <1>7, <2>1
  <2>2. CASE o.alive = FALSE
    BY <1>1, <1>7, <2>2, AckTypes DEF Outlives
  <2> QED BY <1>4, <2>1, <2>2
<1>9. ASSUME NEW p \in Page
      PROVE  /\ PageMatches(ack[p], p, f.erased, f.mem)
             /\ p \in rfStored'.bits => BitMatches(rfAck'[p], p, rfDisk'.bits)
             /\ p \in rfStored'.array => FileMatches(rfAck'[p], p, rfDisk')
  <2>1. PageMatches(ack[p], p, f.erased, f.mem)
    BY <1>7
  <2>2. p \notin ps /\ p \in rfStored.bits => BitMatches(ack[p], p, rfDisk.bits)
    BY <1>7 DEF DiskOK
  <2>3. p \notin ps /\ p \in rfStored.array => FileMatches(ack[p], p, rfDisk)
    BY <1>7 DEF DiskOK
  <2>4. /\ p \in Stored(o, ps).bits => BitMatches(ack[p], p, o.d.bits)
        /\ p \in Stored(o, ps).array => FileMatches(ack[p], p, o.d)
    BY <1>2, <1>3, <2>1, <2>2, <2>3, SavedPage, Zenon
  <2>5. /\ BitMatches(Unknowable, p, rfDisk'.bits) /\ FileMatches(Unknowable, p, rfDisk')
    BY AckTypes DEF BitMatches, FileMatches
  <2>6. CASE rfAck'[p] = ack[p]
    BY <1>1, <2>1, <2>4, <2>6
  <2>7. CASE rfAck'[p] = Unknowable
    BY <2>1, <2>5, <2>7
  <2> QED BY <1>8, <2>6, <2>7
<1>10. DiskOK'
  BY <1>6, <1>9 DEF DiskOK, StoredType
<1>11. MemOK'
  <2> SUFFICES ASSUME rfAlive' = TRUE, NEW p \in Page PROVE PageMatches(rfAck'[p], p, rf'.erased, rf'.mem)
    BY <1>1, <1>4 DEF MemOK
  <2>1. rf' = o.f /\ rfAck' = ack
    BY <1>1, <1>8
  <2> QED BY <1>5, <1>9, <2>1
<1>12. KnownOK'
  <2> SUFFICES ASSUME rfAlive' = FALSE, NEW p \in Page, rfAck'[p].k # "any"
               PROVE  p \in rfStored'.array /\ p \in rfStored'.bits
    BY <1>1, <1>4 DEF KnownOK
  <2> QED BY <1>1, <1>8, AckTypes
<1>13. rf' \in FlashType /\ (rfAlive' = TRUE => rf'.mem = f.mem /\ rf'.page_buf = f.page_buf)
  BY <1>1, <1>4, <1>5, OffType
<1> QED BY <1>1, <1>4, <1>6, <1>8, <1>10, <1>11, <1>12, <1>13

-----------------------------------------------------------------------------
(* The flash: erasing and programming                                      *)

LEMMA EraseOK ==
  ASSUME rf \in FlashType, NEW a \in Nat, NEW b \in Nat
  PROVE  LET f == CmdErase(rf, a, b)
             ps == PagesOf(a, b)
         IN  /\ f \in FlashType /\ f.erased = rf.erased \cup ps /\ f.page_buf = rf.page_buf
             /\ \A p \in Page : \A r \in Row :
                  f.mem[p * RfRows + r] = IF p \in ps THEN TRUE ELSE rf.mem[p * RfRows + r]
<1> DEFINE ps == PagesOf(a, b)
           m == [w \in WordNo |-> PageOf(w) \in ps \/ rf.mem[w]]
           e == rf.erased \cup ps
           g == [rf EXCEPT !.mem = m, !.erased = e]
<1>1. rf.mem \in [WordNo -> BOOLEAN] /\ rf.erased \in SUBSET Page
  BY DEF FlashType
<1>2. ps \subseteq Page
  BY DEF PagesOf
<1>3. m \in [WordNo -> BOOLEAN] /\ e \in SUBSET Page
  BY <1>1, <1>2
<1>4. CmdErase(rf, a, b) = g
  BY DEF CmdErase
<1>5. \A p \in Page : \A r \in Row :
        m[p * RfRows + r] = IF p \in ps THEN TRUE ELSE rf.mem[p * RfRows + r]
  <2> SUFFICES ASSUME NEW p \in Page, NEW r \in Row
               PROVE  m[p * RfRows + r] = IF p \in ps THEN TRUE ELSE rf.mem[p * RfRows + r]
    OBVIOUS
  <2> DEFINE w == p * RfRows + r
  <2>1. w \in WordNo /\ p \in Nat
    BY WordsAreRows, RotFlashAssumption DEF Page
  <2>2. PageOf(w) = p
    BY <2>1, WordOfRow
  <2> HIDE DEF w, ps
  <2>3. rf.mem[w] \in BOOLEAN
    BY <1>1, <2>1
  <2>4. m[w] = (p \in ps \/ rf.mem[w])
    BY <2>1, <2>2
  <2>5. m[w] = IF p \in ps THEN TRUE ELSE rf.mem[w]
    <3> HIDE DEF m
    <3>1. CASE p \in ps
      BY <2>4, <3>1, Zenon
    <3>2. CASE p \notin ps
      BY <2>3, <2>4, <3>2, Zenon
    <3> QED BY <3>1, <3>2
  <2> QED BY <2>5 DEF w
<1> HIDE DEF m, e, ps
<1>6. g \in FlashType
  BY <1>3, Zenon DEF FlashType
<1>7. g.mem = m /\ g.erased = e /\ g.page_buf = rf.page_buf
  BY DEF FlashType
<1> HIDE DEF g
<1>8. /\ g.erased = rf.erased \cup ps
      /\ \A p \in Page : \A r \in Row : g.mem[p * RfRows + r] = IF p \in ps THEN TRUE ELSE rf.mem[p * RfRows + r]
  BY <1>5, <1>7 DEF e
<1> QED BY <1>4, <1>6, <1>7, <1>8, Zenon DEF ps

(* The pages of an erase are as acknowledged, the others as before.        *)
LEMMA EraseMatches ==
  ASSUME rf \in FlashType, rfAlive, MemOK, NEW a \in Nat, NEW b \in Nat
  PROVE  LET f == CmdErase(rf, a, b)
             new == [p \in Page |-> AckErased]
         IN  \A p \in Page : PageMatches(IF p \in PagesOf(a, b) THEN new[p] ELSE rfAck[p], p, f.erased, f.mem)
<1> DEFINE f == CmdErase(rf, a, b)
           ps == PagesOf(a, b)
           new == [p \in Page |-> AckErased]
<1>1. /\ f.erased = rf.erased \cup ps
      /\ \A p \in Page : \A r \in Row :
           f.mem[p * RfRows + r] = IF p \in ps THEN TRUE ELSE rf.mem[p * RfRows + r]
  BY EraseOK
<1> SUFFICES ASSUME NEW p \in Page
             PROVE  PageMatches(IF p \in ps THEN new[p] ELSE rfAck[p], p, f.erased, f.mem)
  OBVIOUS
<1> HIDE DEF f, ps
<1>2. CASE p \in ps
  <2>1. PageMatches(AckErased, p, f.erased, f.mem)
    BY <1>1, <1>2, AckTypes DEF PageMatches, BitMatches
  <2> QED BY <1>2, <2>1
<1>3. CASE p \notin ps
  <2>1. PageMatches(rfAck[p], p, rf.erased, rf.mem)
    BY DEF MemOK
  <2>2. (p \in f.erased <=> p \in rf.erased) /\ \A r \in Row : f.mem[p * RfRows + r] = rf.mem[p * RfRows + r]
    BY <1>1, <1>3
  <2>3. PageMatches(rfAck[p], p, f.erased, f.mem)
    BY <2>1, <2>2 DEF PageMatches, BitMatches
  <2> QED BY <1>3, <2>3
<1> QED BY <1>2, <1>3

(* Nothing is asked.                                                       *)
LEMMA NoAnswer ==
  /\ NoResp \in RespType
  /\ (rfResp' = NoResp) => RfReadBack' /\ AnswerOK'
<1>1. NoResp.cmd = "none" /\ NoResp \in RespType
  BY DEF NoResp, RespType, AnsType
<1> QED BY <1>1 DEF RfReadBack, AnswerOK

LEMMA NoDriver ==
  /\ NoDrv \in DrvType
  /\ (rfDrv' = NoDrv) => DrvOK'
<1>1. 0 \in 0..RfPages /\ 0 \in 0..RfRows
  BY RotFlashAssumption
<1>2. NoDrv.st = "idle"
  BY DEF NoDrv
<1>3. (rfDrv' = NoDrv) => DrvOK'
  BY <1>2 DEF DrvOK
<1>4. NoDrv \in DrvType
  BY <1>1, AckTypes DEF NoDrv, DrvType
<1> QED BY <1>3, <1>4

LEMMA EraseKeeps ==
  ASSUME RfInv, NEW a \in RfAddrs, NEW b \in RfAddrs, Erase(a, b)
  PROVE  RfInv'
<1> DEFINE f == CmdErase(rf, a, b)
           ps == PagesOf(a, b)
           new == [p \in Page |-> AckErased]
           saves == PersistPages(f, PageOf(a), PageOf(b))
<1>1. /\ rfAlive /\ rfDrv.st = "idle" /\ rfResp' = NoResp /\ rfDrv' = rfDrv
      /\ Settle(saves, ps, new, rfAck)
  BY DEF Erase, Ready
<1>2. RfTypeOK /\ MemOK /\ DiskOK /\ rf \in FlashType /\ rfDisk \in DiskType
  BY DEF RfInv, RfTypeOK
<1>3. a \in Nat /\ b \in Nat /\ PageOf(a) \in Nat /\ PageOf(b) \in Nat
  <2>1. a \in Nat /\ b \in Nat
    BY RotFlashAssumption
  <2> QED BY <2>1, WordInPage
<1>4. f \in FlashType /\ ps \in SUBSET Page /\ new \in [Page -> Ack]
  <2>1. f \in FlashType
    BY <1>2, <1>3, EraseOK
  <2>2. ps \in SUBSET Page
    BY DEF PagesOf
  <2> QED BY <2>1, <2>2, AckTypes
<1>5. \A p \in Page : PageMatches(IF p \in ps THEN new[p] ELSE rfAck[p], p, f.erased, f.mem)
  BY <1>1, <1>2, <1>3, EraseMatches
<1>6. \A o \in saves : Saved(o, f, rfDisk, ps)
  <2> SUFFICES ASSUME NEW o \in saves PROVE Saved(o, f, rfDisk, ps)
    OBVIOUS
  <2>1. Saved(o, f, rfDisk, {p \in Page : PageOf(a) <= p /\ p <= PageOf(b)})
    <3> HIDE DEF f
    <3> QED BY <1>2, <1>3, <1>4, PersistPagesOK
  <2> QED BY <2>1 DEF PagesOf
<1> HIDE DEF f, ps, new, saves
<1>7. /\ rf' \in FlashType /\ rfDisk' \in DiskType /\ rfAlive' \in BOOLEAN
      /\ rfAck' \in [Page -> Ack] /\ rfStored' \in StoredType
      /\ MemOK' /\ DiskOK' /\ KnownOK'
  BY <1>1, <1>2, <1>4, <1>5, <1>6, SettleKeeps
<1>8. RfTypeOK'
  BY <1>1, <1>2, <1>7, NoAnswer DEF RfTypeOK
<1>9. DrvOK'
  BY <1>1 DEF DrvOK
<1> QED BY <1>1, <1>7, <1>8, <1>9, NoAnswer DEF RfInv

LEMMA BeginPageKeeps ==
  ASSUME RfInv, NEW p \in 0..RfPages, NEW v \in RfContents, BeginPage(p, v)
  PROVE  RfInv'
<1> DEFINE a == p * RfRows
           f == CmdErase(rf, a, a)
           ps == PagesOf(a, a)
           new == [q \in Page |-> AckErased]
           saves == PersistPages(f, p, p)
           busy == [st |-> "rows", page |-> p, row |-> 0, data |-> v]
<1>1. /\ rfAlive /\ rfResp' = NoResp /\ rfDrv' = IF rfAlive' THEN busy ELSE NoDrv
      /\ Settle(saves, {p} \cap Page, new, rfAck)
  BY DEF BeginPage, Ready
<1>2. RfTypeOK /\ MemOK /\ DiskOK /\ rf \in FlashType /\ rfDisk \in DiskType
  BY DEF RfInv, RfTypeOK
<1>3. p \in Nat /\ 0 \in Row /\ RfRows \in Nat /\ v \in [Row -> BOOLEAN] /\ 0 \in 0..RfRows
  BY RotFlashAssumption DEF Row
<1>4. a \in Nat /\ PageOf(a) = p
  <2>1. a = p * RfRows + 0 /\ a \in Nat
    BY <1>3
  <2> QED BY <1>3, <2>1, WordOfRow
<1>5. ps = {p} \cap Page /\ ps = {q \in Page : p <= q /\ q <= p}
  <2>1. \A q \in Page : q \in Int
    BY RotFlashAssumption DEF Page
  <2>2. \A q \in Page : p <= q /\ q <= p <=> q = p
    BY <1>3, <2>1
  <2> QED BY <1>4, <2>2 DEF PagesOf
<1> HIDE DEF a
<1>6. /\ f \in FlashType
      /\ \A q \in Page : \A r \in Row :
           f.mem[q * RfRows + r] = IF q \in ps THEN TRUE ELSE rf.mem[q * RfRows + r]
  BY <1>2, <1>4, EraseOK
<1>7. ps \in SUBSET Page /\ new \in [Page -> Ack]
  BY <1>5, AckTypes
<1>8. \A q \in Page : PageMatches(IF q \in ps THEN new[q] ELSE rfAck[q], q, f.erased, f.mem)
  BY <1>1, <1>2, <1>4, EraseMatches
<1> HIDE DEF f, ps, new, busy
<1>9. \A o \in saves : Saved(o, f, rfDisk, ps)
  BY <1>2, <1>3, <1>5, <1>6, PersistPagesOK
<1>10. Settle(saves, ps, new, rfAck)
  BY <1>1, <1>5
<1> HIDE DEF saves
<1>11. /\ rf' \in FlashType /\ rfDisk' \in DiskType /\ rfAlive' \in BOOLEAN
       /\ rfAck' \in [Page -> Ack] /\ rfStored' \in StoredType
       /\ rfAlive' = TRUE => rf'.mem = f.mem
       /\ MemOK' /\ DiskOK' /\ KnownOK'
  BY <1>2, <1>6, <1>7, <1>8, <1>9, <1>10, SettleKeeps
<1>12. /\ busy \in DrvType /\ busy.st = "rows" /\ busy.page = p /\ busy.row = 0 /\ busy.data = v
  BY <1>3 DEF busy, DrvType
<1>13. RfTypeOK'
  BY <1>1, <1>11, <1>12, NoAnswer, NoDriver DEF RfTypeOK
<1>14. DrvOK'
  <2>1. CASE rfAlive' = TRUE
    <3> SUFFICES ASSUME NEW r \in Row
                 PROVE  /\ rfDrv'.page \in Page => rf'.mem[rfDrv'.page * RfRows + r] = TRUE
                        /\ r < rfDrv'.row => rf'.page_buf[r] = rfDrv'.data[r]
      BY DEF DrvOK
    <3>1. rfDrv'.page = p /\ rfDrv'.row = 0
      BY <1>1, <1>12, <2>1
    <3>2. ~(r < 0)
      BY <1>3 DEF Row
    <3>3. p \in Page => f.mem[p * RfRows + r] = TRUE
      BY <1>5, <1>6
    <3> QED BY <1>11, <2>1, <3>1, <3>2, <3>3
  <2>2. CASE rfAlive' = FALSE
    BY <2>2 DEF DrvOK
  <2> QED BY <1>11, <2>1, <2>2
<1> QED BY <1>1, <1>11, <1>13, <1>14, NoAnswer DEF RfInv

(* CmdProgram commits the buffer: over an erased page, it is what the page *)
(* holds.                                                                  *)
LEMMA ProgramOK ==
  ASSUME rf \in FlashType, NEW p \in Nat, NEW v \in [Row -> BOOLEAN],
         \A r \in Row : /\ p \in Page => rf.mem[p * RfRows + r] = TRUE
                        /\ rf.page_buf[r] = v[r]
  PROVE  LET f == CmdProgram(rf, p)
         IN  /\ f \in FlashType /\ f.erased = rf.erased \ {p}
             /\ \A q \in Page : \A r \in Row :
                  f.mem[q * RfRows + r] = IF q = p THEN v[r] ELSE rf.mem[q * RfRows + r]
<1> DEFINE m == [w \in WordNo |-> IF PageOf(w) = p THEN rf.mem[w] /\ rf.page_buf[w % RfRows] ELSE rf.mem[w]]
           e == rf.erased \ {p}
           g == [rf EXCEPT !.mem = m, !.erased = e, !.page_buf = BlankBuf]
<1>1. /\ rf.mem \in [WordNo -> BOOLEAN] /\ rf.erased \in SUBSET Page
      /\ rf.page_buf \in [Row -> BOOLEAN] /\ BlankBuf \in [Row -> BOOLEAN]
  BY AckTypes DEF FlashType
<1>2. ASSUME NEW q \in Page, NEW r \in Row
      PROVE  m[q * RfRows + r] = IF q = p THEN v[r] ELSE rf.mem[q * RfRows + r]
  <2> DEFINE w == q * RfRows + r
  <2>1. w \in WordNo /\ q \in Nat
    BY WordsAreRows, RotFlashAssumption DEF Page
  <2>2. PageOf(w) = q /\ w % RfRows = r
    BY <2>1, WordOfRow
  <2>3. CASE q = p
    <3>1. m[w] = (rf.mem[w] /\ rf.page_buf[r])
      BY <2>1, <2>2, <2>3
    <3>2. rf.mem[w] = TRUE /\ rf.page_buf[r] = v[r] /\ v[r] \in BOOLEAN
      BY <2>3
    <3> HIDE DEF m, w
    <3>3. m[w] = v[r]
      BY <3>1, <3>2, Zenon
    <3> QED BY <2>3, <3>3 DEF w
  <2>4. CASE q # p
    BY <2>1, <2>2, <2>4
  <2> QED BY <2>3, <2>4
<1>3. m \in [WordNo -> BOOLEAN] /\ e \in SUBSET Page
  <2>1. ASSUME NEW w \in WordNo PROVE rf.mem[w] \in BOOLEAN /\ w % RfRows \in Row
    BY <1>1, WordsAreRows, WordInPage
  <2> QED BY <1>1, <2>1
<1>4. CmdProgram(rf, p) = g
  BY DEF CmdProgram
<1> HIDE DEF m, e
<1>5. g \in FlashType
  BY <1>1, <1>3, Zenon DEF FlashType
<1>6. g.mem = m /\ g.erased = e
  BY DEF FlashType
<1> HIDE DEF g
<1>7. /\ g.erased = rf.erased \ {p}
      /\ \A q \in Page : \A r \in Row : g.mem[q * RfRows + r] = IF q = p THEN v[r] ELSE rf.mem[q * RfRows + r]
  BY <1>2, <1>6 DEF e
<1> QED BY <1>4, <1>5, <1>7, Zenon

LEMMA CommitPageKeeps ==
  ASSUME RfInv, CommitPage
  PROVE  RfInv'
<1> DEFINE p == rfDrv.page
           v == rfDrv.data
           f == CmdProgram(rf, p)
           ps == {p} \cap Page
           new == [q \in Page |-> Data(v)]
           saves == IF p \in Page THEN PersistPages(f, p, p) ELSE {Unwritten(f, TRUE)}
<1>1. /\ rfAlive /\ rfDrv.st = "rows" /\ rfDrv.row = RfRows
      /\ Settle(saves, ps, new, rfAck) /\ rfDrv' = NoDrv /\ rfResp' = rfResp
  BY DEF CommitPage
<1>2. RfTypeOK /\ MemOK /\ DiskOK /\ DrvOK /\ rf \in FlashType /\ rfDisk \in DiskType
  BY DEF RfInv, RfTypeOK
<1>3. p \in Nat /\ v \in [Row -> BOOLEAN]
  BY <1>2 DEF RfTypeOK, DrvType
<1>4. \A r \in Row : /\ p \in Page => rf.mem[p * RfRows + r] = TRUE
                     /\ rf.page_buf[r] = v[r]
  <2>1. \A r \in Row : r < rfDrv.row
    BY <1>1, RotFlashAssumption DEF Row
  <2> QED BY <1>1, <1>2, <2>1 DEF DrvOK
<1>5. /\ f \in FlashType /\ f.erased = rf.erased \ {p}
      /\ \A q \in Page : \A r \in Row :
           f.mem[q * RfRows + r] = IF q = p THEN v[r] ELSE rf.mem[q * RfRows + r]
  <2> HIDE DEF p, v
  <2> QED BY <1>2, <1>3, <1>4, ProgramOK
<1>6. Data(v) \in Ack /\ Data(v).k = "data" /\ Data(v).v = v
  BY <1>3, AckTypes
<1>7. ps \in SUBSET Page /\ new \in [Page -> Ack] /\ \A q \in Page : new[q] = Data(v)
  BY <1>6
<1>8. \A o \in saves : Saved(o, f, rfDisk, ps)
  <2> HIDE DEF p, f
  <2>1. CASE p \in Page
    <3>1. ps = {q \in Page : p <= q /\ q <= p}
      <4>1. \A q \in Page : q \in Int
        BY RotFlashAssumption DEF Page
      <4>2. \A q \in Page : p <= q /\ q <= p <=> q = p
        BY <1>3, <4>1
      <4> QED BY <4>2
    <3> QED BY <1>2, <1>3, <1>5, <2>1, <3>1, PersistPagesOK
  <2>2. CASE p \notin Page
    BY <1>2, <1>5, <2>2, UnwrittenOK
  <2> QED BY <2>1, <2>2
<1> HIDE DEF p, v, f, new, saves
<1>9. \A q \in Page : PageMatches(IF q \in ps THEN new[q] ELSE rfAck[q], q, f.erased, f.mem)
  <2> SUFFICES ASSUME NEW q \in Page
               PROVE  PageMatches(IF q \in ps THEN new[q] ELSE rfAck[q], q, f.erased, f.mem)
    OBVIOUS
  <2>1. CASE q = p
    <3>1. PageMatches(Data(v), q, f.erased, f.mem)
      BY <1>5, <1>6, <2>1 DEF PageMatches, BitMatches
    <3> QED BY <1>7, <2>1, <3>1
  <2>2. CASE q # p
    <3>1. PageMatches(rfAck[q], q, rf.erased, rf.mem)
      BY <1>1, <1>2 DEF MemOK
    <3>2. (q \in f.erased <=> q \in rf.erased) /\ \A r \in Row : f.mem[q * RfRows + r] = rf.mem[q * RfRows + r]
      BY <1>5, <2>2
    <3>3. PageMatches(rfAck[q], q, f.erased, f.mem)
      BY <3>1, <3>2 DEF PageMatches, BitMatches
    <3> QED BY <2>2, <3>3
  <2> QED BY <2>1, <2>2
<1> HIDE DEF ps
<1>10. /\ rf' \in FlashType /\ rfDisk' \in DiskType /\ rfAlive' \in BOOLEAN
       /\ rfAck' \in [Page -> Ack] /\ rfStored' \in StoredType
       /\ MemOK' /\ DiskOK' /\ KnownOK'
  BY <1>1, <1>2, <1>5, <1>7, <1>8, <1>9, SettleKeeps
<1>11. rfResp' = NoResp
  BY <1>1 DEF RfInv, AnswerOK
<1>12. RfTypeOK'
  BY <1>1, <1>10, <1>11, NoAnswer, NoDriver DEF RfTypeOK
<1> QED BY <1>1, <1>10, <1>11, <1>12, NoAnswer, NoDriver DEF RfInv

-----------------------------------------------------------------------------
(* The flash: the other steps                                              *)

LEMMA LoadRowKeeps ==
  ASSUME RfInv, LoadRow
  PROVE  RfInv'
<1> DEFINE i == rfDrv.row
           v == rfDrv.data
           b == [rf.page_buf EXCEPT ![i] = v[i]]
           g == [rf EXCEPT !.page_buf[i] = v[i]]
<1>1. /\ rfAlive /\ rfDrv.st = "rows" /\ i < RfRows
      /\ rf' = g /\ rfDrv' = [rfDrv EXCEPT !.row = i + 1]
      /\ UNCHANGED <<rfDisk, rfAlive, rfAck, rfStored, rfResp>>
  BY DEF LoadRow, CmdWrite
<1>2. RfTypeOK /\ MemOK /\ DiskOK /\ KnownOK /\ DrvOK /\ AnswerOK /\ RfReadBack
  BY DEF RfInv
<1>3. /\ rf \in FlashType /\ rf.page_buf \in [Row -> BOOLEAN] /\ rfDrv \in DrvType
      /\ v \in [Row -> BOOLEAN] /\ i \in 0..RfRows /\ i \in Row
  BY <1>1, <1>2, RotFlashAssumption DEF RfTypeOK, FlashType, DrvType, Row
<1>4. b \in [Row -> BOOLEAN] /\ i + 1 \in 0..RfRows
  BY <1>1, <1>3, RotFlashAssumption
<1>5. g = [rf EXCEPT !.page_buf = b]
  BY <1>3 DEF FlashType
<1> HIDE DEF b
<1>6. g \in FlashType
  BY <1>3, <1>4, <1>5, Zenon DEF FlashType
<1>7. g.page_buf = b /\ g.mem = rf.mem /\ g.erased = rf.erased
  BY <1>3, <1>5 DEF FlashType
<1> HIDE DEF g
<1>8. rf' \in FlashType /\ rf'.page_buf = b /\ rf'.mem = rf.mem /\ rf'.erased = rf.erased
  BY <1>1, <1>6, <1>7
<1>9. /\ rfDrv' \in DrvType /\ rfDrv'.st = "rows"
      /\ rfDrv'.page = rfDrv.page /\ rfDrv'.row = i + 1 /\ rfDrv'.data = v
  BY <1>1, <1>3, <1>4 DEF DrvType
<1>10. RfTypeOK'
  BY <1>1, <1>2, <1>8, <1>9 DEF RfTypeOK
<1>11. DrvOK'
  <2> SUFFICES ASSUME NEW r \in Row
               PROVE  /\ rfDrv'.page \in Page => rf'.mem[rfDrv'.page * RfRows + r] = TRUE
                      /\ r < rfDrv'.row => rf'.page_buf[r] = rfDrv'.data[r]
    BY DEF DrvOK
  <2>1. (rfDrv.page \in Page => rf.mem[rfDrv.page * RfRows + r] = TRUE) /\ (r < i => rf.page_buf[r] = v[r])
    BY <1>1, <1>2 DEF DrvOK
  <2>2. r < i + 1 => r = i \/ r < i
    BY <1>3 DEF Row
  <2>3. r < i + 1 => b[r] = v[r]
    BY <1>3, <2>1, <2>2 DEF b
  <2> QED BY <1>8, <1>9, <2>1, <2>3
<1>12. MemOK' /\ DiskOK' /\ KnownOK' /\ RfReadBack'
  BY <1>1, <1>2, <1>8 DEF MemOK, DiskOK, KnownOK, RfReadBack
<1>13. AnswerOK'
  BY <1>1, <1>2 DEF AnswerOK
<1> QED BY <1>10, <1>11, <1>12, <1>13 DEF RfInv

LEMMA DropPageKeeps ==
  ASSUME RfInv, DropPage
  PROVE  RfInv'
<1>1. /\ rfDrv.st = "rows" /\ rfDrv' = NoDrv
      /\ UNCHANGED <<rf, rfDisk, rfAlive, rfAck, rfStored, rfResp>>
  BY DEF DropPage
<1>2. MemOK' /\ DiskOK' /\ KnownOK'
  BY <1>1 DEF RfInv, MemOK, DiskOK, KnownOK
<1>3. rfResp' = NoResp
  BY <1>1 DEF RfInv, AnswerOK
<1>4. RfTypeOK'
  BY <1>1, NoDriver DEF RfInv, RfTypeOK
<1> QED BY <1>1, <1>2, <1>3, <1>4, NoDriver, NoAnswer DEF RfInv

(* What is known outlives the process where both files have it.            *)
LEMMA OutlivesOK ==
  ASSUME RfTypeOK, DiskOK, rfDisk' = rfDisk, rfStored' = rfStored, rfAck' = Outlives(rfAck, rfStored)
  PROVE  rfAck' \in [Page -> Ack] /\ DiskOK' /\ KnownOK'
<1>1. rfAck \in [Page -> Ack] /\ rfStored.array \in SUBSET Page /\ rfStored.bits \in SUBSET Page
  BY DEF RfTypeOK, StoredType
<1>2. \A p \in Page : rfAck'[p] = IF p \in rfStored.array \cap rfStored.bits THEN rfAck[p] ELSE Unknowable
  BY DEF Outlives
<1>3. rfAck' \in [Page -> Ack]
  BY <1>1, AckTypes DEF Outlives
<1>4. DiskOK'
  <2>1. ASSUME NEW p \in Page
        PROVE  BitMatches(Unknowable, p, rfDisk.bits) /\ FileMatches(Unknowable, p, rfDisk)
    BY AckTypes DEF BitMatches, FileMatches
  <2>2. \A p \in rfStored.bits : BitMatches(rfAck'[p], p, rfDisk.bits)
    BY <1>1, <1>2, <2>1 DEF DiskOK
  <2>3. \A p \in rfStored.array : FileMatches(rfAck'[p], p, rfDisk)
    BY <1>1, <1>2, <2>1 DEF DiskOK
  <2> QED BY <2>2, <2>3 DEF DiskOK
<1>5. KnownOK'
  BY <1>2, AckTypes DEF KnownOK
<1> QED BY <1>3, <1>4, <1>5

LEMMA KillKeeps ==
  ASSUME RfInv, Kill
  PROVE  RfInv'
<1>1. /\ rf' = Off /\ rfAlive' = FALSE /\ rfResp' = NoResp /\ rfDrv' = NoDrv
      /\ rfAck' = Outlives(rfAck, rfStored) /\ rfDisk' = rfDisk /\ rfStored' = rfStored
  BY DEF Kill
<1>2. RfTypeOK /\ DiskOK
  BY DEF RfInv
<1>3. rfAck' \in [Page -> Ack] /\ DiskOK' /\ KnownOK'
  BY <1>1, <1>2, OutlivesOK
<1>4. MemOK'
  BY <1>1 DEF MemOK
<1>5. RfTypeOK'
  BY <1>1, <1>2, <1>3, OffType, NoDriver, NoAnswer DEF RfTypeOK
<1> QED BY <1>1, <1>3, <1>4, <1>5, NoDriver, NoAnswer DEF RfInv

LEMMA DeleteCorruptKeeps ==
  ASSUME RfInv, DeleteCorrupt
  PROVE  RfInv'
<1>1. /\ ~rfAlive /\ rfDisk' = NoDisk /\ rfStored' = NoneStored /\ rfAck' = Outlives(rfAck, NoneStored)
      /\ UNCHANGED <<rf, rfAlive, rfDrv, rfResp>>
  BY DEF DeleteCorrupt
<1>2. NoneStored \in StoredType /\ NoneStored.array = {} /\ NoneStored.bits = {}
  BY DEF NoneStored, StoredType
<1>3. rfAck' \in [Page -> Ack] /\ \A p \in Page : rfAck'[p] = Unknowable
  BY <1>1, <1>2, AckTypes DEF Outlives
<1>4. NoDisk \in DiskType
  BY DEF NoDisk, DiskType
<1>5. MemOK' /\ DiskOK' /\ KnownOK' /\ DrvOK'
  BY <1>1, <1>2, <1>3, AckTypes DEF MemOK, DiskOK, KnownOK, DrvOK
<1>6. rfResp' = NoResp
  BY <1>1 DEF RfInv, AnswerOK
<1>7. RfTypeOK'
  BY <1>1, <1>2, <1>3, <1>4 DEF RfInv, RfTypeOK
<1> QED BY <1>5, <1>6, <1>7, NoAnswer DEF RfInv

LEMMA TakenKeeps ==
  ASSUME RfInv, Taken
  PROVE  RfInv'
<1>1. rfResp' = NoResp /\ UNCHANGED <<rf, rfDisk, rfAlive, rfDrv, rfAck, rfStored>>
  BY DEF Taken
<1>2. MemOK' /\ DiskOK' /\ KnownOK' /\ DrvOK'
  BY <1>1 DEF RfInv, MemOK, DiskOK, KnownOK, DrvOK
<1>3. RfTypeOK'
  BY <1>1, NoAnswer DEF RfInv, RfTypeOK
<1> QED BY <1>1, <1>2, <1>3, NoAnswer DEF RfInv

LEMMA AskKeeps ==
  ASSUME RfInv, NEW cmd \in {"read", "blank", "other"}, NEW a \in Nat, NEW b \in Nat, NEW ans \in AnsType,
         Ask(cmd, a, b, ans), RfReadBack'
  PROVE  RfInv'
<1>1. /\ rfAlive /\ rfDrv.st = "idle" /\ rfResp' = [cmd |-> cmd, a |-> a, b |-> b, ans |-> ans]
      /\ UNCHANGED <<rf, rfDisk, rfAlive, rfDrv, rfAck, rfStored>>
  BY DEF Ask, Ready
<1>2. rfResp' \in RespType
  BY <1>1 DEF RespType
<1>3. RfTypeOK'
  BY <1>1, <1>2 DEF RfInv, RfTypeOK
<1>4. MemOK' /\ DiskOK' /\ KnownOK' /\ DrvOK' /\ AnswerOK'
  BY <1>1 DEF RfInv, MemOK, DiskOK, KnownOK, DrvOK, AnswerOK
<1> QED BY <1>3, <1>4 DEF RfInv

LEMMA UnknownKeeps ==
  ASSUME RfInv, Unknown
  PROVE  RfInv'
<1>1. Answer({"fail"}, 0) \in AnsType /\ 0 \in Nat
  BY DEF Answer, AnsType
<1>2. rfResp'.cmd = "other"
  BY DEF Unknown, Ask
<1>3. RfReadBack'
  BY <1>2 DEF RfReadBack
<1> QED BY <1>1, <1>3, AskKeeps DEF Unknown

(* A read: the window, then the erased set, decide on the ECC error, the   *)
(* array on the value.                                                     *)
LEMMA ReadWordKeeps ==
  ASSUME RfInv, NEW w \in RfAddrs, ReadWord(w)
  PROVE  RfInv'
<1> DEFINE ans == CmdRead(rf, w)
           p == PageOf(w)
           r == w % RfRows
           z == IF rf.mem[w] THEN 1 ELSE 0
<1>1. Ask("read", w, w, ans)
  BY DEF ReadWord
<1>2. RfTypeOK /\ MemOK /\ rfAlive
  BY <1>1 DEF RfInv, Ask, Ready
<1>3. w \in Nat
  BY RotFlashAssumption
<1>4. z \in Nat
  OBVIOUS
<1>5. ans = IF p \notin Page \/ p \in rf.erased THEN Answer({"ecc"}, 0) ELSE Answer({}, z)
  BY DEF CmdRead
<1>6. p \in Nat /\ r \in Row /\ w = p * RfRows + r
  BY <1>3, WordInPage, Zenon
<1> HIDE DEF z, p, r
<1>7. /\ ans \in AnsType
      /\ p \notin Page \/ p \in rf.erased => "ecc" \in ans.status
      /\ p \in Page /\ p \notin rf.erased => "ecc" \notin ans.status /\ ans.dataw = z
  BY <1>4, <1>5 DEF Answer, AnsType
<1> HIDE DEF ans
<1>8. rfAck' = rfAck /\ rfResp' = [cmd |-> "read", a |-> w, b |-> w, ans |-> ans]
  BY <1>1 DEF Ask
<1>9. p \in Page => PageMatches(rfAck[p], p, rf.erased, rf.mem) /\ rfAck[p].k \in {"any", "erased", "data"}
  BY <1>2 DEF MemOK, RfTypeOK, Ack
<1>10. p \in Page /\ rfAck[p].k = "erased" => "ecc" \in ans.status
  BY <1>7, <1>9 DEF PageMatches, BitMatches
<1>11. p \in Page /\ rfAck[p].k = "data" => "ecc" \notin ans.status /\ ans.dataw = IF rfAck[p].v[r] THEN 1 ELSE 0
  BY <1>6, <1>7, <1>9 DEF PageMatches, BitMatches, z
<1>12. RfReadBack'
  BY <1>7, <1>8, <1>9, <1>10, <1>11 DEF RfReadBack, p, r
<1> QED BY <1>1, <1>3, <1>7, <1>12, AskKeeps

(* Page numbers follow word numbers.                                       *)
LEMMA PagesInOrder ==
  ASSUME NEW a \in Nat, NEW b \in Nat, a <= b
  PROVE  PageOf(a) <= PageOf(b)
<1> DEFINE x == PageOf(a)
           y == PageOf(b)
           xr == x * RfRows
           yr == y * RfRows
           s == a % RfRows
           t == b % RfRows
<1>1. x \in Nat /\ y \in Nat /\ s \in Row /\ t \in Row /\ a = xr + s /\ b = yr + t
  BY WordInPage, Zenon
<1>2. RfRows \in Nat /\ s \in Nat /\ t \in Nat /\ t < RfRows
  BY <1>1, RotFlashAssumption DEF Row
<1>3. xr \in Nat /\ yr \in Nat
  BY <1>1, <1>2
<1>4. y < x => yr + RfRows <= xr
  BY <1>1, PageBelow
<1> HIDE DEF x, y, xr, yr, s, t
<1>5. x <= y
  BY <1>1, <1>2, <1>3, <1>4
<1> QED BY <1>5 DEF x, y

(* A blank check of known pages: the programmed ones are those the erased  *)
(* set lacks.                                                              *)
LEMMA BlankCheckKeeps ==
  ASSUME RfInv, NEW a \in RfAddrs, NEW b \in RfAddrs, BlankCheck(a, b)
  PROVE  RfInv'
<1> DEFINE hits == {w \in a..b : w \in WordNo /\ PageOf(w) \notin rf.erased}
           first == CHOOSE w \in hits : \A x \in hits : w <= x
           ans == CmdBlank(rf, a, b)
           set == {w \in a..b : w \in WordNo /\ rfAck[PageOf(w)].k = "data"}
<1>1. Ask("blank", a, b, ans)
  BY DEF BlankCheck
<1>2. RfTypeOK /\ MemOK /\ rfAlive
  BY <1>1 DEF RfInv, Ask, Ready
<1>3. a \in Nat /\ b \in Nat
  BY RotFlashAssumption
<1>4. hits \in SUBSET Nat
  BY WordsAreRows
<1>5. ans = IF hits = {} THEN Answer({}, 0) ELSE Answer({"fail"}, first)
  BY DEF CmdBlank, FirstOf
<1>6. ASSUME \A p \in PagesOf(a, b) : rfAck[p].k # "any" PROVE set = hits
  <2>1. ASSUME NEW w \in a..b, w \in WordNo PROVE rfAck[PageOf(w)].k = "data" <=> PageOf(w) \notin rf.erased
    <3>1. w \in Nat /\ a <= w /\ w <= b /\ PageOf(w) \in Page
      BY <1>3, <2>1, WordsAreRows
    <3>2. PageOf(a) <= PageOf(w) /\ PageOf(w) <= PageOf(b)
      BY <1>3, <3>1, PagesInOrder
    <3>3. PageOf(w) \in PagesOf(a, b)
      BY <3>1, <3>2 DEF PagesOf
    <3>4. rfAck[PageOf(w)].k \in {"erased", "data"}
      BY <1>2, <1>6, <3>1, <3>3 DEF RfTypeOK, Ack
    <3>5. PageMatches(rfAck[PageOf(w)], PageOf(w), rf.erased, rf.mem)
      BY <1>2, <3>1 DEF MemOK
    <3> QED BY <3>4, <3>5 DEF PageMatches, BitMatches
  <2> QED BY <2>1
<1> HIDE DEF hits, set
<1>7. hits # {} => first \in hits /\ \A x \in hits : first <= x
  BY <1>4, LeastElement
<1> HIDE DEF first
<1>8. /\ ans \in AnsType
      /\ hits = {} => "fail" \notin ans.status
      /\ hits # {} => "fail" \in ans.status /\ ans.dataw = first
  <2>1. CASE hits = {}
    BY <1>5, <2>1 DEF Answer, AnsType
  <2>2. CASE hits # {}
    <3>1. first \in Nat
      BY <1>4, <1>7, <2>2
    <3>2. ans = [status |-> {"fail"}, dataw |-> first]
      BY <1>5, <2>2 DEF Answer
    <3> QED BY <2>2, <3>1, <3>2 DEF AnsType
  <2> QED BY <2>1, <2>2
<1> HIDE DEF ans
<1>9. rfAck' = rfAck /\ rfResp' = [cmd |-> "blank", a |-> a, b |-> b, ans |-> ans]
  BY <1>1 DEF Ask
<1>10. (\A p \in PagesOf(a, b) : rfAck[p].k # "any") =>
         IF set = {} THEN "fail" \notin ans.status
         ELSE "fail" \in ans.status /\ ans.dataw \in set /\ \A w \in set : ans.dataw <= w
  BY <1>6, <1>7, <1>8
<1>11. RfReadBack'
  <2>1. rfResp'.cmd = "blank" /\ rfResp'.a = a /\ rfResp'.b = b /\ rfResp'.ans = ans
    BY <1>9
  <2> QED BY <1>9, <1>10, <2>1 DEF RfReadBack, set
<1> QED BY <1>1, <1>3, <1>8, <1>11, AskKeeps

-----------------------------------------------------------------------------
(* The flash: start                                                        *)

LEMMA WritePagesOK ==
  ASSUME NEW f \in FlashType, NEW ps \in SUBSET Page
  PROVE  /\ WritePages(f, ps) \in FlashType
         /\ WritePages(f, ps).erased = f.erased \ ps
         /\ \A p \in Page : \A r \in Row :
              WritePages(f, ps).mem[p * RfRows + r] = IF p \in ps THEN FALSE ELSE f.mem[p * RfRows + r]
<1> DEFINE m == [w \in WordNo |-> IF PageOf(w) \in ps THEN FALSE ELSE f.mem[w]]
           e == f.erased \ ps
           g == [f EXCEPT !.mem = m, !.erased = e]
<1>1. f.mem \in [WordNo -> BOOLEAN] /\ f.erased \in SUBSET Page
  BY DEF FlashType
<1>2. m \in [WordNo -> BOOLEAN] /\ e \in SUBSET Page
  BY <1>1
<1>3. WritePages(f, ps) = g
  BY DEF WritePages
<1>4. \A p \in Page : \A r \in Row :
        m[p * RfRows + r] = IF p \in ps THEN FALSE ELSE f.mem[p * RfRows + r]
  <2> SUFFICES ASSUME NEW p \in Page, NEW r \in Row
               PROVE  m[p * RfRows + r] = IF p \in ps THEN FALSE ELSE f.mem[p * RfRows + r]
    OBVIOUS
  <2> DEFINE w == p * RfRows + r
  <2>1. w \in WordNo /\ p \in Nat
    BY WordsAreRows, RotFlashAssumption DEF Page
  <2>2. PageOf(w) = p
    BY <2>1, WordOfRow
  <2> HIDE DEF w
  <2>3. m[w] = IF p \in ps THEN FALSE ELSE f.mem[w]
    BY <2>1, <2>2
  <2> QED BY <2>3 DEF w
<1> HIDE DEF m, e
<1>5. g \in FlashType
  BY <1>2, Zenon DEF FlashType
<1>6. g.mem = m /\ g.erased = e
  BY DEF FlashType
<1> QED BY <1>3, <1>4, <1>5, <1>6 DEF e

LEMMA LoadedType ==
  ASSUME NEW d \in DiskType
  PROVE  LoadedMem(d) \in [WordNo -> BOOLEAN]
<1> DEFINE n == Len(d.data)
<1>1. d.data \in Seq(BOOLEAN)
  BY DEF DiskType
<1>2. n \in Nat /\ d.data \in [1..n -> BOOLEAN]
  BY <1>1
<1>3. ASSUME NEW w \in WordNo, w < n PROVE d.data[w + 1] \in BOOLEAN
  <2>1. w + 1 \in 1..n
    BY <1>2, <1>3, WordsAreRows
  <2> QED BY <1>2, <2>1
<1> QED BY <1>3 DEF LoadedMem

LEMMA AckOfOK ==
  ASSUME NEW f \in FlashType
  PROVE  /\ AckOf(f) \in [Page -> Ack]
         /\ \A p \in Page : PageMatches(AckOf(f)[p], p, f.erased, f.mem)
<1>1. ASSUME NEW p \in Page
      PROVE  AckOf(f)[p] \in Ack /\ PageMatches(AckOf(f)[p], p, f.erased, f.mem)
  <2> DEFINE k == AckOf(f)[p]
             v == [r \in Row |-> f.mem[p * RfRows + r]]
  <2>1. k = IF p \in f.erased THEN AckErased ELSE Data(v)
    BY DEF AckOf
  <2>2. f.mem \in [WordNo -> BOOLEAN]
    BY DEF FlashType
  <2>3. v \in [Row -> BOOLEAN]
    BY <2>2, WordsAreRows
  <2>4. Data(v) \in Ack /\ Data(v).k = "data" /\ Data(v).v = v
    BY <2>3, AckTypes
  <2> HIDE DEF k
  <2>5. k \in Ack /\ PageMatches(k, p, f.erased, f.mem)
    <3>1. CASE p \in f.erased
      BY <2>1, <3>1, AckTypes DEF PageMatches, BitMatches
    <3>2. CASE p \notin f.erased
      BY <2>1, <2>4, <3>2 DEF PageMatches, BitMatches
    <3> QED BY <3>1, <3>2
  <2> QED BY <2>5 DEF k
<1>2. AckOf(f) = [p \in Page |-> AckOf(f)[p]]
  BY DEF AckOf
<1> QED BY <1>1, <1>2

(* new() loads every page that is known.                                   *)
LEMMA LoadedMatches ==
  ASSUME RfTypeOK, DiskOK, KnownOK, ~rfAlive, NEW p \in Page
  PROVE  PageMatches(rfAck[p], p, rfDisk.bits, LoadedMem(rfDisk))
<1>1. CASE rfAck[p].k = "any"
  BY <1>1 DEF PageMatches, BitMatches
<1>2. CASE rfAck[p].k # "any"
  <2>1. BitMatches(rfAck[p], p, rfDisk.bits) /\ FileMatches(rfAck[p], p, rfDisk)
    BY <1>2 DEF KnownOK, DiskOK
  <2>2. ASSUME rfAck[p].k = "data", NEW r \in Row PROVE LoadedMem(rfDisk)[p * RfRows + r] = rfAck[p].v[r]
    <3> DEFINE w == p * RfRows + r
    <3>1. w \in WordNo
      BY WordsAreRows
    <3>2. w < Len(rfDisk.data) /\ rfDisk.data[w + 1] = rfAck[p].v[r]
      BY <2>1, <2>2 DEF FileMatches
    <3> HIDE DEF w
    <3>3. LoadedMem(rfDisk)[w] = rfDisk.data[w + 1]
      BY <3>1, <3>2 DEF LoadedMem
    <3> QED BY <3>2, <3>3 DEF w
  <2> QED BY <2>1, <2>2 DEF PageMatches
<1> QED BY <1>1, <1>2

(* A start: a fresh device, a loaded one, or a loaded one with bootleby's  *)
(* image over page 0, whose other pages are written back as loaded.        *)
LEMMA BootKeeps ==
  ASSUME RfInv, NEW fresh \in BOOLEAN, NEW opens \in BOOLEAN, NEW bootleby \in BOOLEAN,
         Boot(fresh, opens, bootleby)
  PROVE  RfInv'
<1> DEFINE persisted == rfDisk.exists /\ ~fresh
           loaded == NewFlash(LoadedMem(rfDisk), rfDisk.bits)
           base == IF persisted THEN loaded ELSE SeedFresh
           h == Installed(base, bootleby)
           f == [h EXCEPT !.file = opens]
           made == IF ~persisted THEN Page ELSE IF bootleby THEN {0} ELSE {}
           saves == IF made = {} THEN {Unwritten(f, TRUE)} ELSE PersistAll(f)
<1>0. /\ RfTypeOK /\ DiskOK /\ KnownOK /\ rfDisk \in DiskType /\ rfDisk.bits \in SUBSET Page
      /\ rfDisk.exists \in BOOLEAN
  BY DEF RfInv, RfTypeOK, DiskType
<1>1. ~rfAlive /\ Settle(saves, made, AckOf(f), rfAck) /\ rfDrv' = NoDrv /\ rfResp' = NoResp
  BY DEF Boot
<1>2. {0} \in SUBSET Page /\ SeedPages \in SUBSET Page /\ made \in SUBSET Page
  BY RotFlashAssumption DEF Page
<1>3. LoadedMem(rfDisk) \in [WordNo -> BOOLEAN]
  BY <1>0, LoadedType
<1>4. loaded \in FlashType /\ loaded.mem = LoadedMem(rfDisk) /\ loaded.erased = rfDisk.bits
  BY <1>0, <1>3, NewFlashOK
<1>5. SeedFresh \in FlashType
  BY <1>2, OffType, WritePagesOK DEF SeedFresh
<1> HIDE DEF loaded
<1>6. base \in FlashType
  BY <1>4, <1>5
<1>7. h \in FlashType
  BY <1>2, <1>6, WritePagesOK DEF Installed
<1>8. f \in FlashType /\ f.mem = h.mem /\ f.erased = h.erased
  BY <1>7, FileFlag
<1>9. AckOf(f) \in [Page -> Ack] /\ \A p \in Page : PageMatches(AckOf(f)[p], p, f.erased, f.mem)
  BY <1>8, AckOfOK
<1>10. ASSUME NEW p \in Page
       PROVE  PageMatches(IF p \in made THEN AckOf(f)[p] ELSE rfAck[p], p, f.erased, f.mem)
  <2>1. CASE p \in made
    BY <1>9, <2>1
  <2>2. CASE p \notin made
    <3>1. persisted /\ (bootleby => p \notin {0})
      BY <2>2
    <3>2. base = loaded
      BY <3>1
    <3>3. (p \in h.erased <=> p \in loaded.erased) /\ \A r \in Row : h.mem[p * RfRows + r] = loaded.mem[p * RfRows + r]
      <4>1. CASE bootleby = TRUE
        <5>1. h = WritePages(loaded, {0}) /\ p \notin {0}
          BY <3>1, <3>2, <4>1 DEF Installed
        <5>2. /\ WritePages(loaded, {0}).erased = loaded.erased \ {0}
              /\ \A q \in Page : \A r \in Row :
                   WritePages(loaded, {0}).mem[q * RfRows + r] = IF q \in {0} THEN FALSE ELSE loaded.mem[q * RfRows + r]
          BY <1>2, <1>4, WritePagesOK, Zenon
        <5> HIDE DEF h
        <5> QED BY <5>1, <5>2
      <4>2. CASE bootleby = FALSE
        BY <3>2, <4>2 DEF Installed
      <4> QED BY <4>1, <4>2
    <3>4. PageMatches(rfAck[p], p, rfDisk.bits, LoadedMem(rfDisk))
      BY <1>0, <1>1, LoadedMatches
    <3> HIDE DEF f, h, base
    <3>5. PageMatches(rfAck[p], p, f.erased, f.mem)
      BY <1>4, <1>8, <3>3, <3>4 DEF PageMatches, BitMatches
    <3> HIDE DEF made
    <3> QED BY <2>2, <3>5
  <2> QED BY <2>1, <2>2
<1>11. \A o \in saves : Saved(o, f, rfDisk, made)
  <2> HIDE DEF f, made
  <2>1. CASE made = {}
    BY <1>0, <1>8, <2>1, UnwrittenOK
  <2>2. CASE made # {}
    BY <1>0, <1>2, <1>8, <2>2, PersistAllOK
  <2> QED BY <2>1, <2>2
<1> HIDE DEF f, made, saves
<1>12. /\ rf' \in FlashType /\ rfDisk' \in DiskType /\ rfAlive' \in BOOLEAN
       /\ rfAck' \in [Page -> Ack] /\ rfStored' \in StoredType
       /\ MemOK' /\ DiskOK' /\ KnownOK'
  BY <1>0, <1>1, <1>2, <1>8, <1>9, <1>10, <1>11, SettleKeeps
<1>13. RfTypeOK'
  BY <1>1, <1>12, NoAnswer, NoDriver DEF RfTypeOK
<1> QED BY <1>1, <1>12, <1>13, NoAnswer, NoDriver DEF RfInv

LEMMA InitRf ==
  RfInit => RfInv
<1> SUFFICES ASSUME RfInit PROVE RfInv
  OBVIOUS
<1>1. NoDisk \in DiskType
  BY DEF NoDisk, DiskType
<1>2. rfStored \in StoredType /\ rfStored.array = {} /\ rfStored.bits = {}
  BY DEF RfInit, NoneStored, StoredType
<1>3. rfResp.cmd = "none" /\ rfDrv.st = "idle"
  BY DEF RfInit, NoResp, NoDrv
<1>4. RfTypeOK
  BY <1>1, <1>2, AckTypes, OffType, NoAnswer, NoDriver DEF RfTypeOK, RfInit
<1>5. \A p \in Page : rfAck[p] = Unknowable
  BY DEF RfInit
<1>6. MemOK /\ DiskOK /\ KnownOK /\ DrvOK /\ AnswerOK
  BY <1>2, <1>3, <1>5, AckTypes DEF RfInit, MemOK, DiskOK, KnownOK, DrvOK, AnswerOK
<1>7. RfReadBack
  BY <1>3 DEF RfReadBack
<1> QED BY <1>4, <1>6, <1>7 DEF RfInv

LEMMA StutterRf ==
  RfInv /\ UNCHANGED rfVars => RfInv'
  BY DEF RfInv, RfTypeOK, MemOK, DiskOK, KnownOK, DrvOK, AnswerOK, RfReadBack, rfVars

(* The engine has every page as the last command made it, and so has each  *)
(* file for the pages stored in it, for arrays of any number of pages and  *)
(* rows and any addresses, whichever host writes fail or are cut short and *)
(* wherever the process is killed.                                         *)
THEOREM FlashInvariance == RfSpec => []RfInv
<1>1. RfInit => RfInv
  BY InitRf
<1>2. ASSUME RfInv, RfNext PROVE RfInv'
  BY <1>2, BootKeeps, DeleteCorruptKeeps, EraseKeeps, BlankCheckKeeps, BeginPageKeeps, LoadRowKeeps,
     CommitPageKeeps, DropPageKeeps, ReadWordKeeps, UnknownKeeps, TakenKeeps, KillKeeps DEF RfNext
<1>3. RfInv /\ [RfNext]_rfVars => RfInv'
  BY <1>2, StutterRf
<1> QED BY <1>1, <1>3, PTL DEF RfSpec

(* do_cmd answers about a page what the last command made of it: in the    *)
(* process that ran the command always, in a later one if both files had   *)
(* the page when that process ended.                                       *)
THEOREM FlashReadsBack == RfSpec => []RfReadBack
<1>1. RfInv => RfReadBack
  BY DEF RfInv
<1> QED BY <1>1, FlashInvariance, PTL
=============================================================================
