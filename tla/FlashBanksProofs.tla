-------------------------- MODULE FlashBanksProofs ---------------------------
(***************************************************************************)
(* Proofs about the SP's dual-bank flash, for banks of any size and words  *)
(* of any width: what the host files hold at any moment, that an update    *)
(* survives a kill, and that the emulated flash is durable flash.          *)
(***************************************************************************)
EXTENDS FlashBanks, TLAPS

USE WordAssumption, PlausibleAssumption, ModeAssumption

(* The image file is the memory, until a write-through fails.              *)
WrittenThrough == (Runs /\ attached) => file = mem

(* The .nv file is the option bytes, until a save fails: its archive is    *)
(* the one kept in memory, and a reset enters the bank that executes or    *)
(* the recorded one.                                                       *)
Recorded ==
  (Runs /\ ~nvFailed) => (retained = nv.archive /\ committed \in {effective, nv.swap})

(* On the update protocol's path the recorded bank is the committed one    *)
(* and holds a whole image.                                                *)
WholeImage ==
  (Runs /\ ~nvFailed /\ ~offPath) => (nv.swap = committed /\ Complete(mem[nv.swap]))

IInv == TypeOK /\ WrittenThrough /\ Recorded /\ WholeImage

-----------------------------------------------------------------------------
(* The operators.                                                          *)

(* A half of the aperture is a bank; the upper half is the other one than  *)
(* the one that executes.                                                  *)
LEMMA PhysBanks ==
  ASSUME effective \in Banks
  PROVE  /\ \A h \in Banks : Phys(h) \in Banks
         /\ Phys(0) = effective /\ Phys(1) = 1 - effective /\ EraseTarget = 1 - effective
         /\ 1 - effective \in Banks
<1>1. effective = 0 \/ effective = 1
  BY DEF Banks
<1>2. /\ (0 + 0) % 2 = 0 /\ (0 + 1) % 2 = 1 /\ (1 + 0) % 2 = 1 /\ (1 + 1) % 2 = 0
  OBVIOUS
<1> QED BY <1>1, <1>2 DEF Banks, Phys, EraseTarget

(* Taking no word from another bank changes nothing, taking all of them    *)
(* copies it.                                                              *)
LEMMA OverlayExtremes ==
  ASSUME NEW old \in Content, NEW new \in Content
  PROVE  Overlay(old, new, {}) = old /\ Overlay(old, new, Words) = new
  BY DEF Overlay, Content

(* A bank half overwritten is a bank.                                      *)
LEMMA OverlayContent ==
  ASSUME NEW old \in Content, NEW new \in Content, NEW S
  PROVE  Overlay(old, new, S) \in Content
  BY DEF Overlay, Content

LEMMA ErasedContent == Erased \in Content
  BY DEF Erased, Content

(* The bank that boots is programmed, so that mirroring leaves it alone    *)
(* and at most copies it over the other.                                   *)
LEMMA MirrorKeepsBoot ==
  ASSUME NEW f \in [Banks -> Content], NEW s \in Banks, Programmed(f[s])
  PROVE  /\ Mirrored(f) \in [Banks -> Content]
         /\ Mirrored(f)[s] = f[s]
         /\ Mirrored(f)[1 - s] \in {f[s], f[1 - s]}
         /\ 1 - s \in Banks
<1>1. (s = 0 /\ 1 - s = 1) \/ (s = 1 /\ 1 - s = 0)
  BY DEF Banks
<1>2. CASE Programmed(f[0]) /\ ~Programmed(f[1])
  BY <1>1, <1>2 DEF Mirrored, Banks
<1>3. CASE Programmed(f[1]) /\ ~Programmed(f[0])
  <2>1. Mirrored(f) = [b \in Banks |-> f[1]]
    BY <1>3 DEF Mirrored
  <2> QED BY <1>1, <1>3, <2>1 DEF Banks
<1>4. CASE ~(Programmed(f[0]) /\ ~Programmed(f[1])) /\ ~(Programmed(f[1]) /\ ~Programmed(f[0]))
  <2>1. Mirrored(f) = f
    BY <1>4 DEF Mirrored
  <2> QED BY <1>1, <2>1 DEF Banks
<1> QED BY <1>2, <1>3, <1>4

(* The same of what either mode loads.                                     *)
LEMMA LoadedKeepsBoot ==
  ASSUME file \in [Banks -> Content], NEW s \in Banks, Programmed(file[s]), NEW mode
  PROVE  /\ Loaded(mode) \in [Banks -> Content]
         /\ Loaded(mode)[s] = file[s]
         /\ Loaded(mode)[1 - s] \in {file[s], file[1 - s]}
         /\ 1 - s \in Banks
<1>1. 1 - s \in Banks
  BY DEF Banks
<1> QED BY <1>1, MirrorKeepsBoot DEF Loaded

-----------------------------------------------------------------------------
(* The inductive invariant, action by action.                              *)

(* A killed process leaves types intact, and nothing else to hold of it.   *)
LEMMA GoneKeeps ==
  ASSUME ProcessGone, offPath' \in BOOLEAN, file' \in [Banks -> Content],
         nv' \in [swap : Banks, archive : Archives]
  PROVE  IInv' /\ ~Runs'
<1>1. ~Runs'
  BY DEF ProcessGone, Runs
<1>2. mem' \in [Banks -> Content]
  BY ErasedContent DEF ProcessGone
<1>3. /\ running' = "off" /\ attached' \in BOOLEAN /\ nvFailed' \in BOOLEAN
      /\ effective' \in Banks /\ committed' \in Banks /\ staged' \in Banks
      /\ bank2_locked' \in BOOLEAN /\ opt_locked' \in BOOLEAN
      /\ key2_state' \in {0, 1} /\ optkey_state' \in {0, 1}
      /\ pg' \in BOOLEAN /\ eop' \in BOOLEAN /\ erase_irq' \in BOOLEAN
      /\ retained' \in Archives
  BY DEF ProcessGone, PowerOnState, Banks, Archives
<1>4. TypeOK'
  BY <1>2, <1>3 DEF TypeOK
<1> QED BY <1>1, <1>4 DEF IInv, WrittenThrough, Recorded, WholeImage

(* The commands rewrite files of an instance that is not running.          *)
LEMMA CommandKeeps ==
  ASSUME IInv, Command
  PROVE  IInv'
<1> USE DEF IInv
<1>0. file \in [Banks -> Content] /\ nv \in [swap : Banks, archive : Archives]
  BY DEF TypeOK
<1>1. NvDefault \in [swap : Banks, archive : Archives]
  BY DEF NvDefault, Banks, Archives
<1>2. ASSUME Idle, UNCHANGED <<mem, swaps, locks, ctrl, volat, fresh, offPath>>,
             file' \in [Banks -> Content], nv' \in [swap : Banks, archive : Archives]
      PROVE  IInv'
  <2>1. ~Runs'
    BY <1>2 DEF Idle, Runs, volat
  <2>2. TypeOK'
    BY <1>2 DEF TypeOK, swaps, locks, ctrl, volat
  <2> QED BY <2>1, <2>2 DEF WrittenThrough, Recorded, WholeImage
<1>3. ASSUME NEW s \in Banks, NEW c \in Content, NEW a \in Archives, CmdFlash(s, c, a)
      PROVE  IInv'
  BY <1>0, <1>2, <1>3 DEF CmdFlash
<1>4. ASSUME NEW s \in Banks, NEW c \in Content, NEW n \in Banks, NEW S \in SUBSET Words,
             KillInSaveNvm(s, c, n, S)
      PROVE  IInv'
  <2> DEFINE data == [file EXCEPT ![s] = c]
  <2>1. data \in [Banks -> Content]
    BY <1>0
  <2>2. file' = [b \in Banks |-> IF b < n THEN data[b]
                                 ELSE IF b = n THEN Overlay(Erased, data[b], S) ELSE Erased]
    BY <1>4 DEF KillInSaveNvm
  <2> HIDE DEF data
  <2>3. file' \in [Banks -> Content]
    BY <2>1, <2>2, OverlayContent, ErasedContent
  <2> QED BY <1>0, <1>2, <1>4, <2>3 DEF KillInSaveNvm
<1>5. ASSUME NEW s \in Banks, NEW c \in Content, KillInFlashNv(s, c)
      PROVE  IInv'
  BY <1>0, <1>1, <1>2, <1>5 DEF KillInFlashNv
<1>6. ASSUME NEW s \in Banks, CmdErase(s)
      PROVE  IInv'
  BY <1>0, <1>2, <1>6, ErasedContent DEF CmdErase
<1>7. ASSUME NEW m \in {"batch", "serve"}, NEW s \in Banks, NEW ok \in BOOLEAN, Start(m, s, ok)
      PROVE  IInv'
  <2>1. Loaded(m) \in [Banks -> Content] /\ Loaded(m)[s] = file[s]
    BY <1>0, <1>7, LoadedKeepsBoot DEF Start
  <2>2. mem' = Loaded(m) /\ file' = (IF ok THEN mem' ELSE file) /\ attached' = ok /\ nv' = nv
        /\ committed' = s /\ effective' = s /\ retained' = nv.archive
        /\ offPath' = (s # nv.swap \/ ~Complete(file[s]))
    BY <1>7 DEF Start, PowerOnState
  <2>3. TypeOK'
    <3>1. /\ nvFailed' \in BOOLEAN /\ staged' \in Banks
          /\ bank2_locked' \in BOOLEAN /\ opt_locked' \in BOOLEAN
          /\ key2_state' \in {0, 1} /\ optkey_state' \in {0, 1}
          /\ pg' \in BOOLEAN /\ eop' \in BOOLEAN /\ erase_irq' \in BOOLEAN
          /\ running' \in {"off", "batch", "serve"}
      BY <1>7 DEF Start, PowerOnState
    <3>2. attached' \in BOOLEAN /\ offPath' \in BOOLEAN
      BY <1>7, <2>2
    <3>3. retained' \in Archives
      BY <1>0, <2>2
    <3>4. file' \in [Banks -> Content] /\ mem' \in [Banks -> Content]
      BY <1>0, <2>1, <2>2
    <3> QED BY <1>0, <1>7, <2>2, <3>1, <3>2, <3>3, <3>4 DEF TypeOK
  <2>4. WrittenThrough' /\ Recorded'
    BY <2>2 DEF WrittenThrough, Recorded
  <2>5. WholeImage'
    BY <2>1, <2>2 DEF WholeImage
  <2> QED BY <2>3, <2>4, <2>5
<1>8. ASSUME NEW s \in Banks, NEW S \in SUBSET Words, KillInSeed(s, S)
      PROVE  IInv'
  <2>1. Mirrored(file) \in [Banks -> Content]
    BY <1>0, <1>8, MirrorKeepsBoot DEF KillInSeed
  <2>2. file' = [b \in Banks |-> Overlay(file[b], Mirrored(file)[b], S)]
    BY <1>8 DEF KillInSeed
  <2>3. file' \in [Banks -> Content]
    BY <1>0, <2>1, <2>2, OverlayContent
  <2> QED BY <1>0, <1>2, <1>8, <2>3 DEF KillInSeed
<1>9. Taken \subseteq BOOLEAN
  BY DEF Taken
<1> QED BY <1>3, <1>4, <1>5, <1>6, <1>7, <1>8, <1>9 DEF Command

(* A store to bank b that leaves the rest of memory alone: the file follows *)
(* or the handle is gone.                                                  *)
LEMMA WriteThroughKeeps ==
  ASSUME TypeOK, WrittenThrough, Runs, NEW b \in Banks, NEW c \in Content, NEW ok \in BOOLEAN,
         mem' = [mem EXCEPT ![b] = c], WriteThrough(mem', b, ok), UNCHANGED running
  PROVE  /\ mem' \in [Banks -> Content] /\ file' \in [Banks -> Content]
         /\ attached' \in BOOLEAN /\ WrittenThrough'
<1>0. file \in [Banks -> Content] /\ mem \in [Banks -> Content] /\ attached \in BOOLEAN
  BY DEF TypeOK
<1>1. mem' \in [Banks -> Content] /\ mem'[b] = c
  BY <1>0
<1>2. file' = (IF attached /\ ok THEN [file EXCEPT ![b] = c] ELSE file)
      /\ attached' = (attached /\ ok)
  BY <1>1 DEF WriteThrough
<1>3. file' \in [Banks -> Content] /\ attached' \in BOOLEAN
  BY <1>0, <1>2
<1>4. WrittenThrough'
  BY <1>0, <1>2 DEF WrittenThrough, Runs
<1> QED BY <1>1, <1>3, <1>4

(* Steps that leave memory, files and the swap alone.                      *)
LEMMA RegisterKeeps ==
  ASSUME IInv,
         \/ \E k \in Keys : KeyR2(k) \/ OptKeyR(k)
         \/ \E v \in BOOLEAN : Sr2(v) \/ Ccr2(v)
         \/ \E v \in Banks : OptSrPrg(v)
         \/ TakeEraseIrq \/ DebugReset
  PROVE  IInv' /\ UNCHANGED <<file, nv, mem, effective, committed, running, attached, nvFailed>>
<1> USE DEF IInv
<1>1. UNCHANGED <<file, nv, mem, effective, committed, retained, running, attached, nvFailed, offPath>>
  BY DEF KeyR2, OptKeyR, Sr2, Ccr2, OptSrPrg, TakeEraseIrq, DebugReset, nvFile, swaps, ctrl, volat
<1>2. WrittenThrough' /\ Recorded' /\ WholeImage'
  BY <1>1 DEF WrittenThrough, Recorded, WholeImage, Runs, Complete, Programmed
<1>3. /\ bank2_locked' \in BOOLEAN /\ opt_locked' \in BOOLEAN /\ staged' \in Banks
      /\ key2_state' \in {0, 1} /\ optkey_state' \in {0, 1}
      /\ pg' \in BOOLEAN /\ eop' \in BOOLEAN /\ erase_irq' \in BOOLEAN
  <2>1. CASE \E k \in Keys : KeyR2(k) \/ OptKeyR(k)
    BY <2>1 DEF TypeOK, KeyR2, OptKeyR, swaps, ctrl
  <2>2. CASE \E v \in BOOLEAN : Sr2(v) \/ Ccr2(v)
    BY <2>2 DEF TypeOK, Sr2, Ccr2, swaps, locks
  <2>3. CASE \E v \in Banks : OptSrPrg(v)
    BY <2>3 DEF TypeOK, OptSrPrg, locks, ctrl
  <2>4. CASE TakeEraseIrq \/ DebugReset
    BY <2>4 DEF TypeOK, TakeEraseIrq, DebugReset, swaps, locks, ctrl
  <2> QED BY <2>1, <2>2, <2>3, <2>4
<1>4. TypeOK'
  BY <1>1, <1>3 DEF TypeOK
<1> QED BY <1>1, <1>2, <1>4

(* CR2: only the bank that does not execute is erased, and on the path     *)
(* that is not the recorded one.                                           *)
LEMMA Cr2Keeps ==
  ASSUME IInv, NEW lock \in BOOLEAN, NEW program \in BOOLEAN, NEW erase \in BOOLEAN,
         NEW eopie \in BOOLEAN, NEW ok \in BOOLEAN, Cr2(lock, program, erase, eopie, ok)
  PROVE  IInv'
<1> USE DEF IInv
<1>0. /\ file \in [Banks -> Content] /\ mem \in [Banks -> Content]
      /\ nv \in [swap : Banks, archive : Archives] /\ effective \in Banks
      /\ EraseTarget \in Banks /\ EraseTarget = 1 - effective /\ effective # 1 - effective
  BY PhysBanks DEF TypeOK, Banks
<1>1. /\ Runs /\ UNCHANGED <<nv, swaps, opt_locked, key2_state, optkey_state, retained, running,
                            nvFailed>>
      /\ pg' \in BOOLEAN /\ bank2_locked' \in BOOLEAN
  BY DEF Cr2, TypeOK
<1>2. CASE erase /\ ~bank2_locked'
  <2>1. /\ mem' = [mem EXCEPT ![EraseTarget] = Erased] /\ WriteThrough(mem', EraseTarget, ok)
        /\ offPath' = (offPath \/ committed # effective)
        /\ eop' = TRUE /\ erase_irq' = (erase_irq \/ eopie)
    BY <1>2 DEF Cr2
  <2>2. /\ mem' \in [Banks -> Content] /\ file' \in [Banks -> Content]
        /\ attached' \in BOOLEAN /\ WrittenThrough'
    BY <1>0, <1>1, <2>1, WriteThroughKeeps, ErasedContent
  <2>3. eop' \in BOOLEAN /\ erase_irq' \in BOOLEAN /\ offPath' \in BOOLEAN
    BY <2>1 DEF TypeOK
  <2>4. TypeOK'
    BY <1>1, <2>2, <2>3 DEF TypeOK, swaps
  <2>5. Recorded'
    BY <1>1 DEF Recorded, Runs, swaps
  <2>6. WholeImage'
    <3> SUFFICES ASSUME ~nvFailed, ~offPath, committed = effective
                 PROVE  nv.swap = committed /\ Complete(mem'[nv.swap])
      BY <1>1, <2>1 DEF WholeImage, swaps, Runs
    <3>1. nv.swap = effective /\ Complete(mem[nv.swap])
      BY <1>1 DEF WholeImage
    <3>2. mem'[nv.swap] = mem[nv.swap]
      BY <1>0, <2>1, <3>1
    <3> QED BY <3>1, <3>2
  <2> QED BY <2>2, <2>4, <2>5, <2>6
<1>3. CASE ~(erase /\ ~bank2_locked')
  <2>1. UNCHANGED <<mem, file, attached, eop, erase_irq, offPath>>
    BY <1>3 DEF Cr2
  <2>2. TypeOK'
    BY <1>1, <2>1 DEF TypeOK, swaps
  <2>3. WrittenThrough' /\ Recorded' /\ WholeImage'
    BY <1>1, <2>1 DEF WrittenThrough, Recorded, WholeImage, Runs, Complete, Programmed, swaps
  <2> QED BY <2>2, <2>3
<1> QED BY <1>2, <1>3

(* write_mem: programming clears bits of one word; on the path it is not a *)
(* word of the recorded bank.                                              *)
LEMMA WriteMemKeeps ==
  ASSUME IInv, NEW h \in Banks, NEW w \in Words, NEW v \in SUBSET Bits, NEW ok \in BOOLEAN,
         WriteMem(h, w, v, ok)
  PROVE  IInv'
<1> USE DEF IInv
<1> DEFINE b == Phys(h)
           c == [mem[b] EXCEPT ![w] = @ \cap v]
<1>0. /\ mem \in [Banks -> Content] /\ effective \in Banks /\ b \in Banks
      /\ (h # 0 => b # effective) /\ nv \in [swap : Banks, archive : Archives]
  BY PhysBanks DEF TypeOK, Banks
<1>1. c \in Content
  BY <1>0 DEF Content
<1>2. /\ Runs /\ mem' = [mem EXCEPT ![b] = c] /\ WriteThrough(mem', b, ok)
      /\ offPath' = (offPath \/ h = 0 \/ mem[b][w] # Bits \/ committed # effective)
      /\ UNCHANGED <<nv, swaps, locks, ctrl, running, nvFailed>>
  <2>1. mem' = [mem EXCEPT ![b] = c]
    BY DEF WriteMem
  <2>2. offPath' = (offPath \/ h = 0 \/ mem[b][w] # Bits \/ committed # effective)
    BY DEF WriteMem
  <2>3. Runs /\ WriteThrough(mem', b, ok) /\ UNCHANGED <<nv, swaps, locks, ctrl, running, nvFailed>>
    BY DEF WriteMem
  <2> QED BY <2>1, <2>2, <2>3
<1> HIDE DEF b, c
<1>3. /\ mem' \in [Banks -> Content] /\ file' \in [Banks -> Content]
      /\ attached' \in BOOLEAN /\ WrittenThrough'
  BY <1>0, <1>1, <1>2, WriteThroughKeeps
<1>4. offPath' \in BOOLEAN
  BY <1>2 DEF TypeOK
<1>5. TypeOK'
  BY <1>2, <1>3, <1>4 DEF TypeOK, swaps, locks, ctrl
<1>6. Recorded'
  BY <1>2 DEF Recorded, Runs, swaps, ctrl
<1>7. WholeImage'
  <2> SUFFICES ASSUME ~nvFailed, ~offPath, h # 0, committed = effective
               PROVE  nv.swap = committed /\ Complete(mem'[nv.swap])
    BY <1>2 DEF WholeImage, swaps, Runs
  <2>1. nv.swap = effective /\ Complete(mem[nv.swap])
    BY <1>2 DEF WholeImage
  <2>2. mem'[nv.swap] = mem[nv.swap]
    BY <1>0, <1>2, <2>1
  <2> QED BY <2>1, <2>2
<1> QED BY <1>3, <1>5, <1>6, <1>7

(* OPTCR: a commit that is saved records the staged bank; on the path both *)
(* banks are whole.                                                        *)
LEMMA OptCrKeeps ==
  ASSUME IInv, NEW lock \in BOOLEAN, NEW start \in BOOLEAN, NEW outcome \in Outcomes,
         OptCr(lock, start, outcome)
  PROVE  IInv'
<1> USE DEF IInv
<1>0. /\ nv \in [swap : Banks, archive : Archives] /\ staged \in Banks /\ retained \in Archives
      /\ outcome \in {"saved", "unopened", "truncated"}
  BY DEF TypeOK, Outcomes
<1>1. /\ Runs /\ UNCHANGED <<file, mem, effective, staged, bank2_locked, key2_state, optkey_state,
                            ctrl, running, attached>>
      /\ opt_locked' \in BOOLEAN
  BY DEF OptCr, TypeOK
<1>2. WrittenThrough'
  BY <1>1 DEF WrittenThrough, Runs
<1>3. CASE start /\ ~opt_locked'
  <2>1. /\ committed' = staged /\ nv' = SaveNv(outcome) /\ nvFailed' = (outcome # "saved")
        /\ offPath' = (offPath \/ ~Complete(mem[0]) \/ ~Complete(mem[1]))
    BY <1>3 DEF OptCr
  <2>2. nv' \in [swap : Banks, archive : Archives]
        /\ (outcome = "saved" => nv'.swap = staged /\ nv'.archive = retained)
    BY <1>0, <2>1 DEF SaveNv, NvDefault, Banks, Archives
  <2>3. nvFailed' \in BOOLEAN /\ offPath' \in BOOLEAN /\ committed' \in Banks
    BY <1>0, <2>1
  <2>4. TypeOK'
    BY <1>1, <2>2, <2>3 DEF TypeOK, ctrl
  <2>5. Recorded'
    BY <1>1, <2>1, <2>2 DEF Recorded, ctrl
  <2>6. WholeImage'
    BY <1>0, <1>1, <2>1, <2>2 DEF WholeImage, Banks
  <2> QED BY <1>2, <2>4, <2>5, <2>6
<1>4. CASE ~(start /\ ~opt_locked')
  <2>1. UNCHANGED <<committed, nv, nvFailed, offPath>>
    BY <1>4 DEF OptCr
  <2>2. TypeOK'
    BY <1>1, <2>1 DEF TypeOK, ctrl
  <2>3. Recorded' /\ WholeImage'
    BY <1>1, <2>1 DEF Recorded, WholeImage, Runs, Complete, Programmed, ctrl
  <2> QED BY <1>2, <2>2, <2>3
<1> QED BY <1>3, <1>4

(* A kill leaves the files as they are, or the file half erased, or the    *)
(* record empty.                                                           *)
LEMMA KillKeeps ==
  ASSUME IInv, Kill \/ KillInCommit \/ \E S \in SUBSET Words : KillInErase(S)
  PROVE  IInv' /\ ~Runs'
<1>0. file \in [Banks -> Content] /\ nv \in [swap : Banks, archive : Archives] /\ offPath \in BOOLEAN
      /\ EraseTarget \in Banks
  BY PhysBanks DEF IInv, TypeOK
<1>1. CASE Kill
  BY <1>0, <1>1, GoneKeeps DEF Kill, nvFile
<1>2. CASE KillInCommit
  <2>1. nv' \in [swap : Banks, archive : Archives]
    BY <1>2 DEF KillInCommit, NvDefault, Banks, Archives
  <2>2. ProcessGone /\ file' = file /\ offPath' \in BOOLEAN
    BY <1>0, <1>2 DEF KillInCommit
  <2> QED BY <1>0, <2>1, <2>2, GoneKeeps
<1>3. ASSUME NEW S \in SUBSET Words, KillInErase(S)
      PROVE  IInv' /\ ~Runs'
  <2>1. Overlay(file[EraseTarget], Erased, S) \in Content
    BY <1>0, OverlayContent, ErasedContent
  <2>2. file' = [file EXCEPT ![EraseTarget] = Overlay(file[EraseTarget], Erased, S)]
    BY <1>3 DEF KillInErase
  <2>3. file' \in [Banks -> Content]
    BY <1>0, <2>1, <2>2
  <2>4. ProcessGone /\ nv' = nv /\ offPath' \in BOOLEAN
    BY <1>0, <1>3 DEF KillInErase
  <2> QED BY <1>0, <2>3, <2>4, GoneKeeps
<1> QED BY <1>1, <1>2, <1>3

(* SYSRESETREQ latches the committed swap.                                 *)
LEMMA SelfResetKeeps ==
  ASSUME IInv, SelfReset
  PROVE  IInv'
<1> USE DEF IInv
<1>1. effective' = committed
      /\ UNCHANGED <<file, nv, mem, committed, staged, locks, ctrl, volat, offPath>>
  BY DEF SelfReset, nvFile
<1>2. TypeOK'
  BY <1>1 DEF TypeOK, locks, ctrl, volat
<1>3. WrittenThrough' /\ Recorded' /\ WholeImage'
  BY <1>1 DEF WrittenThrough, Recorded, WholeImage, Runs, Complete, Programmed, ctrl, volat
<1> QED BY <1>2, <1>3

(* A fresh instance is off, both banks erased.                             *)
LEMMA InitIInv == Init => IInv
<1> SUFFICES ASSUME Init PROVE IInv
  OBVIOUS
<1>1. ~Runs
  BY DEF Init, Runs
<1>2. file \in [Banks -> Content] /\ mem \in [Banks -> Content]
  BY ErasedContent DEF Init
<1>3. nv \in [swap : Banks, archive : Archives] /\ retained \in Archives
  BY DEF Init, NvDefault, Banks, Archives
<1>4. TypeOK
  BY <1>2, <1>3 DEF Init, TypeOK, Banks
<1> QED BY <1>1, <1>4 DEF IInv, WrittenThrough, Recorded, WholeImage

(* Every command, every instruction of the firmware, every reset and every *)
(* kill preserves the invariant.                                           *)
LEMMA NextIInv == IInv /\ [Next]_vars => IInv'
<1> SUFFICES ASSUME IInv, [Next]_vars PROVE IInv'
  OBVIOUS
<1>0. Taken \subseteq BOOLEAN
  BY DEF Taken
<1>1. CASE Command
  BY <1>1, CommandKeeps
<1>2. CASE Access
  <2>1. CASE \E l, p, e, i \in BOOLEAN, ok \in Taken : Cr2(l, p, e, i, ok)
    BY <1>0, <2>1, Cr2Keeps
  <2>2. CASE \E h \in Banks, w \in Words, v \in SUBSET Bits, ok \in Taken : WriteMem(h, w, v, ok)
    BY <1>0, <2>2, WriteMemKeeps
  <2>3. CASE \E l, s \in BOOLEAN, o \in Outcomes : OptCr(l, s, o)
    BY <2>3, OptCrKeeps
  <2> QED BY <1>2, <2>1, <2>2, <2>3, RegisterKeeps DEF Access
<1>3. CASE End
  BY <1>3, SelfResetKeeps, RegisterKeeps, KillKeeps DEF End
<1>4. CASE UNCHANGED vars
  BY <1>4 DEF vars, nvFile, swaps, locks, ctrl, volat, IInv, TypeOK, WrittenThrough, Recorded,
              WholeImage, Runs, Complete, Programmed
<1> QED BY <1>1, <1>2, <1>3, <1>4 DEF Next, Firmware

(* The inductive invariant holds of every behaviour.                       *)
THEOREM Invariance == Spec => []IInv
  BY InitIInv, NextIInv, PTL DEF Spec

(* Files, memory, option bytes, locks and registers keep their types.      *)
THEOREM TypeCorrect == Spec => []TypeOK
<1>1. IInv => TypeOK
  BY DEF IInv
<1> QED BY <1>1, Invariance, PTL

-----------------------------------------------------------------------------
(* Updates.                                                                *)

(* A kill of a process that is on the path: what it leaves recorded is     *)
(* whole, inside a bank erase and inside a commit too.                     *)
LEMMA KillLeavesWhole ==
  ASSUME IInv, Kill \/ KillInCommit \/ (\E S \in SUBSET Words : KillInErase(S)),
         Runs, ~offPath', attached, ~nvFailed
  PROVE  Complete(file'[nv'.swap])
<1>0. /\ file = mem /\ file \in [Banks -> Content] /\ nv \in [swap : Banks, archive : Archives]
      /\ effective \in Banks /\ EraseTarget \in Banks /\ EraseTarget # effective
  BY PhysBanks DEF IInv, TypeOK, WrittenThrough, Banks
<1>1. CASE Kill
  BY <1>0, <1>1 DEF Kill, nvFile, IInv, WholeImage
<1>2. CASE KillInCommit
  <2>1. nv'.swap = 0 /\ file' = file /\ Complete(mem[0])
    BY <1>2 DEF KillInCommit, NvDefault
  <2> QED BY <1>0, <2>1
<1>3. ASSUME NEW S \in SUBSET Words, KillInErase(S)
      PROVE  Complete(file'[nv'.swap])
  <2>1. /\ file' = [file EXCEPT ![EraseTarget] = Overlay(file[EraseTarget], Erased, S)]
        /\ nv' = nv /\ ~offPath /\ committed = effective
    BY <1>3 DEF KillInErase
  <2>2. nv.swap = effective /\ Complete(mem[nv.swap])
    BY <2>1 DEF IInv, WholeImage
  <2>3. file'[nv'.swap] = mem[nv.swap]
    BY <1>0, <2>1, <2>2
  <2> QED BY <2>2, <2>3
<1> QED BY <1>1, <1>2, <1>3

(* A process ends by a kill only: no command and no access of the firmware *)
(* turns it off.                                                           *)
LEMMA EndsByKill ==
  ASSUME Runs, running' = "off", [Next]_vars
  PROVE  Kill \/ KillInCommit \/ \E S \in SUBSET Words : KillInErase(S)
<1>1. ~Command
  BY DEF Command, CmdFlash, KillInSaveNvm, KillInFlashNv, CmdErase, Start, KillInSeed, Idle, Runs
<1>2. running # running'
  BY DEF Runs
<1>3. ~Access
  BY <1>2 DEF Access, KeyR2, OptKeyR, Cr2, Sr2, Ccr2, WriteMem, OptSrPrg, OptCr, TakeEraseIrq, volat
<1>4. ~(SelfReset \/ DebugReset \/ UNCHANGED vars)
  BY <1>2 DEF SelfReset, DebugReset, vars, volat
<1> QED BY <1>1, <1>3, <1>4 DEF Next, Firmware, End

(* An update can be killed at any step, in banks of any size: the recorded *)
(* selection names a whole image.                                          *)
THEOREM UpdateSafe == Spec => UpdateSurvivesKill
<1>1. ASSUME IInv, [Next]_vars
      PROVE  (Runs /\ running' = "off" /\ ~offPath' /\ attached /\ ~nvFailed)
             => Complete(file'[nv'.swap])
  BY <1>1, EndsByKill, KillLeavesWhole
<1> QED BY <1>1, Invariance, PTL DEF Spec, UpdateSurvivesKill

-----------------------------------------------------------------------------
(* The emulated flash implements durable flash.                            *)

(* What the abstract flash calls a bank, a content and an archive is what  *)
(* this one does.                                                          *)
LEMMA SameNames ==
  /\ Durable!Banks = Banks /\ Durable!Content = Content /\ Durable!Erased = Erased
  /\ Durable!Archives = Archives /\ Durable!Off = 2
  /\ \A old, new, S : Durable!Overlay(old, new, S) = Overlay(old, new, S)
  BY DEF Durable!Banks, Durable!Content, Durable!Erased, Durable!Archives, Durable!Off,
         Durable!Overlay, Banks, Content, Erased, Archives, Overlay

(* What the mapping makes of a refused write.                              *)
MapVolatile == Runs /\ (~attached \/ nvFailed)

(* A command on an instance that is off.                                   *)
LEMMA CommandImplements ==
  ASSUME IInv, Command
  PROVE  Durable!Next
<1> USE SameNames DEF IInv
<1>0. file \in [Banks -> Content] /\ nv \in [swap : Banks, archive : Archives]
  BY DEF TypeOK
<1>1. ASSUME NEW s \in Banks, NEW c \in Content, NEW a \in Archives, CmdFlash(s, c, a)
      PROVE  Durable!Provision
  <2>1. ~Runs /\ ~Runs' /\ file' = [file EXCEPT ![s] = c] /\ nv'.swap = nv.swap /\ nv'.archive = a
    BY <1>0, <1>1 DEF CmdFlash, Idle, Runs, volat
  <2> QED BY <2>1 DEF Durable!Provision
<1>2. ASSUME NEW s \in Banks, CmdErase(s)
      PROVE  Durable!Provision
  <2>1. ~Runs /\ ~Runs' /\ file' = [file EXCEPT ![s] = Erased] /\ nv' = nv
    BY <1>2 DEF CmdErase, Idle, Runs, volat
  <2> QED BY <1>0, <2>1, ErasedContent DEF Durable!Provision
<1>3. ASSUME NEW s \in Banks, NEW c \in Content, NEW n \in Banks, NEW S \in SUBSET Words,
             KillInSaveNvm(s, c, n, S)
      PROVE  Durable!TornProvision
  <2>1. /\ ~Runs /\ ~Runs' /\ nv' = nv
        /\ file' = Durable!Cut([file EXCEPT ![s] = c], n, S)
    BY <1>3 DEF KillInSaveNvm, Idle, Runs, volat, Durable!Cut
  <2> QED BY <2>1 DEF Durable!TornProvision
<1>4. ASSUME NEW s \in Banks, NEW c \in Content, KillInFlashNv(s, c)
      PROVE  Durable!TornProvision
  <2>1. /\ ~Runs /\ ~Runs' /\ file' = [file EXCEPT ![s] = c]
        /\ nv'.swap = 0 /\ nv'.archive = "none"
    BY <1>4 DEF KillInFlashNv, Idle, Runs, volat, NvDefault
  <2> QED BY <2>1 DEF Durable!TornProvision
<1>5. ASSUME NEW m \in {"batch", "serve"}, NEW s \in Banks, NEW ok \in BOOLEAN, Start(m, s, ok)
      PROVE  Durable!PowerOn
  <2>1. /\ ~Runs /\ Runs' /\ mem' = Loaded(m) /\ effective' = s /\ nv' = nv
        /\ attached' \in BOOLEAN /\ nvFailed' = FALSE
    BY <1>5 DEF Start, PowerOnState, Idle, Runs
  <2>2. /\ Loaded(m) \in [Banks -> Content] /\ Loaded(m)[s] = file[s]
        /\ Loaded(m)[1 - s] \in {file[s], file[1 - s]} /\ 1 - s \in Banks
    BY <1>0, <1>5, LoadedKeepsBoot DEF Start
  <2>3. s # 2 /\ \A b \in Banks : b = s \/ b = 1 - s
    BY DEF Banks
  <2>4. PICK S \in SUBSET Words : Loaded(m)[1 - s] = Overlay(file[1 - s], file[s], S)
    <3>1. Overlay(file[1 - s], file[s], {}) = file[1 - s]
          /\ Overlay(file[1 - s], file[s], Words) = file[s]
      BY <1>0, <2>2, OverlayExtremes
    <3> QED BY <2>2, <3>1
  <2>5. Loaded(m) = [file EXCEPT ![1 - s] = Overlay(file[1 - s], file[s], S)]
    BY <1>0, <2>2, <2>3, <2>4
  <2>6. MapVolatile' \in BOOLEAN
    BY DEF MapVolatile
  <2> QED BY <2>1, <2>3, <2>5, <2>6 DEF Durable!PowerOn, MapVolatile
<1>6. ASSUME NEW s \in Banks, NEW S \in SUBSET Words, KillInSeed(s, S)
      PROVE  Durable!PowerOn
  <2>1. /\ ~Runs /\ ~Runs' /\ nv' = nv
        /\ file' = [b \in Banks |-> Overlay(file[b], Mirrored(file)[b], S)]
    BY <1>6 DEF KillInSeed, Idle, Runs, volat
  <2>2. /\ Mirrored(file)[s] = file[s]
        /\ Mirrored(file)[1 - s] \in {file[s], file[1 - s]} /\ 1 - s \in Banks
    BY <1>0, <1>6, MirrorKeepsBoot DEF KillInSeed
  <2>3. \A c \in Content : Overlay(c, c, S) = c
    BY DEF Overlay, Content
  <2>4. (s = 0 /\ 1 - s = 1) \/ (s = 1 /\ 1 - s = 0)
    BY DEF Banks
  <2>5. PICK T \in SUBSET Words : file'[1 - s] = Overlay(file[1 - s], file[s], T)
    <3>1. file'[1 - s] = Overlay(file[1 - s], Mirrored(file)[1 - s], S)
      BY <2>1, <2>2
    <3>2. Overlay(file[1 - s], file[s], {}) = file[1 - s]
      BY <1>0, <2>2, OverlayExtremes
    <3> QED BY <1>0, <2>2, <2>3, <3>1, <3>2
  <2>6. file'[s] = file[s] /\ file' \in [Banks -> Content]
    BY <1>0, <2>1, <2>2, <2>3, MirrorKeepsBoot, OverlayContent, <1>6 DEF KillInSeed
  <2>7. file' = [file EXCEPT ![1 - s] = Overlay(file[1 - s], file[s], T)]
    BY <1>0, <2>2, <2>4, <2>5, <2>6 DEF Banks
  <2> QED BY <2>1, <2>7 DEF Durable!PowerOn
<1>7. Taken \subseteq BOOLEAN
  BY DEF Taken
<1> QED BY <1>1, <1>2, <1>3, <1>4, <1>5, <1>6, <1>7 DEF Command, Durable!Next

(* What the firmware does to the flash.                                    *)
LEMMA AccessImplements ==
  ASSUME IInv, Access
  PROVE  Durable!Next \/ UNCHANGED Durable!vars
<1> USE SameNames DEF IInv
<1>0. /\ nv \in [swap : Banks, archive : Archives] /\ effective \in Banks /\ effective # 2
      /\ mem \in [Banks -> Content] /\ staged \in Banks /\ retained \in Archives
  BY DEF TypeOK, Banks
<1>1. ASSUME NEW l \in BOOLEAN, NEW p \in BOOLEAN, NEW e \in BOOLEAN, NEW i \in BOOLEAN,
             NEW ok \in BOOLEAN, Cr2(l, p, e, i, ok)
      PROVE  Durable!EraseInactive \/ UNCHANGED Durable!vars
  <2>1. Runs /\ Runs' /\ nv' = nv /\ effective' = effective /\ nvFailed' = nvFailed
    BY <1>1 DEF Cr2, Runs, swaps
  <2>2. CASE e /\ ~bank2_locked'
    <3>1. mem' = [mem EXCEPT ![1 - effective] = Erased] /\ attached' = (attached /\ ok)
      BY <1>0, <1>1, <2>2, PhysBanks DEF Cr2, WriteThrough
    <3>2. MapVolatile' = MapVolatile \/ MapVolatile' = TRUE
      BY <2>1, <3>1 DEF MapVolatile
    <3> QED BY <1>0, <2>1, <3>1, <3>2 DEF Durable!EraseInactive, MapVolatile
  <2>3. CASE ~(e /\ ~bank2_locked')
    <3>1. mem' = mem /\ attached' = attached
      BY <1>1, <2>3 DEF Cr2
    <3> QED BY <2>1, <3>1 DEF Durable!vars
  <2> QED BY <2>2, <2>3
<1>2. ASSUME NEW h \in Banks, NEW w \in Words, NEW v \in SUBSET Bits, NEW ok \in BOOLEAN,
             WriteMem(h, w, v, ok)
      PROVE  Durable!ProgramWord
  <2>1. Runs /\ Runs' /\ nv' = nv /\ effective' = effective /\ nvFailed' = nvFailed
    BY <1>2 DEF WriteMem, Runs, swaps
  <2>2. mem' = [mem EXCEPT ![Phys(h)][w] = @ \cap v] /\ Phys(h) \in Banks
    BY <1>0, <1>2, PhysBanks DEF WriteMem
  <2>3. attached' = (attached /\ ok)
    BY <1>2 DEF WriteMem, WriteThrough
  <2>4. MapVolatile' = MapVolatile \/ MapVolatile' = TRUE
    BY <2>1, <2>3 DEF MapVolatile
  <2> QED BY <1>0, <2>1, <2>2, <2>4 DEF Durable!ProgramWord, MapVolatile
<1>3. ASSUME NEW l \in BOOLEAN, NEW st \in BOOLEAN, NEW o \in Outcomes, OptCr(l, st, o)
      PROVE  Durable!Commit \/ UNCHANGED Durable!vars
  <2>1. Runs /\ Runs' /\ mem' = mem /\ effective' = effective /\ attached' = attached
    BY <1>3 DEF OptCr, Runs
  <2>2. CASE st /\ ~opt_locked'
    <3>1. nv' = SaveNv(o) /\ nvFailed' = (o # "saved")
      BY <1>3, <2>2 DEF OptCr
    <3>2. CASE o = "saved"
      <4>1. nv'.swap = staged /\ nv'.archive = retained /\ nvFailed' = FALSE
        BY <3>1, <3>2 DEF SaveNv
      <4>2. CASE MapVolatile
        <5>1. MapVolatile' \in BOOLEAN
          BY DEF MapVolatile
        <5> QED BY <1>0, <2>1, <4>1, <4>2, <5>1 DEF Durable!Commit, MapVolatile
      <4>3. CASE ~MapVolatile
        <5>1. attached /\ ~nvFailed /\ retained = nv.archive
          BY <2>1, <4>3 DEF MapVolatile, Recorded
        <5>2. MapVolatile' = MapVolatile
          BY <2>1, <4>1, <5>1 DEF MapVolatile
        <5> QED BY <1>0, <2>1, <4>1, <5>1, <5>2 DEF Durable!Commit, MapVolatile
      <4> QED BY <4>2, <4>3
    <3>3. CASE o # "saved"
      <4>1. o \in {"unopened", "truncated"}
        BY <3>3 DEF Outcomes
      <4>2. nv' = nv \/ (nv'.swap = 0 /\ nv'.archive = "none")
        BY <3>1, <4>1 DEF SaveNv, NvDefault
      <4>3. MapVolatile' = TRUE
        BY <2>1, <3>1, <3>3 DEF MapVolatile
      <4> QED BY <1>0, <2>1, <4>2, <4>3 DEF Durable!Commit, MapVolatile
    <3> QED BY <3>2, <3>3
  <2>3. CASE ~(st /\ ~opt_locked')
    <3>1. nv' = nv /\ nvFailed' = nvFailed
      BY <1>3, <2>3 DEF OptCr
    <3> QED BY <2>1, <3>1 DEF Durable!vars
  <2> QED BY <2>2, <2>3
<1>4. CASE \/ \E k \in Keys : KeyR2(k) \/ OptKeyR(k)
           \/ \E v \in BOOLEAN : Sr2(v) \/ Ccr2(v)
           \/ \E v \in Banks : OptSrPrg(v)
           \/ TakeEraseIrq
  BY <1>4, RegisterKeeps DEF Durable!vars, Runs
<1>5. Taken \subseteq BOOLEAN
  BY DEF Taken
<1> QED BY <1>1, <1>2, <1>3, <1>4, <1>5 DEF Access, Durable!Next

(* Resets and kills.                                                       *)
LEMMA EndImplements ==
  ASSUME IInv, End
  PROVE  Durable!Next \/ UNCHANGED Durable!vars
<1> USE SameNames DEF IInv
<1>0. /\ nv \in [swap : Banks, archive : Archives] /\ effective \in Banks /\ effective # 2
      /\ committed \in Banks /\ file \in [Banks -> Content]
      /\ EraseTarget = 1 - effective /\ EraseTarget \in Banks
  BY PhysBanks DEF TypeOK, Banks
<1>1. CASE SelfReset
  <2>1. /\ Runs /\ Runs' /\ effective' = committed
        /\ UNCHANGED <<nv, mem, attached, nvFailed>>
    BY <1>1 DEF SelfReset, Runs, nvFile, volat
  <2>2. ~MapVolatile => committed \in {effective, nv.swap}
    BY <2>1 DEF MapVolatile, Recorded
  <2> QED BY <1>0, <2>1, <2>2 DEF Durable!Next, Durable!Reset, MapVolatile
<1>2. CASE DebugReset
  BY <1>2, RegisterKeeps DEF Durable!vars, Runs
<1>3. ASSUME Runs, ~Runs', attached => file = mem,
             \/ file' = file /\ (nv' = nv \/ (nv'.swap = 0 /\ nv'.archive = "none"))
             \/ /\ attached /\ nv' = nv
                /\ \E S \in SUBSET Words :
                     file' = [file EXCEPT ![1 - effective] = Overlay(@, Erased, S)]
      PROVE  Durable!PowerOff
  <2>1. MapVolatile' = FALSE
    BY <1>3 DEF MapVolatile
  <2>2. CASE attached
    BY <1>0, <1>3, <2>1, <2>2 DEF Durable!PowerOff, MapVolatile
  <2>3. CASE ~attached
    <3>1. MapVolatile
      BY <1>3, <2>3 DEF MapVolatile
    <3> QED BY <1>0, <1>3, <2>1, <2>3, <3>1 DEF Durable!PowerOff, MapVolatile
  <2> QED BY <2>2, <2>3
<1>4. CASE Kill
  BY <1>3, <1>4, KillKeeps DEF Kill, nvFile, WrittenThrough, Durable!Next
<1>5. CASE KillInCommit
  BY <1>3, <1>5, KillKeeps DEF KillInCommit, NvDefault, WrittenThrough, Durable!Next
<1>6. CASE \E S \in SUBSET Words : KillInErase(S)
  BY <1>0, <1>3, <1>6, KillKeeps DEF KillInErase, WrittenThrough, Durable!Next
<1> QED BY <1>1, <1>2, <1>4, <1>5, <1>6 DEF End, Durable!Next

(* The flash as the SP and the host files make it is durable two-bank      *)
(* flash: every step of it is a step DurableFlash allows, or none.         *)
THEOREM ImplementsDurable == Spec => ImplementsDurableFlash
<1>1. Init => Durable!Init
  BY SameNames DEF Init, Durable!Init, Runs, NvDefault
<1>2. ASSUME IInv, [Next]_vars
      PROVE  [Durable!Next]_(Durable!vars)
  <2>1. CASE UNCHANGED vars
    BY <2>1 DEF vars, nvFile, swaps, volat, Durable!vars, Runs
  <2> QED
    BY <1>2, <2>1, CommandImplements, AccessImplements, EndImplements DEF Next, Firmware
<1> QED
  BY <1>1, <1>2, Invariance, PTL DEF Spec, Durable!Spec, ImplementsDurableFlash
=============================================================================
