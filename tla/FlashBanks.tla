----------------------------- MODULE FlashBanks ------------------------------
(***************************************************************************)
(* The SP's dual-bank flash (src/src/flash.rs): the FLASH controller's     *)
(* locks, erase, NOR programming and option-byte bank swap; the two host   *)
(* files behind it; the commands that provision them and start the         *)
(* emulator (src/src/main.rs); and the resets that do or do not latch a    *)
(* committed swap (main.rs boot, src/src/gdb.rs serve, src/src/debugport.rs).*)
(*                                                                         *)
(* A word's value is the set of its one bits, so programming is            *)
(* intersection.  Half h of the aperture is physical bank h XOR swap.  The *)
(* process can be killed at any point; what a kill inside a file rewrite   *)
(* leaves behind is an action of its own.  Commands are not run beside a   *)
(* running emulator.                                                       *)
(***************************************************************************)
EXTENDS Naturals

CONSTANTS
  Words,        \* words of a bank
  Vector,       \* the first of them: the initial stack pointer
  Bits,         \* bits of a word
  PlausibleSp,  \* values slot_programmed accepts
  Overrides,    \* bound: whether `run a` and `run b` are used to start
  Faults        \* bound: whether host file writes fail

ASSUME WordAssumption      == Vector \in Words
ASSUME PlausibleAssumption == PlausibleSp \subseteq (SUBSET Bits) \ {Bits}
ASSUME ModeAssumption      == {Overrides, Faults} \subseteq BOOLEAN

VARIABLES
  \* host files, as load_nvm and load_nv would read them
  file, nv,
  \* the process
  running,        \* "off", "batch" (main.rs boot) or "serve" (gdb.rs serve)
  \* struct Flash
  mem,
  attached,       \* file handle is Some
  effective, committed, staged,
  bank2_locked, opt_locked, key2_state, optkey_state,
  pg, eop, erase_irq,
  retained,       \* Flash.archive
  fresh,          \* the SP core is at its reset vector
  \* history
  nvFailed,       \* this process's last save_nv failed
  offPath         \* the user or the firmware left the update protocol

nvFile  == <<file, nv>>
swaps   == <<effective, committed, staged>>
locks   == <<bank2_locked, opt_locked, key2_state, optkey_state>>
ctrl    == <<pg, eop, erase_irq, retained>>
volat   == <<running, attached, nvFailed>>
vars    == <<nvFile, mem, swaps, locks, ctrl, volat, fresh, offPath>>

Banks      == {0, 1}
Content    == [Words -> SUBSET Bits]
Erased     == [w \in Words |-> Bits]
Archives   == {"none", "sp"}
NvDefault  == [swap |-> 0, archive |-> "none"]

Programmed(c) == c[Vector] \in PlausibleSp                 \* slot_programmed
Complete(c)   == Programmed(c) /\ \A w \in Words : c[w] # Bits
Phys(h)       == (h + effective) % 2                       \* phys_off
Overlay(old, new, S) == [w \in Words |-> IF w \in S THEN new[w] ELSE old[w]]

(* Flash::new, without the files.                                          *)
PowerOnState(swap) ==
  /\ effective' = swap /\ committed' = swap /\ staged' = swap
  /\ bank2_locked' = TRUE /\ opt_locked' = TRUE /\ key2_state' = 0 /\ optkey_state' = 0
  /\ pg' = FALSE /\ eop' = FALSE /\ erase_irq' = FALSE

(* No process: its variables are at arbitrary, here fixed, values.         *)
ProcessGone ==
  /\ running' = "off" /\ attached' = TRUE /\ nvFailed' = FALSE
  /\ fresh' = FALSE
  /\ mem' = [b \in Banks |-> Erased] /\ retained' = "none"
  /\ PowerOnState(0)

Init ==
  /\ file = [b \in Banks |-> Erased] /\ nv = NvDefault
  /\ running = "off" /\ attached = TRUE /\ nvFailed = FALSE
  /\ mem = [b \in Banks |-> Erased] /\ retained = "none"
  /\ effective = 0 /\ committed = 0 /\ staged = 0
  /\ bank2_locked = TRUE /\ opt_locked = TRUE /\ key2_state = 0 /\ optkey_state = 0
  /\ pg = FALSE /\ eop = FALSE /\ erase_irq = FALSE
  /\ fresh = FALSE /\ offPath = FALSE

Idle == running = "off"
Runs == running # "off"

-----------------------------------------------------------------------------
(* Commands on an instance that is not running.                            *)

(* cmd_flash: rewrite the image file, then the .nv file with the archive   *)
(* stowed, none for a bare image, or the old one if stowing failed.        *)
CmdFlash(slot, image, archive) ==
  /\ Idle
  /\ file' = [file EXCEPT ![slot] = image]
  /\ nv' = [nv EXCEPT !.archive = archive]
  /\ UNCHANGED <<mem, swaps, locks, ctrl, volat, fresh, offPath>>

CmdErase(slot) ==
  /\ Idle
  /\ file' = [file EXCEPT ![slot] = Erased]
  /\ UNCHANGED <<nv, mem, swaps, locks, ctrl, volat, fresh, offPath>>

(* A kill inside save_nvm, which truncates and writes: the file is cut in  *)
(* bank n, and load_nvm pads it with erased bytes.                         *)
KillInSaveNvm(slot, image, n, S) ==
  /\ Idle
  /\ LET data == [file EXCEPT ![slot] = image]
     IN file' = [b \in Banks |-> IF b < n THEN data[b]
                                 ELSE IF b = n THEN Overlay(Erased, data[b], S) ELSE Erased]
  /\ UNCHANGED <<nv, mem, swaps, locks, ctrl, volat, fresh, offPath>>

(* A kill inside cmd_flash's save_nv: the .nv file is empty.               *)
KillInFlashNv(slot, image) ==
  /\ Idle
  /\ file' = [file EXCEPT ![slot] = image]
  /\ nv' = NvDefault
  /\ UNCHANGED <<mem, swaps, locks, ctrl, volat, fresh, offPath>>

-----------------------------------------------------------------------------
(* Starting the emulator: cmd_run, serve_forever and setup.                *)

(* mirror_unprogrammed_slot.                                               *)
Mirrored(f) ==
  CASE Programmed(f[0]) /\ ~Programmed(f[1]) -> [b \in Banks |-> f[0]]
    [] Programmed(f[1]) /\ ~Programmed(f[0]) -> [b \in Banks |-> f[1]]
    [] OTHER                                 -> f

(* The image the process loads: only the serve mode mirrors.               *)
Loaded(mode) == IF mode = "serve" THEN Mirrored(file) ELSE file

(* The boot slot must be programmed.  Flash::new seeds the file with the   *)
(* loaded image, or carries on without a handle.                           *)
Start(mode, swap, seeded) ==
  /\ Idle /\ (swap # nv.swap => Overrides)
  /\ Programmed(file[swap])
  /\ running' = mode
  /\ mem' = Loaded(mode)
  /\ file' = IF seeded THEN Loaded(mode) ELSE file
  /\ attached' = seeded
  /\ PowerOnState(swap)
  /\ retained' = nv.archive
  /\ nvFailed' = FALSE /\ fresh' = TRUE
  /\ offPath' = (swap # nv.swap \/ ~Complete(file[swap]))
  /\ UNCHANGED nv

(* A kill inside that seeding, which overwrites in place.                  *)
KillInSeed(swap, S) ==
  /\ Idle /\ (swap # nv.swap => Overrides)
  /\ Programmed(file[swap])
  /\ file' = [b \in Banks |-> Overlay(file[b], Mirrored(file)[b], S)]
  /\ UNCHANGED <<nv, mem, swaps, locks, ctrl, volat, fresh, offPath>>

-----------------------------------------------------------------------------
(* The FLASH controller's registers.                                       *)

KeyR2(key) ==
  /\ Runs
  /\ key2_state' = IF key2_state = 0 /\ key = "KEY1" THEN 1 ELSE 0
  /\ bank2_locked' = (bank2_locked /\ ~(key2_state = 1 /\ key = "KEY2"))
  /\ UNCHANGED <<nvFile, mem, swaps, opt_locked, optkey_state, ctrl, volat, offPath>>

OptKeyR(key) ==
  /\ Runs
  /\ optkey_state' = IF optkey_state = 0 /\ key = "KEY1" THEN 1 ELSE 0
  /\ opt_locked' = (opt_locked /\ ~(optkey_state = 1 /\ key = "KEY2"))
  /\ UNCHANGED <<nvFile, mem, swaps, bank2_locked, key2_state, ctrl, volat, offPath>>

(* write_through of a window of bank b; a failure drops the handle.        *)
WriteThrough(m, b, ok) ==
  /\ file' = IF attached /\ ok THEN [file EXCEPT ![b] = m[b]] ELSE file
  /\ attached' = (attached /\ ok)

\* Mutant of EraseTarget: physical bank 2, whichever is mapped there.
EraseTarget_fixed == 1

(* erase_bank2 reaches the bank mapped at the upper half.                  *)
EraseTarget == Phys(1)

(* CR2: LOCK first, then a bank erase (BER and START) if still unlocked.   *)
Cr2(lock, program, erase, eopie, ok) ==
  /\ Runs
  /\ pg' = program
  /\ bank2_locked' = (bank2_locked \/ lock)
  /\ IF erase /\ ~bank2_locked'
     THEN /\ mem' = [mem EXCEPT ![EraseTarget] = Erased]
          /\ WriteThrough(mem', EraseTarget, ok)
          /\ eop' = TRUE /\ erase_irq' = (erase_irq \/ eopie)
          /\ offPath' = (offPath \/ committed # effective)
     ELSE UNCHANGED <<mem, file, attached, eop, erase_irq, offPath>>
  /\ UNCHANGED <<nv, swaps, opt_locked, key2_state, optkey_state, retained, running,
                 nvFailed>>

(* A kill inside the write-through of a bank erase.                        *)
KillInErase(S) ==
  /\ Runs /\ ~bank2_locked /\ attached
  /\ file' = [file EXCEPT ![EraseTarget] = Overlay(@, Erased, S)]
  /\ ProcessGone
  /\ offPath' = (offPath \/ committed # effective)
  /\ UNCHANGED nv

(* SR2 stores, CCR2 clears.                                                *)
Sr2(v) ==
  /\ Runs /\ eop' = v
  /\ UNCHANGED <<nvFile, mem, swaps, locks, pg, erase_irq, retained, volat, offPath>>

Ccr2(v) ==
  /\ Runs /\ eop' = (eop /\ ~v)
  /\ UNCHANGED <<nvFile, mem, swaps, locks, pg, erase_irq, retained, volat, offPath>>

(* collect_irqs takes the completion interrupt.                            *)
TakeEraseIrq ==
  /\ Runs /\ erase_irq /\ erase_irq' = FALSE
  /\ UNCHANGED <<nvFile, mem, swaps, locks, pg, eop, retained, volat, offPath>>

(* write_mem: a store into half h of the aperture, dropped unless bank 2   *)
(* is unlocked and PG is set.                                              *)
WriteMem(h, w, v, ok) ==
  /\ Runs /\ ~bank2_locked /\ pg
  /\ LET b == Phys(h)
     IN /\ mem' = [mem EXCEPT ![b][w] = @ \cap v]
        /\ WriteThrough(mem', b, ok)
        /\ offPath' = (offPath \/ h = 0 \/ mem[b][w] # Bits \/ committed # effective)
  /\ UNCHANGED <<nv, swaps, locks, ctrl, running, nvFailed>>

OptSrPrg(v) ==
  /\ Runs /\ staged' = v
  /\ UNCHANGED <<nvFile, mem, effective, committed, locks, ctrl, volat, offPath>>

(* The .nv contents an OPTSTART leaves: save_nv may fail before or after   *)
(* it has truncated the file.                                              *)
SaveNv(outcome) ==
  CASE outcome = "saved"     -> [swap |-> staged, archive |-> retained]
    [] outcome = "unopened"  -> nv
    [] outcome = "truncated" -> NvDefault

\* Mutant of OptCr: OPTSTART remaps the aperture at once.
OptCr_remaps(lock, start, outcome) ==
  /\ Runs
  /\ opt_locked' = (opt_locked \/ lock)
  /\ IF start /\ ~opt_locked'
     THEN /\ committed' = staged /\ effective' = staged
          /\ nv' = SaveNv(outcome)
          /\ nvFailed' = (outcome # "saved")
          /\ offPath' = (offPath \/ ~Complete(mem[0]) \/ ~Complete(mem[1]))
     ELSE UNCHANGED <<committed, effective, nv, nvFailed, offPath>>
  /\ UNCHANGED <<file, mem, staged, bank2_locked, key2_state, optkey_state, ctrl, running,
                 attached>>

(* OPTCR: OPTLOCK first, then OPTSTART commits the staged option byte.     *)
OptCr(lock, start, outcome) ==
  /\ Runs
  /\ opt_locked' = (opt_locked \/ lock)
  /\ IF start /\ ~opt_locked'
     THEN /\ committed' = staged
          /\ nv' = SaveNv(outcome)
          /\ nvFailed' = (outcome # "saved")
          /\ offPath' = (offPath \/ ~Complete(mem[0]) \/ ~Complete(mem[1]))
     ELSE UNCHANGED <<committed, nv, nvFailed, offPath>>
  /\ UNCHANGED <<file, mem, effective, staged, bank2_locked, key2_state, optkey_state, ctrl,
                 running, attached>>

(* A kill inside OPTSTART's save_nv: the .nv file is empty.                *)
KillInCommit ==
  /\ Runs /\ ~opt_locked
  /\ nv' = NvDefault
  /\ ProcessGone
  /\ offPath' = (offPath \/ ~Complete(mem[0]) \/ ~Complete(mem[1]))
  /\ UNCHANGED file

-----------------------------------------------------------------------------
(* Resets and the end of the process.                                      *)

(* AIRCR.SYSRESETREQ, in boot or in serve: latch the committed swap.       *)
SelfReset ==
  /\ Runs
  /\ effective' = committed /\ fresh' = TRUE
  /\ UNCHANGED <<nvFile, mem, committed, staged, locks, ctrl, volat, offPath>>

(* The reset pin, or AIRCR through a debug port (do_reset): the core and   *)
(* the NVIC are reset, the flash is not told.                              *)
DebugReset ==
  /\ running = "serve"
  /\ fresh' = TRUE
  /\ UNCHANGED <<nvFile, mem, swaps, locks, ctrl, volat, offPath>>

Kill ==
  /\ Runs
  /\ ProcessGone
  /\ UNCHANGED <<nvFile, offPath>>

-----------------------------------------------------------------------------
Keys     == {"KEY1", "KEY2", "other"}
Taken    == IF Faults THEN BOOLEAN ELSE {TRUE}
Outcomes == IF Faults THEN {"saved", "unopened", "truncated"} ELSE {"saved"}

Command ==
  \/ \E s \in Banks, c \in Content :
       \/ \E a \in Archives : CmdFlash(s, c, a)
       \/ \E n \in Banks, S \in SUBSET Words : KillInSaveNvm(s, c, n, S)
       \/ KillInFlashNv(s, c)
  \/ \E s \in Banks : CmdErase(s)
  \/ \E m \in {"batch", "serve"}, s \in Banks, ok \in Taken : Start(m, s, ok)
  \/ \E s \in Banks, S \in SUBSET Words : KillInSeed(s, S)

Access ==
  \/ \E k \in Keys : KeyR2(k) \/ OptKeyR(k)
  \/ \E l, p, e, i \in BOOLEAN, ok \in Taken : Cr2(l, p, e, i, ok)
  \/ \E v \in BOOLEAN : Sr2(v) \/ Ccr2(v)
  \/ \E h \in Banks, w \in Words, v \in SUBSET Bits, ok \in Taken : WriteMem(h, w, v, ok)
  \/ \E v \in Banks : OptSrPrg(v)
  \/ \E l, s \in BOOLEAN, o \in Outcomes : OptCr(l, s, o)
  \/ TakeEraseIrq

(* The core executes.                                                      *)
Firmware == Access /\ fresh' = FALSE

End ==
  \/ SelfReset \/ DebugReset
  \/ Kill \/ KillInCommit
  \/ \E S \in SUBSET Words : KillInErase(S)

Next == Command \/ Firmware \/ End

Spec == Init /\ [][Next]_vars
-----------------------------------------------------------------------------
(* Properties.                                                             *)

(* Every variable keeps its type.                                          *)
TypeOK ==
  /\ file \in [Banks -> Content] /\ mem \in [Banks -> Content]
  /\ nv \in [swap : Banks, archive : Archives]
  /\ running \in {"off", "batch", "serve"}
  /\ attached \in BOOLEAN /\ nvFailed \in BOOLEAN /\ offPath \in BOOLEAN
  /\ effective \in Banks /\ committed \in Banks /\ staged \in Banks
  /\ bank2_locked \in BOOLEAN /\ opt_locked \in BOOLEAN
  /\ key2_state \in {0, 1} /\ optkey_state \in {0, 1}
  /\ pg \in BOOLEAN /\ eop \in BOOLEAN /\ erase_irq \in BOOLEAN
  /\ retained \in Archives

(* A firmware update can be killed anywhere, inside an erase or a commit   *)
(* too: the recorded selection still names a whole image, as long as the   *)
(* firmware erases before it programs, commits once both banks are whole   *)
(* and is reset before the next update, the boot was not overridden and    *)
(* the host took every write.                                              *)
UpdateSurvivesKill ==
  [][(Runs /\ running' = "off" /\ ~offPath' /\ attached /\ ~nvFailed)
     => Complete(file'[nv'.swap])]_vars

(* The emulated flash is durable two-bank flash.                           *)
Durable == INSTANCE DurableFlash WITH
  bank     <- IF Runs THEN mem ELSE file,
  boot     <- nv.swap,
  archive  <- nv.archive,
  active   <- IF Runs THEN effective ELSE 2,
  volatile <- Runs /\ (~attached \/ nvFailed)

ImplementsDurableFlash == Durable!Spec

-----------------------------------------------------------------------------
(* What a comment of the code says, and the code does not do.              *)

(* flash.rs, reset_latch: "Called at every reset edge; this is where a     *)
(* committed bank swap actually takes effect".  A reset through a debug    *)
(* port or the reset pin does not call it.                                 *)
LatchedAtEveryReset == fresh => effective = committed
=============================================================================
