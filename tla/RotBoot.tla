------------------------------- MODULE RotBoot -------------------------------
(***************************************************************************)
(* The boot path of the RoT core: bootleby asks the boot ROM to            *)
(* authenticate each slot (src/src/romapi.rs), measures the slot it picks  *)
(* with HASHCRYPT (src/src/hashcrypt.rs) and draws its key from the PUF    *)
(* (src/src/puf.rs), while interrupts preempt it, also inside a ROM call   *)
(* that stays parked at its trap address.  The firmware is external.       *)
(*                                                                         *)
(* compress256 is taken to tell every sequence of blocks apart: a digest   *)
(* is the sequence of blocks it covers.                                    *)
(***************************************************************************)
EXTENDS Integers, Sequences, SequencesExt

CONSTANTS
  Settle_Steps,  \* SETTLE_STEPS
  BlockWords,    \* words of a hash block (16)
  ImageBlocks,   \* bound: blocks of an image
  KeyWords,      \* words of a key, and of the keycode that yields it
  MaxIrqs        \* bound: interrupts taken during the boot

ASSUME RotBootAssumption ==
  {Settle_Steps, BlockWords, ImageBlocks, KeyWords, MaxIrqs} \subseteq Nat \ {0}

Slots == {"a", "b"}
Cfpas == {"ping", "pong"}

VARIABLES
  pfr,      \* what is in flash: good signatures, and per CFPA page its version and revocations
  rcpu,     \* pc, lr, r0, r1 of the core and the frames interrupts stacked
  rom_call, \* the parked ROM call
  outParam, \* the is_verified words, one per slot
  hash,     \* HASHCRYPT
  puf,      \* PUF
  boot,     \* bootleby: its step and what it has learnt
  irqs      \* interrupts taken

rbVars == <<pfr, rcpu, rom_call, outParam, hash, puf, boot, irqs>>

RomIdle == [k |-> "Idle", left |-> 0, ptr |-> "a", ok |-> FALSE]
Word(s, i) == <<s, i>>
Image(s)   == [i \in 1..BlockWords * ImageBlocks |-> Word(s, i)]
BlocksOf(s) == [b \in 1..ImageBlocks |-> SubSeq(Image(s), (b - 1) * BlockWords + 1, b * BlockWords)]
Seed       == [i \in 1..KeyWords |-> <<"seed", i>>]

-----------------------------------------------------------------------------
(* The boot ROM                                                            *)

(* active_cfpa: the higher version, ping winning ties.                     *)
ActiveCfpa == IF pfr.version["ping"] >= pfr.version["pong"] THEN "ping" ELSE "pong"

(* verify_slot, with the host verifier: a good signature by a key the      *)
(* active CFPA does not revoke.                                            *)
VerifySlot(s) == s \in pfr.signed /\ s \notin pfr.revoked[ActiveCfpa]

(* rom_dispatch without the guard on the program counter.                  *)
RomDispatch_AnyTrap ==
  /\ rcpu.pc \in {"AUTH_TRAP", "HASHCRYPT_TRAP"}
  /\ CASE rom_call.k = "Idle" ->
            /\ rom_call' = [k |-> "Settling", left |-> Settle_Steps, ptr |-> rcpu.r1,
                            ok |-> VerifySlot(rcpu.r0)]
            /\ UNCHANGED <<rcpu, outParam>>
       [] rom_call.k = "Settling" /\ rom_call.left > 0 ->
            /\ rom_call' = [rom_call EXCEPT !.left = @ - 1]
            /\ UNCHANGED <<rcpu, outParam>>
       [] OTHER ->
            /\ outParam' = [outParam EXCEPT ![rom_call.ptr] = rom_call.ok]
            /\ rcpu' = [rcpu EXCEPT !.pc = rcpu.lr, !.r0 = IF rom_call.ok THEN "success" ELSE "fail"]
            /\ rom_call' = RomIdle
  /\ UNCHANGED <<pfr, hash, puf, boot, irqs>>

RomDispatch ==
  /\ \/ /\ rcpu.pc = "HASHCRYPT_TRAP"
        /\ rcpu' = [rcpu EXCEPT !.pc = rcpu.lr]
        /\ UNCHANGED <<rom_call, outParam>>
     \/ /\ rcpu.pc = "AUTH_TRAP" /\ rom_call.k = "Idle"
        /\ rom_call' = [k |-> "Settling", left |-> Settle_Steps, ptr |-> rcpu.r1,
                        ok |-> VerifySlot(rcpu.r0)]
        /\ UNCHANGED <<rcpu, outParam>>
     \/ /\ rcpu.pc = "AUTH_TRAP" /\ rom_call.k = "Settling" /\ rom_call.left > 0
        /\ rom_call' = [rom_call EXCEPT !.left = @ - 1]
        /\ UNCHANGED <<rcpu, outParam>>
     \/ /\ rcpu.pc = "AUTH_TRAP" /\ rom_call.k = "Settling" /\ rom_call.left = 0
        /\ outParam' = [outParam EXCEPT ![rom_call.ptr] = rom_call.ok]
        /\ rcpu' = [rcpu EXCEPT !.pc = rcpu.lr, !.r0 = IF rom_call.ok THEN "success" ELSE "fail"]
        /\ rom_call' = RomIdle
  /\ UNCHANGED <<pfr, hash, puf, boot, irqs>>

-----------------------------------------------------------------------------
(* Interrupts: SysTick, and the HASHCRYPT handler that calls into the ROM  *)

Frame == [pc |-> rcpu.pc, lr |-> rcpu.lr, r0 |-> rcpu.r0, r1 |-> rcpu.r1]

Interrupt(handler) ==
  /\ irqs < MaxIrqs /\ handler \notin rcpu.active
  /\ rcpu' = [rcpu EXCEPT !.pc = handler, !.lr = "exc_return",
                          !.stack = Append(@, Frame), !.active = @ \cup {handler}]
  /\ irqs' = irqs + 1
  /\ UNCHANGED <<pfr, rom_call, outParam, hash, puf, boot>>

HashcryptHandler ==
  /\ rcpu.pc = "hashcrypt"
  /\ rcpu' = [rcpu EXCEPT !.pc = "HASHCRYPT_TRAP", !.lr = "hashcrypt_end"]
  /\ UNCHANGED <<pfr, rom_call, outParam, hash, puf, boot, irqs>>

ExceptionEnd ==
  /\ rcpu.pc \in {"systick", "hashcrypt_end"}
  /\ LET f == Last(rcpu.stack)
         h == IF rcpu.pc = "systick" THEN "systick" ELSE "hashcrypt"
     IN  rcpu' = [pc |-> f.pc, lr |-> f.lr, r0 |-> f.r0, r1 |-> f.r1,
                  stack |-> Front(rcpu.stack), active |-> rcpu.active \ {h}]
  /\ UNCHANGED <<pfr, rom_call, outParam, hash, puf, boot, irqs>>

-----------------------------------------------------------------------------
(* HASHCRYPT: CTRL starts a hash, INDATA feeds a word                      *)

HashStart_KeepsState(h) == [h EXCEPT !.fill = <<>>, !.digestReady = FALSE]
HashStart(h) == [h EXCEPT !.state = <<>>, !.fill = <<>>, !.digestReady = FALSE]

HashFeed(h, w) ==
  LET block == Append(h.fill, w)
  IN  IF Len(block) = BlockWords
      THEN [state |-> Append(h.state, block), fill |-> <<>>,
            digest |-> Append(h.state, block), digestReady |-> TRUE]
      ELSE [h EXCEPT !.fill = block, !.digestReady = FALSE]

-----------------------------------------------------------------------------
(* PUF: GENERATEKEY streams a keycode out, GETKEY takes it back and        *)
(* streams the key                                                         *)

StartGenerate(p) ==
  [p EXCEPT !.codeout = [i \in 1..KeyWords |-> <<"code", i>>], !.busy = TRUE, !.success = FALSE]
PopCodeout(p) ==
  [p EXCEPT !.codeout = Tail(@), !.busy = Len(p.codeout) > 1, !.success = Len(p.codeout) = 1]
StartGetkey(p) ==
  [p EXCEPT !.codein_left = KeyWords, !.keyout = <<>>, !.busy = TRUE, !.success = FALSE]
ConsumeCodein(p) ==
  IF p.codein_left = 0 THEN p
  ELSE [p EXCEPT !.codein_left = @ - 1, !.keyout = IF p.codein_left = 1 THEN Seed ELSE @]
PopKeyout(p) ==
  LET done == Len(p.keyout) = 1 /\ p.codein_left = 0
  IN  [p EXCEPT !.keyout = Tail(@), !.busy = IF done THEN FALSE ELSE @,
                !.success = IF done THEN TRUE ELSE @]

-----------------------------------------------------------------------------
(* bootleby                                                                *)

InCode(step) == rcpu.pc = "code" /\ boot.step = step
Step(b, h, p) ==
  /\ boot' = b /\ hash' = h /\ puf' = p
  /\ UNCHANGED <<pfr, rcpu, rom_call, outParam, irqs>>

CallAuth(s) ==
  /\ InCode("auth") /\ s \notin DOMAIN boot.verdict
  /\ rcpu' = [rcpu EXCEPT !.pc = "AUTH_TRAP", !.lr = "code", !.r0 = s, !.r1 = s]
  /\ boot' = [boot EXCEPT !.step = "ret", !.slot = s]
  /\ UNCHANGED <<pfr, rom_call, outParam, hash, puf, irqs>>

AuthReturned ==
  /\ InCode("ret")
  /\ LET ok == rcpu.r0 = "success" /\ outParam[boot.slot]
         v  == [s \in DOMAIN boot.verdict \cup {boot.slot} |->
                  IF s = boot.slot THEN ok ELSE boot.verdict[s]]
     IN  Step([boot EXCEPT !.verdict = v, !.step = IF DOMAIN v = Slots THEN "select" ELSE "auth"],
              hash, puf)

(* The preferred slot if it is valid, the other one if that is.            *)
Select ==
  /\ InCode("select")
  /\ LET valid == {s \in Slots : boot.verdict[s]}
     IN  \E s \in IF pfr.pref \in valid THEN {pfr.pref} ELSE valid \cup {"none"} :
           /\ s = "none" => valid = {}
           /\ Step([boot EXCEPT !.slot = s, !.fed = 0,
                                !.step = IF s = "none" THEN "panic" ELSE "measure"],
                   IF s = "none" THEN hash ELSE HashStart(hash), puf)

Feed ==
  /\ InCode("measure") /\ boot.fed < BlockWords * ImageBlocks
  /\ Step([boot EXCEPT !.fed = @ + 1], HashFeed(hash, Word(boot.slot, boot.fed + 1)), puf)

(* CTRL may start a hash over, in the middle of a block or after one.      *)
Remeasure ==
  /\ InCode("measure") /\ boot.fed > 0
  /\ Step([boot EXCEPT !.fed = 0], HashStart(hash), puf)

ReadDigest ==
  /\ InCode("measure") /\ boot.fed = BlockWords * ImageBlocks /\ hash.digestReady
  /\ Step([boot EXCEPT !.step = "generate", !.digest = hash.digest], hash, StartGenerate(puf))

KeycodeOut ==
  /\ InCode("generate")
  /\ IF puf.busy THEN puf.codeout # <<>> /\ Step(boot, hash, PopCodeout(puf))
     ELSE puf.success /\ Step([boot EXCEPT !.step = "getkey"], hash, StartGetkey(puf))

KeycodeIn ==
  /\ InCode("getkey") /\ puf.codein_left > 0
  /\ Step(boot, hash, ConsumeCodein(puf))

KeyOut ==
  /\ InCode("getkey") /\ puf.keyout # <<>>
  /\ Step([boot EXCEPT !.key = Append(@, Head(puf.keyout))], hash, PopKeyout(puf))

BlockIndex ==
  /\ InCode("getkey") /\ ~puf.busy /\ puf.success
  /\ Step([boot EXCEPT !.step = "booted"], hash, [puf EXCEPT !.blocked = TRUE])

Finished == rcpu.pc = "code" /\ boot.step \in {"booted", "panic"} /\ UNCHANGED rbVars

RbInit ==
  /\ pfr \in [signed : SUBSET Slots, version : [Cfpas -> 0..1], revoked : [Cfpas -> SUBSET Slots],
              pref : Slots]
  /\ rcpu = [pc |-> "code", lr |-> "code", r0 |-> "a", r1 |-> "a", stack |-> <<>>, active |-> {}]
  /\ rom_call = RomIdle /\ outParam = [s \in Slots |-> FALSE]
  /\ hash = [state |-> <<>>, fill |-> <<>>, digest |-> <<>>, digestReady |-> FALSE]
  /\ puf = [codeout |-> <<>>, codein_left |-> 0, keyout |-> <<>>, busy |-> FALSE,
            success |-> FALSE, blocked |-> FALSE]
  /\ boot = [step |-> "auth", slot |-> "a", verdict |-> <<>>, fed |-> 0, digest |-> <<>>, key |-> <<>>]
  /\ irqs = 0

RbNext ==
  \/ RomDispatch
  \/ \E h \in {"systick", "hashcrypt"} : Interrupt(h)
  \/ HashcryptHandler \/ ExceptionEnd
  \/ \E s \in Slots : CallAuth(s)
  \/ AuthReturned \/ Select \/ Feed \/ Remeasure \/ ReadDigest
  \/ KeycodeOut \/ KeycodeIn \/ KeyOut \/ BlockIndex \/ Finished

RbSpec == RbInit /\ [][RbNext]_rbVars

-----------------------------------------------------------------------------
(* The image that is booted is signed by a key that the newer CFPA page    *)
(* does not revoke, and a valid slot is not passed over, whatever          *)
(* interrupts were taken while the ROM verified either slot.               *)
BootedImageVerified ==
  LET newer == {c \in Cfpas : \A d \in Cfpas : pfr.version[c] >= pfr.version[d]}
      cfpa  == IF "ping" \in newer THEN "ping" ELSE "pong"
      valid == pfr.signed \ pfr.revoked[cfpa]
  IN  /\ boot.step \in {"measure", "generate", "getkey", "booted"} =>
           boot.slot \in valid /\ (pfr.pref \in valid => boot.slot = pfr.pref)
      /\ boot.step = "panic" => valid = {}

(* The identity of a booted image: the digest covers exactly the image, the *)
(* key is the device's whole key, and its index is blocked by then.         *)
IdentityIsBound ==
  /\ boot.step \in {"generate", "getkey", "booted"} => boot.digest = BlocksOf(boot.slot)
  /\ boot.step = "booted" => boot.key = Seed /\ puf.blocked
=============================================================================
