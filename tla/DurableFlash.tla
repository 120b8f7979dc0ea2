---------------------------- MODULE DurableFlash -----------------------------
(***************************************************************************)
(* What the SP's flash model (src/src/flash.rs) promises, seen from outside*)
(* the emulator process: two banks that keep what was programmed into them *)
(* "the moment it completes", a recorded boot selection, and power that can*)
(* go at any time.  Nothing here is volatile except which bank executes,   *)
(* unless the host refused a write.                                        *)
(***************************************************************************)
EXTENDS Naturals

CONSTANTS
  Words,  \* the words of a bank
  Bits    \* the bits of a word; a word's value is the set of its one bits

VARIABLES
  bank,     \* contents of physical bank 0 (slot A) and 1 (slot B)
  boot,     \* recorded SWAP_BANK_OPT: the physical bank that boots
  archive,  \* recorded build archive
  active,   \* the executing physical bank, or Off
  volatile  \* the host refused a write since power on

vars == <<bank, boot, archive, active, volatile>>

Off      == 2
Banks    == {0, 1}
Content  == [Words -> SUBSET Bits]
Erased   == [w \in Words |-> Bits]
Archives == {"none", "sp"}

(* The words in S of a bank take their value from another.                 *)
Overlay(old, new, S) == [w \in Words |-> IF w \in S THEN new[w] ELSE old[w]]

(* An image file that was being rewritten, cut inside bank n with only the *)
(* words in S of it there; what is missing reads as erased.                *)
Cut(data, n, S) ==
  [k \in Banks |-> IF k < n THEN data[k]
                   ELSE IF k = n THEN Overlay(Erased, data[k], S) ELSE Erased]

Init ==
  /\ bank = [b \in Banks |-> Erased] /\ boot = 0 /\ archive = "none"
  /\ active = Off /\ volatile = FALSE

(* The flash and erase commands, on an instance that is not running.       *)
Provision ==
  /\ active = Off
  /\ \E b \in Banks, c \in Content : bank' = [bank EXCEPT ![b] = c]
  /\ archive' \in Archives
  /\ UNCHANGED <<boot, active, volatile>>

(* One of those commands is killed: the image file is cut, or the record   *)
(* of boot selection and archive is back at its default.                   *)
TornProvision ==
  /\ active = Off
  /\ \/ /\ \E b \in Banks, c \in Content, n \in Banks, S \in SUBSET Words :
             bank' = Cut([bank EXCEPT ![b] = c], n, S)
        /\ UNCHANGED <<boot, archive>>
     \/ /\ \E b \in Banks, c \in Content : bank' = [bank EXCEPT ![b] = c]
        /\ boot' = 0 /\ archive' = "none"
  /\ UNCHANGED <<active, volatile>>

(* Power on boots a bank as it is; the other may become a copy of it, and  *)
(* a kill may leave that copy half made.                                   *)
PowerOn ==
  /\ active = Off
  /\ \E a \in Banks, S \in SUBSET Words, up \in BOOLEAN :
       /\ bank' = [bank EXCEPT ![1 - a] = Overlay(bank[1 - a], bank[a], S)]
       /\ active' = IF up THEN a ELSE Off
  /\ UNCHANGED <<boot, archive>>
  /\ volatile' \in IF active' = Off THEN {FALSE} ELSE BOOLEAN

(* Only the bank that does not execute can be erased.                      *)
EraseInactive ==
  /\ active # Off
  /\ bank' = [bank EXCEPT ![1 - active] = Erased]
  /\ volatile' \in {volatile, TRUE}
  /\ UNCHANGED <<boot, archive, active>>

(* Programming clears bits, never sets them.                               *)
ProgramWord ==
  /\ active # Off
  /\ \E b \in Banks, w \in Words, v \in SUBSET Bits :
       bank' = [bank EXCEPT ![b][w] = @ \cap v]
  /\ volatile' \in {volatile, TRUE}
  /\ UNCHANGED <<boot, archive, active>>

Commit ==
  /\ active # Off
  /\ \/ boot' \in Banks /\ UNCHANGED <<archive, volatile>>
     \/ volatile /\ boot' \in Banks /\ archive' \in Archives /\ volatile' \in BOOLEAN
     \/ /\ volatile' = TRUE
        /\ \/ UNCHANGED <<boot, archive>>
           \/ boot' = 0 /\ archive' = "none"
  /\ UNCHANGED <<bank, active>>

(* A reset stays in the executing bank or enters the recorded one.         *)
Reset ==
  /\ active # Off
  /\ active' \in IF volatile THEN Banks ELSE {active, boot}
  /\ UNCHANGED <<bank, boot, archive, volatile>>

(* Power goes: nothing that was completed is lost.  An erase or a commit   *)
(* under way at that moment is left half done.                             *)
PowerOff ==
  /\ active # Off
  /\ active' = Off /\ volatile' = FALSE
  /\ \/ UNCHANGED <<bank, boot, archive>>
     \/ /\ \E S \in SUBSET Words :
             bank' = [bank EXCEPT ![1 - active] = Overlay(@, Erased, S)]
        /\ UNCHANGED <<boot, archive>>
     \/ UNCHANGED bank /\ boot' = 0 /\ archive' = "none"
     \/ /\ volatile /\ bank' \in [Banks -> Content]
        /\ UNCHANGED <<boot, archive>> \/ (boot' = 0 /\ archive' = "none")

Next ==
  \/ Provision \/ TornProvision \/ PowerOn
  \/ EraseInactive \/ ProgramWord \/ Commit \/ Reset \/ PowerOff

Spec == Init /\ [][Next]_vars
=============================================================================
