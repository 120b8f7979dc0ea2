---------------------------- MODULE TickCoupling -----------------------------
(***************************************************************************)
(* How the two cores' SysTick clocks are tied together: the per-core tick  *)
(* and WFI logic (src/src/cpu.rs) and the coupling the SP serve loop and   *)
(* the RoT thread make through shared atomics (src/src/gdb.rs).            *)
(*                                                                         *)
(* While the RoT works on an accepted request the SP's clock is frozen and *)
(* advances by the RoT's ticks; while the SP runs endoscope under debug    *)
(* the RoT's clock is frozen and advances by the SP's instructions.  Both  *)
(* can be frozen at once.                                                  *)
(*                                                                         *)
(* Every access to shared state is a step.  Counters of which the code     *)
(* only uses min(difference, CREDIT_CAP) are kept as differences, cut off  *)
(* at the cap, so they need no other bound.                                *)
(***************************************************************************)
EXTENDS Integers

CONSTANTS
  Reload,     \* SYST_RVR: instructions per tick
  Divisor,    \* SP instructions per credited millisecond
  CreditCap,  \* CREDIT_CAP
  Burst,      \* ENDOSCOPE_BURST and quantum: instructions of one SP burst
  Debugs      \* bound: whether the SP is debugged

ASSUME ReloadAssumption == Reload \in Nat /\ Reload >= 2
ASSUME PaceAssumption   == Divisor \in Nat \ {0} /\ CreditCap \in Nat /\ Burst \in Nat \ {0}
ASSUME DebugAssumption  == Debugs \in BOOLEAN

Cores == {"sp", "rot"}

VARIABLES
  \* struct Cpu, of both cores
  systick, sp_tick_credit, tick_frozen,
  enabled,            \* syst_csr.ENABLE
  \* the SP's debug state
  halted, debug_en,
  \* shared state
  request_in_flight, endo_active, endo_credit_ms,
  unseen,             \* shared.tick_events - prev_rot_ticks
  \* serve loop
  loop,               \* "burst", "reset" (applied after it), "endo", "publish", "drain"
  req_in_flight,      \* its sample of request_in_flight
  now_endo,
  ran,                \* cpu.cycles - prev_sp_cycles
  endoscope_acc,
  \* RoT loop
  rotLoop,            \* "top", "swap", "run"
  fresh,              \* RoT ticks not published yet
  \* history
  owed,               \* progress of the other core this clock has not caught up with:
                      \* RoT ticks for the SP, SP instructions for the RoT
  due                 \* the freeze began with a tick due that has not fired

clocks == <<systick, sp_tick_credit, tick_frozen, enabled>>
debug  == <<halted, debug_en>>
shared == <<request_in_flight, endo_active, endo_credit_ms, unseen>>
serve  == <<loop, req_in_flight, now_endo, ran, endoscope_acc>>
rot    == <<rotLoop, fresh>>
hist   == <<owed, due>>
vars   == <<clocks, debug, shared, serve, rot, hist>>

AtMost(n, cap) == IF n < cap THEN n ELSE cap

(* Both cores are past their preboot: running, with SysTick on.            *)
Init ==
  /\ systick = [c \in Cores |-> Reload]
  /\ sp_tick_credit = [c \in Cores |-> 0]
  /\ tick_frozen = [c \in Cores |-> FALSE]
  /\ enabled = [c \in Cores |-> TRUE]
  /\ halted = FALSE /\ debug_en = FALSE
  /\ request_in_flight = FALSE /\ endo_active = FALSE /\ endo_credit_ms = 0 /\ unseen = 0
  /\ loop = "burst" /\ req_in_flight = FALSE /\ now_endo = FALSE /\ ran = 0 /\ endoscope_acc = 0
  /\ rotLoop = "top" /\ fresh = 0
  /\ owed = [c \in Cores |-> 0] /\ due = [c \in Cores |-> FALSE]

-----------------------------------------------------------------------------
(* One instruction of a core: WFI with nothing pending, or anything else,  *)
(* and then maybe_tick.                                                    *)

(* A WFI that finds nothing to do looks at the clock.                      *)
Idles(c, wfi) == wfi /\ systick[c] > 1

\* Mutant of Drains: only a core whose clock runs drains its credit.
Drains_unfrozen(c, wfi) == Idles(c, wfi) /\ sp_tick_credit[c] > 0 /\ ~tick_frozen[c]

Drains(c, wfi) == Idles(c, wfi) /\ sp_tick_credit[c] > 0

(* The countdown after the instruction: credit or the idle throttle        *)
(* collapses it, a frozen clock is left alone.                             *)
Countdown(c, wfi) ==
  IF Idles(c, wfi) /\ (Drains(c, wfi) \/ ~tick_frozen[c]) THEN 1 ELSE systick[c]

(* maybe_tick moves the countdown unless the clock is off or frozen.       *)
Advances(c, n) == enabled[c] /\ (tick_frozen[c] => n = 1)

AfterTick(n) ==
  LET from == IF n = 0 THEN Reload ELSE n
  IN IF from = 1 THEN Reload ELSE from - 1

Fires(c, wfi) == Advances(c, Countdown(c, wfi)) /\ Countdown(c, wfi) = 1

(* A frozen tick is paid for, except the one that was due when the freeze  *)
(* began.                                                                  *)
Cost(c) == IF c = "sp" THEN 1 ELSE Divisor

Instruction(c, wfi) ==
  LET n == Countdown(c, wfi)
  IN /\ systick' = [systick EXCEPT ![c] = IF Advances(c, n) THEN AfterTick(n) ELSE n]
     /\ sp_tick_credit' = [sp_tick_credit EXCEPT ![c] = IF Drains(c, wfi) THEN @ - 1 ELSE @]
     /\ owed' = [owed EXCEPT ![c] =
                   IF Fires(c, wfi) /\ tick_frozen[c] /\ ~due[c] THEN @ - Cost(c) ELSE @]
     /\ due' = [due EXCEPT ![c] = @ /\ ~Fires(c, wfi)]

(* The core's clock is frozen or released.                                 *)
Freeze(c, frozen) ==
  /\ tick_frozen' = [tick_frozen EXCEPT ![c] = frozen]
  /\ due' = [due EXCEPT ![c] = frozen /\ (IF tick_frozen[c] THEN @ ELSE systick[c] = 1)]

-----------------------------------------------------------------------------
(* SP thread: the burst.                                                   *)

SpRuns == loop = "burst" /\ ~halted /\ ran < Burst

SpInstruction(wfi) ==
  /\ SpRuns
  /\ Instruction("sp", wfi)
  /\ ran' = ran + 1
  /\ UNCHANGED <<tick_frozen, enabled, debug, shared, loop, req_in_flight, now_endo,
                 endoscope_acc, rot>>

(* A BKPT under debug halts the core; its maybe_tick still follows.        *)
SpBkpt ==
  /\ SpRuns /\ debug_en
  /\ Instruction("sp", FALSE)
  /\ halted' = TRUE /\ ran' = ran + 1
  /\ UNCHANGED <<tick_frozen, enabled, debug_en, shared, loop, req_in_flight, now_endo,
                 endoscope_acc, rot>>

(* maybe_tick notices that the firmware turned SysTick on after a reset.   *)
SpEnables ==
  /\ SpRuns /\ ~enabled["sp"]
  /\ enabled' = [enabled EXCEPT !["sp"] = TRUE]
  /\ systick' = [systick EXCEPT !["sp"] = IF tick_frozen["sp"] THEN @ ELSE AfterTick(@)]
  /\ ran' = ran + 1
  /\ UNCHANGED <<sp_tick_credit, tick_frozen, debug, shared, loop, req_in_flight,
                 now_endo, endoscope_acc, rot, hist>>

(* reset_for_reboot and reset_exception_sources: countdown and SysTick off,*)
(* credit and freeze as they were; a vector catch may hold the core.  The  *)
(* firmware's own reset ends the burst, the reset pin is pulsed by the RoT.*)
SpReset(catch) ==
  /\ \/ SpRuns /\ loop' = "reset" /\ ran' = ran + 1
     \/ loop = "drain" /\ Debugs /\ UNCHANGED <<loop, ran>>
  /\ systick' = [systick EXCEPT !["sp"] = 0]
  /\ enabled' = [enabled EXCEPT !["sp"] = FALSE]
  /\ due' = [due EXCEPT !["sp"] = FALSE]
  /\ halted' = (catch /\ Debugs)
  /\ UNCHANGED <<sp_tick_credit, tick_frozen, debug_en, shared, req_in_flight, now_endo,
                 endoscope_acc, rot, owed>>

-----------------------------------------------------------------------------
(* SP thread: the coupling, once per iteration.                            *)

(* The burst is over: sample the link, freeze the SP's clock.              *)
SampleLink ==
  /\ loop = "reset" \/ (loop = "burst" /\ (halted \/ ran > 0))
  /\ req_in_flight' = request_in_flight
  /\ Freeze("sp", request_in_flight /\ ~halted)
  /\ now_endo' = (debug_en /\ ~halted)
  /\ loop' = "endo"
  /\ UNCHANGED <<systick, sp_tick_credit, enabled, debug, shared, ran, endoscope_acc, rot, owed>>

StoreEndo ==
  /\ loop = "endo"
  /\ endo_active' = now_endo
  /\ loop' = "publish"
  /\ UNCHANGED <<clocks, debug, request_in_flight, endo_credit_ms, unseen, req_in_flight,
                 now_endo, ran, endoscope_acc, rot, hist>>

(* endoscope_credit: whole milliseconds up to the cap, and the remainder.  *)
EndoscopeCredit(total) ==
  [ms |-> AtMost(total \div Divisor, CreditCap), acc |-> total % Divisor]

(* Instructions the RoT's clock may be credited with at most.              *)
OwedCap == (2 * CreditCap + 1) * Divisor - 1

Publish ==
  /\ loop = "publish"
  /\ LET r == EndoscopeCredit(endoscope_acc + ran)
     IN IF now_endo
        THEN /\ endo_credit_ms' = AtMost(endo_credit_ms + r.ms, CreditCap)
             /\ endoscope_acc' = r.acc
             /\ owed' = [owed EXCEPT !["rot"] = AtMost(@ + ran, OwedCap)]
        ELSE /\ endo_credit_ms' = 0 /\ endoscope_acc' = 0
             /\ UNCHANGED owed
  /\ ran' = 0 /\ now_endo' = FALSE
  /\ loop' = "drain"
  /\ UNCHANGED <<clocks, debug, request_in_flight, endo_active, unseen, req_in_flight, rot, due>>

(* The RoT, over SWD, halts or resumes the SP or ends debugging.           *)
DebugAccess(en, halt) ==
  /\ loop = "drain" /\ Debugs
  /\ debug_en' = en /\ halted' = (en /\ halt)
  /\ UNCHANGED <<clocks, shared, serve, rot, hist>>

\* Mutant of CreditSp: an ended exchange leaves its credit behind.
CreditSp_keeps ==
  /\ loop = "drain"
  /\ sp_tick_credit' = [sp_tick_credit EXCEPT !["sp"] =
       IF req_in_flight /\ ~halted THEN AtMost(@ + unseen, CreditCap) ELSE @]
  /\ owed' = [owed EXCEPT !["sp"] =
       IF req_in_flight /\ ~halted THEN AtMost(@ + unseen, CreditCap + 1) ELSE 0]
  /\ unseen' = 0
  /\ loop' = "burst" /\ req_in_flight' = FALSE
  /\ UNCHANGED <<systick, tick_frozen, enabled, debug, request_in_flight, endo_active,
                 endo_credit_ms, now_endo, ran, endoscope_acc, rot, due>>

(* The RoT's ticks since the last iteration become the SP's credit.        *)
CreditSp ==
  /\ loop = "drain"
  /\ sp_tick_credit' = [sp_tick_credit EXCEPT !["sp"] =
       IF req_in_flight /\ ~halted THEN AtMost(@ + unseen, CreditCap) ELSE 0]
  /\ owed' = [owed EXCEPT !["sp"] =
       IF req_in_flight /\ ~halted THEN AtMost(@ + unseen, CreditCap + 1) ELSE 0]
  /\ unseen' = 0
  /\ loop' = "burst" /\ req_in_flight' = FALSE
  /\ UNCHANGED <<systick, tick_frozen, enabled, debug, request_in_flight, endo_active,
                 endo_credit_ms, now_endo, ran, endoscope_acc, rot, due>>

-----------------------------------------------------------------------------
(* RoT thread.                                                             *)

(* Load endo_active; without endoscope the credit is void.                 *)
RotTop ==
  /\ rotLoop = "top"
  /\ Freeze("rot", endo_active)
  /\ rotLoop' = IF endo_active THEN "swap" ELSE "run"
  /\ sp_tick_credit' = [sp_tick_credit EXCEPT !["rot"] = IF endo_active THEN @ ELSE 0]
  /\ owed' = [owed EXCEPT !["rot"] =
                IF endo_active THEN @ ELSE endo_credit_ms * Divisor + endoscope_acc]
  /\ UNCHANGED <<systick, enabled, debug, shared, serve, fresh>>

\* Mutant of RotSwap: the published credit is read and not taken.
RotSwap_load ==
  /\ rotLoop = "swap"
  /\ sp_tick_credit' = [sp_tick_credit EXCEPT !["rot"] = AtMost(@ + endo_credit_ms, CreditCap)]
  /\ rotLoop' = "run"
  /\ UNCHANGED <<systick, tick_frozen, enabled, debug, shared, serve, fresh, hist>>

(* Take what the SP has published.                                         *)
RotSwap ==
  /\ rotLoop = "swap"
  /\ sp_tick_credit' = [sp_tick_credit EXCEPT !["rot"] = AtMost(@ + endo_credit_ms, CreditCap)]
  /\ endo_credit_ms' = 0
  /\ rotLoop' = "run"
  /\ UNCHANGED <<systick, tick_frozen, enabled, debug, request_in_flight, endo_active, unseen,
                 serve, fresh, hist>>

RotInstruction(wfi) ==
  /\ rotLoop = "run"
  /\ Instruction("rot", wfi)
  /\ fresh' = IF Fires("rot", wfi) THEN AtMost(fresh + 1, CreditCap) ELSE fresh
  /\ UNCHANGED <<tick_frozen, enabled, debug, shared, serve, rotLoop>>

(* The end of the quantum: tick_events.store.                              *)
RotPublish ==
  /\ rotLoop = "run"
  /\ unseen' = AtMost(unseen + fresh, CreditCap) /\ fresh' = 0
  /\ rotLoop' = "top"
  /\ UNCHANGED <<clocks, debug, request_in_flight, endo_active, endo_credit_ms, serve, hist>>

(* FIFORD accepts a request, rot-irq answers it.                           *)
RotRequest(inFlight) ==
  /\ rotLoop = "run" /\ request_in_flight # inFlight
  /\ request_in_flight' = inFlight
  /\ UNCHANGED <<clocks, debug, endo_active, endo_credit_ms, unseen, serve, rot, hist>>

-----------------------------------------------------------------------------
SpThread ==
  \/ \E wfi \in BOOLEAN : SpInstruction(wfi)
  \/ SpBkpt \/ SpEnables
  \/ \E catch \in BOOLEAN : SpReset(catch)
  \/ SampleLink \/ StoreEndo \/ Publish
  \/ \E en, halt \in BOOLEAN : DebugAccess(en, halt)
  \/ CreditSp

RotThread ==
  \/ RotTop \/ RotSwap \/ RotPublish
  \/ \E wfi \in BOOLEAN : RotInstruction(wfi)
  \/ \E b \in BOOLEAN : RotRequest(b)

Next == SpThread \/ RotThread

Spec == Init /\ [][Next]_vars

(* Both threads keep iterating, and a core that keeps running gets to the  *)
(* WFI of its idle task.                                                   *)
Fairness ==
  /\ WF_vars(SampleLink \/ StoreEndo \/ Publish \/ CreditSp)
  /\ WF_vars(RotTop \/ RotSwap \/ RotPublish)
  /\ SF_vars(SpInstruction(TRUE)) /\ SF_vars(RotInstruction(TRUE))

FairSpec == Spec /\ Fairness
-----------------------------------------------------------------------------
(* Properties.                                                             *)

(* Every variable keeps its type; counters stay at or below their caps.    *)
TypeOK ==
  /\ systick \in [Cores -> 0..Reload]
  /\ sp_tick_credit \in [Cores -> 0..CreditCap]
  /\ tick_frozen \in [Cores -> BOOLEAN] /\ enabled \in [Cores -> BOOLEAN]
  /\ due \in [Cores -> BOOLEAN] /\ owed \in [Cores -> Int]
  /\ {halted, debug_en, request_in_flight, endo_active, req_in_flight, now_endo} \subseteq BOOLEAN
  /\ endo_credit_ms \in 0..CreditCap /\ unseen \in 0..CreditCap /\ fresh \in 0..CreditCap
  /\ ran \in 0..Burst /\ endoscope_acc \in 0..(Divisor - 1)
  /\ loop \in {"burst", "reset", "endo", "publish", "drain"} /\ rotLoop \in {"top", "swap", "run"}

(* While the RoT works on an accepted request the SP's clock never gets    *)
(* ahead of the RoT's: it has ticked at most as often as the RoT since the *)
(* exchange began, and the credit it holds would not take it further.      *)
SpNeverAhead == owed["sp"] >= 0 /\ sp_tick_credit["sp"] <= owed["sp"]

(* While the SP runs endoscope the RoT's clock never gets ahead of the     *)
(* instructions the SP has executed, whatever is still on its way to it.   *)
RotNeverAhead ==
  /\ owed["rot"] >= 0
  /\ (sp_tick_credit["rot"] + endo_credit_ms) * Divisor + endoscope_acc <= owed["rot"]

(* A frozen SP clock still moves as long as the RoT holds the request, in  *)
(* and out of endoscope.  Under endoscope the RoT's clock is frozen too,   *)
(* on the SP's instructions: neither stops the other.                      *)
Waits(endo) ==
  /\ tick_frozen["sp"] /\ enabled["sp"] /\ systick["sp"] # 0
  /\ endo_active = endo
FrozenClockMoves ==
  \A endo \in BOOLEAN : <>[]Waits(endo) => []<><<owed'["sp"] < owed["sp"]>>_vars

-----------------------------------------------------------------------------
(* What a comment of the code says, and the code does not do.              *)

(* cpu.rs, WFI: "the next WFI drains more, yielding exactly `credit` ticks *)
(* over this visit".  A core reset while its clock is frozen keeps a       *)
(* countdown of zero, which neither WFI nor maybe_tick then moves.         *)
WfiDrainsCredit ==
  [][(/\ SpInstruction(TRUE)
      /\ enabled["sp"] /\ tick_frozen["sp"] /\ sp_tick_credit["sp"] > 0)
     => Fires("sp", TRUE)]_vars
=============================================================================
