------------------------- MODULE TickCouplingProofs --------------------------
(***************************************************************************)
(* Proofs about the coupling of the two clocks, for every reload value,    *)
(* pace, credit cap and burst length.                                      *)
(***************************************************************************)
EXTENDS TickCoupling, TLAPS

USE ReloadAssumption, PaceAssumption, DebugAssumption

(* A frozen clock stands at 1 only when its tick was due as the freeze     *)
(* began: every other tick of it goes through the credit.                  *)
FrozenShort == \A c \in Cores : tick_frozen[c] /\ ~due[c] => systick[c] # 1

(* Until the firmware turns SysTick on again after a reset its countdown   *)
(* is zero: a WFI finds nothing to collapse.                               *)
OffAtZero == \A c \in Cores : ~enabled[c] => systick[c] = 0

IInv == TypeOK /\ FrozenShort /\ OffAtZero /\ SpNeverAhead /\ RotNeverAhead

-----------------------------------------------------------------------------
(* Arithmetic of the credit.                                               *)

(* Credit is worth its milliseconds in instructions, monotonically.        *)
LEMMA WorthMonotone ==
  ASSUME NEW a \in Nat, NEW b \in Nat, a <= b
  PROVE  a * Divisor <= b * Divisor /\ a * Divisor \in Nat
  OBVIOUS

(* What two amounts are worth together.                                    *)
LEMMA WorthSum ==
  ASSUME NEW a \in Nat, NEW b \in Nat
  PROVE  (a + b) * Divisor = a * Divisor + b * Divisor /\ a * Divisor \in Nat
  OBVIOUS

(* One millisecond less is worth Divisor instructions less.                *)
LEMMA WorthStep ==
  ASSUME NEW a \in Nat, a > 0
  PROVE  (a - 1) * Divisor = a * Divisor - Divisor
  OBVIOUS

(* endoscope_credit hands out no more than it was given, caps the          *)
(* milliseconds and keeps a remainder below one millisecond.               *)
LEMMA EndoscopeCreditBounded ==
  ASSUME NEW total \in Nat
  PROVE  /\ EndoscopeCredit(total).ms \in 0..CreditCap
         /\ EndoscopeCredit(total).acc \in 0..(Divisor - 1)
         /\ EndoscopeCredit(total).ms * Divisor + EndoscopeCredit(total).acc <= total
<1> DEFINE q == total \div Divisor
           m == total % Divisor
<1>1. q \in Nat /\ m \in 0..(Divisor - 1) /\ total = q * Divisor + m
  BY Z3
<1>2. AtMost(q, CreditCap) \in 0..CreditCap /\ AtMost(q, CreditCap) <= q
  BY <1>1 DEF AtMost
<1>3. AtMost(q, CreditCap) * Divisor <= q * Divisor
  BY <1>1, <1>2, WorthMonotone
<1>4. AtMost(q, CreditCap) * Divisor \in Nat /\ q * Divisor \in Nat
  BY <1>1, <1>2
<1>5. EndoscopeCredit(total).ms = AtMost(q, CreditCap) /\ EndoscopeCredit(total).acc = m
  BY DEF EndoscopeCredit
<1>6. AtMost(q, CreditCap) * Divisor + m <= total
  BY <1>1, <1>3, <1>4
<1> QED
  BY <1>1, <1>2, <1>5, <1>6

-----------------------------------------------------------------------------
(* One instruction of a core.                                              *)

(* What an instruction does to its core's clock: the countdown moves within *)
(* its range; a clock that is off stays at zero; a frozen clock that ticks *)
(* with none due has paid with one unit of credit.                         *)
LEMMA InstructionKeeps ==
  ASSUME TypeOK, FrozenShort, OffAtZero,
         NEW c \in Cores, NEW wfi \in BOOLEAN,
         Instruction(c, wfi), UNCHANGED <<tick_frozen, enabled>>
  PROVE  /\ systick' \in [Cores -> 0..Reload]
         /\ due' \in [Cores -> BOOLEAN]
         /\ FrozenShort' /\ OffAtZero'
         /\ sp_tick_credit' \in [Cores -> 0..CreditCap]
         /\ owed' \in [Cores -> Int]
         /\ \A d \in Cores \ {c} : sp_tick_credit'[d] = sp_tick_credit[d] /\ owed'[d] = owed[d]
         /\ \/ sp_tick_credit'[c] <= sp_tick_credit[c] /\ owed'[c] = owed[c]
            \/ /\ sp_tick_credit[c] > 0 /\ sp_tick_credit'[c] = sp_tick_credit[c] - 1
               /\ owed'[c] = owed[c] - Cost(c)
<1> DEFINE n == Countdown(c, wfi)
           fires == Fires(c, wfi)
           drains == Drains(c, wfi)
<1>1. /\ systick[c] \in 0..Reload /\ sp_tick_credit[c] \in 0..CreditCap
      /\ tick_frozen[c] \in BOOLEAN /\ enabled[c] \in BOOLEAN /\ due[c] \in BOOLEAN
      /\ owed[c] \in Int /\ Cost(c) \in Int
  BY DEF TypeOK, Cost
<1>2. n \in 0..Reload
  BY <1>1 DEF Countdown
<1>3. AfterTick(n) \in 0..Reload
  BY <1>2 DEF AfterTick
<1>4. drains => sp_tick_credit[c] > 0
  BY DEF Drains
<1>5. (tick_frozen[c] /\ ~due[c] /\ fires) => drains
  BY <1>1 DEF FrozenShort, Fires, Countdown, Drains, Idles
<1>6. systick' \in [Cores -> 0..Reload]
  BY <1>2, <1>3 DEF Instruction, TypeOK
<1>7. due' \in [Cores -> BOOLEAN] /\ due'[c] = (due[c] /\ ~fires)
      /\ \A d \in Cores \ {c} : due'[d] = due[d] /\ systick'[d] = systick[d]
  BY <1>1 DEF Instruction, TypeOK
<1>8. systick'[c] = IF Advances(c, n) THEN AfterTick(n) ELSE n
  BY DEF Instruction, TypeOK
<1>9. FrozenShort'
  <2>1. ASSUME tick_frozen[c], ~due'[c], systick'[c] = 1
        PROVE  FALSE
    <3>1. CASE fires
      BY <1>8, <2>1, <3>1 DEF Fires, AfterTick
    <3>2. CASE ~fires
      <4>1. ~due[c] /\ systick[c] # 1
        BY <1>1, <1>7, <2>1, <3>2 DEF FrozenShort
      <4>2. enabled[c] => ~Advances(c, n)
        BY <2>1, <3>2 DEF Fires, Advances
      <4>3. systick'[c] = n
        BY <1>8, <4>2 DEF Advances
      <4>4. Idles(c, wfi) /\ ~enabled[c]
        BY <2>1, <3>2, <4>1, <4>3 DEF Countdown, Fires, Advances
      <4> QED BY <1>1, <4>4 DEF Idles, OffAtZero
    <3> QED BY <3>1, <3>2
  <2> QED BY <1>7, <2>1 DEF FrozenShort
<1>10. OffAtZero'
  <2>1. ASSUME ~enabled[c] PROVE systick'[c] = 0
    BY <1>8, <2>1 DEF OffAtZero, Advances, Countdown, Idles
  <2> QED BY <1>7, <2>1 DEF OffAtZero
<1>11. /\ sp_tick_credit' \in [Cores -> 0..CreditCap]
       /\ sp_tick_credit'[c] = IF drains THEN sp_tick_credit[c] - 1 ELSE sp_tick_credit[c]
       /\ \A d \in Cores \ {c} : sp_tick_credit'[d] = sp_tick_credit[d]
  BY <1>1, <1>4 DEF Instruction, TypeOK
<1>12. /\ owed' \in [Cores -> Int]
       /\ owed'[c] = IF fires /\ tick_frozen[c] /\ ~due[c] THEN owed[c] - Cost(c) ELSE owed[c]
       /\ \A d \in Cores \ {c} : owed'[d] = owed[d]
  BY <1>1 DEF Instruction, TypeOK
<1> HIDE DEF fires, drains
<1>13. CASE fires /\ tick_frozen[c] /\ ~due[c]
  BY <1>4, <1>5, <1>6, <1>7, <1>9, <1>10, <1>11, <1>12, <1>13
<1>14. CASE ~(fires /\ tick_frozen[c] /\ ~due[c])
  BY <1>1, <1>6, <1>7, <1>9, <1>10, <1>11, <1>12, <1>14
<1> QED BY <1>13, <1>14

(* The RoT's balance, with the worth of what it holds as one number.       *)
LEMMA RotBalance ==
  ASSUME TypeOK
  PROVE  /\ RotNeverAhead <=>
              /\ owed["rot"] >= 0
              /\ sp_tick_credit["rot"] * Divisor + endo_credit_ms * Divisor + endoscope_acc
                   <= owed["rot"]
         /\ sp_tick_credit["rot"] * Divisor \in Nat
         /\ endo_credit_ms * Divisor \in Nat
<1>1. sp_tick_credit["rot"] \in Nat /\ endo_credit_ms \in Nat /\ endoscope_acc \in Nat
  BY DEF TypeOK, Cores
<1> QED BY <1>1 DEF RotNeverAhead

(* The same after a step.                                                  *)
LEMMA RotBalanceNext ==
  ASSUME TypeOK'
  PROVE  RotNeverAhead' <=>
              /\ owed["rot"]' >= 0
              /\ sp_tick_credit["rot"]' * Divisor + endo_credit_ms' * Divisor + endoscope_acc'
                   <= owed["rot"]'
<1>1. sp_tick_credit["rot"]' \in Nat /\ endo_credit_ms' \in Nat /\ endoscope_acc' \in Nat
  BY DEF TypeOK, Cores
<1> QED BY <1>1 DEF RotNeverAhead

-----------------------------------------------------------------------------
(* Both cores start unfrozen with nothing owed.                            *)
LEMMA InitIInv == Init => IInv
<1> SUFFICES ASSUME Init PROVE IInv
  OBVIOUS
<1>1. TypeOK
  <2>1. /\ {halted, debug_en, request_in_flight, endo_active, req_in_flight, now_endo} \subseteq BOOLEAN
        /\ tick_frozen \in [Cores -> BOOLEAN] /\ enabled \in [Cores -> BOOLEAN]
        /\ due \in [Cores -> BOOLEAN]
    BY DEF Init
  <2>2. 0 \in 0..(Divisor - 1)
    OBVIOUS
  <2> QED BY <2>1, <2>2 DEF Init, TypeOK
<1>2. FrozenShort /\ OffAtZero /\ SpNeverAhead
  BY DEF Init, FrozenShort, OffAtZero, SpNeverAhead, Cores
<1>3. RotNeverAhead
  BY DEF Init, RotNeverAhead, Cores
<1> QED BY <1>1, <1>2, <1>3 DEF IInv

(* An instruction of the SP: the RoT's side is untouched.                  *)
LEMMA SpInstructionKeeps ==
  ASSUME IInv, NEW wfi \in BOOLEAN, Instruction("sp", wfi), SpRuns,
         ran' = ran + 1, halted' \in BOOLEAN,
         UNCHANGED <<tick_frozen, enabled, debug_en, shared, loop, req_in_flight, now_endo,
                     endoscope_acc, rot>>
  PROVE  IInv'
<1> USE DEF IInv
<1>1. "sp" \in Cores /\ "rot" \in Cores \ {"sp"}
  BY DEF Cores
<1>2. /\ FrozenShort' /\ OffAtZero'
      /\ systick' \in [Cores -> 0..Reload] /\ due' \in [Cores -> BOOLEAN]
      /\ sp_tick_credit' \in [Cores -> 0..CreditCap] /\ owed' \in [Cores -> Int]
      /\ sp_tick_credit'["rot"] = sp_tick_credit["rot"] /\ owed'["rot"] = owed["rot"]
      /\ \/ sp_tick_credit'["sp"] <= sp_tick_credit["sp"] /\ owed'["sp"] = owed["sp"]
         \/ /\ sp_tick_credit["sp"] > 0 /\ sp_tick_credit'["sp"] = sp_tick_credit["sp"] - 1
            /\ owed'["sp"] = owed["sp"] - Cost("sp")
  BY <1>1, InstructionKeeps
<1>3. TypeOK'
  BY <1>2 DEF TypeOK, SpRuns, shared, rot
<1>4. SpNeverAhead'
  <2>1. /\ sp_tick_credit["sp"] \in 0..CreditCap /\ owed["sp"] \in Int
        /\ sp_tick_credit'["sp"] \in 0..CreditCap /\ owed'["sp"] \in Int /\ Cost("sp") = 1
    BY <1>2, <1>1 DEF TypeOK, Cost
  <2> QED BY <1>2, <2>1 DEF SpNeverAhead
<1>5. RotNeverAhead'
  BY <1>2 DEF RotNeverAhead, shared
<1> QED BY <1>2, <1>3, <1>4, <1>5

(* An instruction of the RoT: the SP's side is untouched.                  *)
LEMMA RotInstructionKeeps ==
  ASSUME IInv, NEW wfi \in BOOLEAN, RotInstruction(wfi)
  PROVE  IInv'
<1> USE DEF IInv
<1>1. "rot" \in Cores /\ "sp" \in Cores \ {"rot"}
  BY DEF Cores
<1>2. /\ FrozenShort' /\ OffAtZero'
      /\ systick' \in [Cores -> 0..Reload] /\ due' \in [Cores -> BOOLEAN]
      /\ sp_tick_credit' \in [Cores -> 0..CreditCap] /\ owed' \in [Cores -> Int]
      /\ sp_tick_credit'["sp"] = sp_tick_credit["sp"] /\ owed'["sp"] = owed["sp"]
      /\ \/ sp_tick_credit'["rot"] <= sp_tick_credit["rot"] /\ owed'["rot"] = owed["rot"]
         \/ /\ sp_tick_credit["rot"] > 0 /\ sp_tick_credit'["rot"] = sp_tick_credit["rot"] - 1
            /\ owed'["rot"] = owed["rot"] - Cost("rot")
  BY <1>1, InstructionKeeps DEF RotInstruction
<1>3. fresh' \in 0..CreditCap
  BY DEF RotInstruction, TypeOK, AtMost
<1>4. TypeOK'
  BY <1>2, <1>3 DEF TypeOK, RotInstruction, debug, shared, serve
<1>5. SpNeverAhead'
  BY <1>2 DEF SpNeverAhead
<1>6. RotNeverAhead'
  <2> DEFINE k == sp_tick_credit["rot"]
             k1 == sp_tick_credit'["rot"]
  <2>1. /\ k \in Nat /\ k1 \in Nat /\ owed["rot"] \in Int /\ Cost("rot") = Divisor
        /\ endoscope_acc \in Nat /\ endo_credit_ms * Divisor \in Nat
    BY <1>2, <1>1, RotBalance DEF TypeOK, Cost
  <2>2. k * Divisor + endo_credit_ms * Divisor + endoscope_acc <= owed["rot"] /\ owed["rot"] >= 0
    BY RotBalance
  <2>3. UNCHANGED <<endo_credit_ms, endoscope_acc>>
    BY DEF RotInstruction, shared, serve
  <2>4. k * Divisor \in Nat /\ k1 * Divisor \in Nat
    BY <2>1
  <2>5. CASE k1 <= k /\ owed'["rot"] = owed["rot"]
    <3>1. k1 * Divisor <= k * Divisor
      BY <2>1, <2>5, WorthMonotone
    <3>2. k1 * Divisor + endo_credit_ms * Divisor + endoscope_acc <= owed["rot"]
      BY <2>1, <2>2, <2>4, <3>1
    <3> QED BY <1>4, <2>2, <2>3, <2>5, <3>2, RotBalanceNext
  <2>6. CASE k > 0 /\ k1 = k - 1 /\ owed'["rot"] = owed["rot"] - Divisor
    <3>1. k1 * Divisor = k * Divisor - Divisor
      BY <2>1, <2>6, WorthStep
    <3>2. k1 * Divisor + endo_credit_ms * Divisor + endoscope_acc <= owed["rot"] - Divisor
      BY <2>1, <2>2, <2>4, <3>1
    <3>3. owed["rot"] - Divisor >= 0
      BY <2>1, <2>4, <3>2
    <3> QED BY <1>4, <2>3, <2>6, <3>2, <3>3, RotBalanceNext
  <2> QED BY <1>2, <2>1, <2>5, <2>6
<1> QED BY <1>2, <1>4, <1>5, <1>6

(* The SP publishes its instructions: what reaches the RoT is worth no     *)
(* more than what it ran, up to the most the RoT can be owed.              *)
LEMMA PublishKeeps ==
  ASSUME IInv, Publish
  PROVE  IInv'
<1> USE DEF IInv
<1> DEFINE r  == EndoscopeCredit(endoscope_acc + ran)
           k  == sp_tick_credit["rot"]
           m1 == endo_credit_ms'
<1>1. /\ endoscope_acc \in 0..(Divisor - 1) /\ ran \in Nat /\ endoscope_acc + ran \in Nat
      /\ k \in 0..CreditCap /\ endo_credit_ms \in 0..CreditCap /\ owed["rot"] \in Int
      /\ "rot" \in Cores /\ "sp" \in Cores
  BY DEF TypeOK, Cores
<1>2. r.ms \in 0..CreditCap /\ r.acc \in 0..(Divisor - 1)
      /\ r.ms * Divisor + r.acc <= endoscope_acc + ran
  BY <1>1, EndoscopeCreditBounded
<1> HIDE DEF r
<1>3. OwedCap = 2 * (CreditCap * Divisor) + Divisor - 1 /\ CreditCap * Divisor \in Nat
      /\ OwedCap \in Int
  BY DEF OwedCap
<1>4. UNCHANGED <<systick, sp_tick_credit, tick_frozen, enabled, due>>
  BY DEF Publish, clocks
<1>5. owed' \in [Cores -> Int] /\ owed'["sp"] = owed["sp"]
  BY <1>1, <1>3 DEF Publish, TypeOK, AtMost, r
<1>6. m1 \in 0..CreditCap /\ endoscope_acc' \in 0..(Divisor - 1)
  <2>1. CASE now_endo
    BY <1>1, <1>2, <2>1 DEF Publish, AtMost, r
  <2>2. CASE ~now_endo
    BY <2>2 DEF Publish
  <2> QED BY <2>1, <2>2
<1>7. TypeOK'
  <2>1. /\ UNCHANGED <<halted, debug_en, request_in_flight, endo_active, unseen, req_in_flight,
                       rotLoop, fresh>>
        /\ ran' = 0 /\ now_endo' = FALSE /\ loop' = "drain"
    BY DEF Publish, debug, rot
  <2>2. {halted, debug_en, request_in_flight, endo_active, req_in_flight, now_endo}'
          \subseteq BOOLEAN
    BY <2>1 DEF TypeOK
  <2>3. ran' \in 0..Burst
    BY <2>1
  <2> QED BY <1>4, <1>5, <1>6, <2>1, <2>2, <2>3 DEF TypeOK
<1>8. FrozenShort' /\ OffAtZero' /\ SpNeverAhead'
  BY <1>4, <1>5 DEF FrozenShort, OffAtZero, SpNeverAhead
<1>9. RotNeverAhead'
  <2>1. /\ k * Divisor \in Nat /\ endo_credit_ms * Divisor \in Nat /\ owed["rot"] >= 0
        /\ k * Divisor + endo_credit_ms * Divisor + endoscope_acc <= owed["rot"]
    BY RotBalance
  <2>2. CASE now_endo
    <3>1. /\ m1 = AtMost(endo_credit_ms + r.ms, CreditCap) /\ endoscope_acc' = r.acc
          /\ owed'["rot"] = AtMost(owed["rot"] + ran, OwedCap)
      BY <1>1, <2>2 DEF Publish, r, TypeOK
    <3>2. m1 * Divisor <= (endo_credit_ms + r.ms) * Divisor
      BY <1>1, <1>2, <1>6, <3>1, WorthMonotone DEF AtMost
    <3>3. (endo_credit_ms + r.ms) * Divisor = endo_credit_ms * Divisor + r.ms * Divisor
          /\ r.ms * Divisor \in Nat /\ m1 * Divisor \in Nat
      <4>1. endo_credit_ms \in Nat /\ r.ms \in Nat /\ m1 \in Nat
        BY <1>1, <1>2, <1>6
      <4> QED BY <4>1, WorthSum
    <3>4. k * Divisor + m1 * Divisor + r.acc <= owed["rot"] + ran
      BY <1>1, <1>2, <2>1, <3>2, <3>3
    <3>5. k * Divisor <= CreditCap * Divisor /\ m1 * Divisor <= CreditCap * Divisor
      <4>1. k \in Nat /\ m1 \in Nat /\ k <= CreditCap /\ m1 <= CreditCap
        BY <1>1, <1>6
      <4> QED BY <4>1, WorthMonotone
    <3>6. k * Divisor + m1 * Divisor + r.acc <= OwedCap
      BY <1>2, <1>3, <2>1, <3>3, <3>5
    <3>7. OwedCap >= 0
      BY <1>3
    <3> QED BY <1>1, <1>3, <1>4, <1>7, <2>1, <3>1, <3>4, <3>6, <3>7, RotBalanceNext DEF AtMost
  <2>3. CASE ~now_endo
    <3>1. m1 = 0 /\ endoscope_acc' = 0 /\ owed' = owed
      BY <2>3 DEF Publish
    <3>2. k * Divisor + m1 * Divisor + 0 <= owed["rot"]
      BY <1>1, <2>1, <3>1
    <3> QED BY <1>4, <1>7, <2>1, <3>1, <3>2, RotBalanceNext
  <2> QED BY <2>2, <2>3
<1> QED BY <1>7, <1>8, <1>9

(* The RoT looks at endo_active: without endoscope it drops its credit,    *)
(* and is owed exactly what is still on its way.                           *)
LEMMA RotTopKeeps ==
  ASSUME IInv, RotTop
  PROVE  IInv'
<1> USE DEF IInv
<1>1. /\ sp_tick_credit["rot"] \in 0..CreditCap /\ endo_credit_ms \in Nat
      /\ endoscope_acc \in Nat /\ endo_credit_ms * Divisor \in Nat
      /\ endo_active \in BOOLEAN /\ "rot" \in Cores /\ "sp" \in Cores
  BY RotBalance DEF TypeOK, Cores
<1>2. UNCHANGED <<systick, enabled, endo_credit_ms, endoscope_acc>>
  BY DEF RotTop, shared, serve
<1>3. tick_frozen' \in [Cores -> BOOLEAN] /\ due' \in [Cores -> BOOLEAN]
  BY <1>1 DEF RotTop, Freeze, TypeOK
<1>4. sp_tick_credit' \in [Cores -> 0..CreditCap] /\ owed' \in [Cores -> Int]
  BY <1>1 DEF RotTop, TypeOK
<1>5. TypeOK'
  BY <1>2, <1>3, <1>4 DEF TypeOK, RotTop, debug, shared, serve
<1>6. FrozenShort'
  BY <1>1, <1>2 DEF FrozenShort, RotTop, Freeze, TypeOK, Cores
<1>7. OffAtZero'
  BY <1>2 DEF OffAtZero
<1>8. SpNeverAhead'
  BY <1>1 DEF SpNeverAhead, RotTop, TypeOK, Cores
<1>9. RotNeverAhead'
  <2>1. CASE endo_active
    <3>1. sp_tick_credit'["rot"] = sp_tick_credit["rot"] /\ owed'["rot"] = owed["rot"]
      BY <1>1, <2>1 DEF RotTop, TypeOK
    <3> QED BY <1>2, <3>1 DEF RotNeverAhead
  <2>2. CASE ~endo_active
    <3>1. sp_tick_credit'["rot"] = 0 /\ owed'["rot"] = endo_credit_ms * Divisor + endoscope_acc
      BY <1>1, <2>2 DEF RotTop, TypeOK
    <3>2. sp_tick_credit'["rot"] * Divisor = 0
      BY <3>1
    <3> QED BY <1>1, <1>2, <1>5, <3>1, <3>2, RotBalanceNext
  <2> QED BY <1>1, <2>1, <2>2
<1> QED BY <1>5, <1>6, <1>7, <1>8, <1>9

(* The steps that freeze, reset or switch on the SP's clock, and those     *)
(* that only move flags and published counters.                            *)
LEMMA SpClockKeeps ==
  ASSUME IInv, SpEnables \/ (\E catch \in BOOLEAN : SpReset(catch)) \/ SampleLink
  PROVE  IInv'
<1> USE DEF IInv
<1>0. "sp" \in Cores /\ "rot" \in Cores /\ systick["sp"] \in 0..Reload
  BY DEF Cores, TypeOK
<1>1. CASE SpEnables
  <2>1. AfterTick(systick["sp"]) \in 0..Reload
    BY <1>0 DEF AfterTick
  <2>2. systick' \in [Cores -> 0..Reload] /\ enabled' \in [Cores -> BOOLEAN]
    BY <1>0, <1>1, <2>1 DEF SpEnables, TypeOK
  <2>3. TypeOK'
    BY <1>1, <2>2 DEF SpEnables, TypeOK, SpRuns, debug, shared, rot, hist
  <2>4. FrozenShort' /\ OffAtZero'
    BY <1>0, <1>1 DEF SpEnables, TypeOK, FrozenShort, OffAtZero, hist, Cores
  <2>5. SpNeverAhead' /\ RotNeverAhead'
    BY <1>1 DEF SpEnables, SpNeverAhead, RotNeverAhead, shared, hist
  <2> QED BY <2>3, <2>4, <2>5
<1>2. CASE \E catch \in BOOLEAN : SpReset(catch)
  <2>1. /\ systick' = [systick EXCEPT !["sp"] = 0]
        /\ enabled' = [enabled EXCEPT !["sp"] = FALSE] /\ due' = [due EXCEPT !["sp"] = FALSE]
        /\ halted' \in BOOLEAN /\ ran' \in 0..Burst /\ loop' \in {"reset", "drain"}
        /\ UNCHANGED <<sp_tick_credit, tick_frozen, debug_en, shared, req_in_flight, now_endo,
                       endoscope_acc, rot, owed>>
    BY <1>2 DEF SpReset, SpRuns, TypeOK
  <2>2. /\ systick' \in [Cores -> 0..Reload] /\ enabled' \in [Cores -> BOOLEAN]
        /\ due' \in [Cores -> BOOLEAN]
    BY <1>0, <2>1 DEF TypeOK
  <2>3. TypeOK'
    BY <2>1, <2>2 DEF TypeOK, shared, rot
  <2>4. FrozenShort' /\ OffAtZero'
    BY <1>0, <2>1 DEF TypeOK, FrozenShort, OffAtZero, Cores
  <2>5. SpNeverAhead' /\ RotNeverAhead'
    BY <2>1 DEF SpNeverAhead, RotNeverAhead, shared
  <2> QED BY <2>3, <2>4, <2>5
<1>3. CASE SampleLink
  <2>1. tick_frozen' \in [Cores -> BOOLEAN] /\ due' \in [Cores -> BOOLEAN]
    BY <1>0, <1>3 DEF SampleLink, Freeze, TypeOK
  <2>2. req_in_flight' \in BOOLEAN /\ now_endo' \in BOOLEAN /\ loop' = "endo"
    BY <1>3 DEF SampleLink, TypeOK
  <2>3. UNCHANGED <<systick, sp_tick_credit, enabled, debug, shared, ran, endoscope_acc, rot, owed>>
    BY <1>3 DEF SampleLink
  <2>4. TypeOK'
    BY <2>1, <2>2, <2>3 DEF TypeOK, debug, shared, rot
  <2>5. FrozenShort' /\ OffAtZero'
    BY <1>0, <1>3 DEF SampleLink, Freeze, TypeOK, FrozenShort, OffAtZero, Cores
  <2>6. SpNeverAhead' /\ RotNeverAhead'
    BY <2>3 DEF SpNeverAhead, RotNeverAhead, shared
  <2> QED BY <2>4, <2>5, <2>6
<1> QED BY <1>1, <1>2, <1>3

(* Steps that move no clock, credit or debt.                               *)
LEMMA FlagsKeep ==
  ASSUME IInv, \/ StoreEndo \/ RotPublish
               \/ \E en, halt \in BOOLEAN : DebugAccess(en, halt)
               \/ \E b \in BOOLEAN : RotRequest(b)
  PROVE  IInv'
<1> USE DEF IInv
<1>1. UNCHANGED <<systick, sp_tick_credit, tick_frozen, enabled, endo_credit_ms, endoscope_acc,
                  owed, due>>
  BY DEF StoreEndo, RotPublish, DebugAccess, RotRequest, clocks, shared, serve, hist
<1>2. FrozenShort' /\ OffAtZero' /\ SpNeverAhead' /\ RotNeverAhead'
  BY <1>1 DEF FrozenShort, OffAtZero, SpNeverAhead, RotNeverAhead
<1>3. TypeOK'
  <2>1. CASE StoreEndo
    BY <1>1, <2>1 DEF StoreEndo, TypeOK, debug, rot
  <2>2. CASE RotPublish
    BY <1>1, <2>2 DEF RotPublish, TypeOK, AtMost, debug, serve
  <2>3. CASE \E en, halt \in BOOLEAN : DebugAccess(en, halt)
    <3>1. debug_en' \in BOOLEAN /\ halted' \in BOOLEAN /\ UNCHANGED <<shared, serve, rot>>
      BY <2>3 DEF DebugAccess
    <3> QED BY <1>1, <3>1 DEF TypeOK, shared, serve, rot
  <2>4. CASE \E b \in BOOLEAN : RotRequest(b)
    <3>1. /\ request_in_flight' \in BOOLEAN
          /\ UNCHANGED <<debug, endo_active, endo_credit_ms, unseen, serve, rot>>
      BY <2>4 DEF RotRequest
    <3> QED BY <1>1, <3>1 DEF TypeOK, debug, serve, rot
  <2> QED BY <2>1, <2>2, <2>3, <2>4
<1> QED BY <1>2, <1>3

(* The credit moves: the RoT's ticks become the SP's credit and its debt,  *)
(* the published milliseconds become the RoT's.                            *)
LEMMA CreditKeeps ==
  ASSUME IInv, CreditSp \/ RotSwap
  PROVE  IInv'
<1> USE DEF IInv
<1>0. /\ "sp" \in Cores /\ "rot" \in Cores /\ sp_tick_credit["sp"] \in 0..CreditCap
      /\ sp_tick_credit["rot"] \in 0..CreditCap /\ unseen \in 0..CreditCap
      /\ endo_credit_ms \in 0..CreditCap /\ owed["sp"] \in Int /\ owed["rot"] \in Int
      /\ endoscope_acc \in Nat
  BY DEF Cores, TypeOK
<1>1. CASE CreditSp
  <2>1. sp_tick_credit' \in [Cores -> 0..CreditCap] /\ owed' \in [Cores -> Int]
    BY <1>0, <1>1 DEF CreditSp, TypeOK, AtMost
  <2>2. /\ UNCHANGED <<systick, tick_frozen, enabled, debug, request_in_flight, endo_active,
                       endo_credit_ms, now_endo, ran, endoscope_acc, rot, due>>
        /\ unseen' = 0 /\ loop' = "burst" /\ req_in_flight' = FALSE
        /\ sp_tick_credit'["rot"] = sp_tick_credit["rot"] /\ owed'["rot"] = owed["rot"]
    BY <1>1 DEF CreditSp, TypeOK, Cores
  <2>3. {halted, debug_en, request_in_flight, endo_active, req_in_flight, now_endo}'
          \subseteq BOOLEAN
    BY <2>2 DEF TypeOK, debug
  <2>4. TypeOK'
    BY <2>1, <2>2, <2>3 DEF TypeOK, rot
  <2>5. FrozenShort' /\ OffAtZero' /\ RotNeverAhead'
    BY <2>2 DEF FrozenShort, OffAtZero, RotNeverAhead
  <2>6. SpNeverAhead'
    BY <1>0, <1>1 DEF CreditSp, TypeOK, AtMost, SpNeverAhead
  <2> QED BY <2>4, <2>5, <2>6
<1>2. CASE RotSwap
  <2>1. /\ sp_tick_credit' \in [Cores -> 0..CreditCap]
        /\ sp_tick_credit'["sp"] = sp_tick_credit["sp"]
        /\ sp_tick_credit'["rot"] <= sp_tick_credit["rot"] + endo_credit_ms
    BY <1>0, <1>2 DEF RotSwap, TypeOK, AtMost
  <2>2. /\ UNCHANGED <<systick, tick_frozen, enabled, debug, request_in_flight, endo_active,
                       unseen, serve, fresh, hist>>
        /\ endo_credit_ms' = 0 /\ rotLoop' = "run"
    BY <1>2 DEF RotSwap
  <2>3. TypeOK'
    BY <2>1, <2>2 DEF TypeOK, debug, serve, hist
  <2>4. FrozenShort' /\ OffAtZero' /\ SpNeverAhead'
    BY <2>1, <2>2 DEF FrozenShort, OffAtZero, SpNeverAhead, hist
  <2>5. RotNeverAhead'
    <3> DEFINE k1 == sp_tick_credit'["rot"]
               k2 == sp_tick_credit["rot"] + endo_credit_ms
    <3>1. k1 \in Nat /\ k2 \in Nat /\ k1 <= k2
      BY <1>0, <2>1
    <3>2. k1 * Divisor <= k2 * Divisor /\ k1 * Divisor \in Nat /\ k2 * Divisor \in Nat
      BY <3>1, WorthMonotone
    <3>3. k2 * Divisor + endoscope_acc <= owed["rot"] /\ owed["rot"] >= 0
      BY DEF RotNeverAhead
    <3>4. k1 * Divisor + 0 * Divisor + endoscope_acc <= owed["rot"]
      BY <1>0, <3>2, <3>3
    <3> QED BY <2>2, <2>3, <3>3, <3>4, RotBalanceNext DEF serve, hist
  <2> QED BY <2>3, <2>4, <2>5
<1> QED BY <1>1, <1>2

-----------------------------------------------------------------------------
(* Every step of either thread preserves the invariant.                    *)
LEMMA NextIInv == IInv /\ [Next]_vars => IInv'
<1> SUFFICES ASSUME IInv, [Next]_vars PROVE IInv'
  OBVIOUS
<1>1. ASSUME NEW wfi \in BOOLEAN, SpInstruction(wfi) PROVE IInv'
  <2>1. halted' \in BOOLEAN
    BY <1>1 DEF SpInstruction, debug, IInv, TypeOK
  <2> QED BY <1>1, <2>1, SpInstructionKeeps DEF SpInstruction, debug
<1>2. ASSUME SpBkpt PROVE IInv'
  BY <1>2, SpInstructionKeeps DEF SpBkpt
<1>3. ASSUME SpEnables \/ (\E catch \in BOOLEAN : SpReset(catch)) \/ SampleLink PROVE IInv'
  BY <1>3, SpClockKeeps
<1>4. ASSUME Publish PROVE IInv'
  BY <1>4, PublishKeeps
<1>5. ASSUME \/ StoreEndo \/ RotPublish
             \/ \E en, halt \in BOOLEAN : DebugAccess(en, halt)
             \/ \E b \in BOOLEAN : RotRequest(b)
      PROVE  IInv'
  BY <1>5, FlagsKeep
<1>6. ASSUME CreditSp \/ RotSwap PROVE IInv'
  BY <1>6, CreditKeeps
<1>7. ASSUME RotTop PROVE IInv'
  BY <1>7, RotTopKeeps
<1>8. ASSUME NEW wfi \in BOOLEAN, RotInstruction(wfi) PROVE IInv'
  BY <1>8, RotInstructionKeeps
<1>9. ASSUME UNCHANGED vars PROVE IInv'
  BY <1>9 DEF vars, clocks, debug, shared, serve, rot, hist, IInv, TypeOK, FrozenShort, OffAtZero,
              SpNeverAhead, RotNeverAhead
<1> QED
  BY <1>1, <1>2, <1>3, <1>4, <1>5, <1>6, <1>7, <1>8, <1>9 DEF Next, SpThread, RotThread

(* The inductive invariant holds of every behaviour.                       *)
THEOREM Invariance == Spec => []IInv
  BY InitIInv, NextIInv, PTL DEF Spec

(* The clocks, credits and published counters keep their types: countdowns *)
(* within the reload value, credits at or below CREDIT_CAP.                *)
THEOREM TypeCorrect == Spec => []TypeOK
<1>1. IInv => TypeOK
  BY DEF IInv
<1> QED BY <1>1, Invariance, PTL

(* Whatever the interleaving of the serve loop, the RoT thread, SWD and    *)
(* resets, the SP's frozen clock never ticks more often than the RoT's.    *)
THEOREM SpClockBehind == Spec => []SpNeverAhead
<1>1. IInv => SpNeverAhead
  BY DEF IInv
<1> QED BY <1>1, Invariance, PTL

(* The RoT's frozen clock never gets ahead of the SP's instructions, for   *)
(* any pace of endoscope and any cap on the credit.                        *)
THEOREM RotClockBehind == Spec => []RotNeverAhead
<1>1. IInv => RotNeverAhead
  BY DEF IInv
<1> QED BY <1>1, Invariance, PTL
=============================================================================
