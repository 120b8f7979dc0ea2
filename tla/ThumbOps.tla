------------------------------ MODULE ThumbOps ------------------------------
(***************************************************************************)
(* The data half of the Cortex-M core (src/src/cpu.rs): what the           *)
(* arithmetic, logical, shift, multiply, extend and bit-field              *)
(* instructions write, the flags they set, the IT block, the addressing    *)
(* modes and the branch decoder.  Words are W bits wide (32 in the code),  *)
(* so the thresholds the code writes as 32, 31 and "top bit" are W, W - 1  *)
(* and 2^(W-1), a byte is W \div 4 bits and a halfword W \div 2.  One      *)
(* instruction is decoded by yaxpeax_arm (external), which this module     *)
(* represents by the fields of the record `in`.                            *)
(***************************************************************************)
EXTENDS Integers, Sequences, FiniteSets, Bitwise

CONSTANTS W,        \* bits of a word
          Accs      \* the values the accumulator registers start from

ASSUME WordAssumption == W \in {4, 8, 16} /\ Accs \subseteq 0 .. 2^W - 1

VARIABLES in,       \* the registers, flags and fields an instruction reads
          op,       \* the instruction executed, or "fetch" before it
          out       \* what it left: <<rd, rdhi>> and the flags

opVars == <<in, op, out>>

M == 2^W
Word == 0 .. M - 1
Sign == 2^(W - 1)
Byte == W \div 4
Half == W \div 2
\* `as i32` and the wrapping conversion back.
I(x) == IF x >= Sign THEN x - M ELSE x
U(x) == x % M
Inv(x) == M - 1 - x                      \* the `!` operator of u32
Bit(x, i) == (x \div 2^i) % 2
Low(x, bits) == x % 2^bits
Ones(bits) == 2^bits - 1

----------------------------------------------------------------------------
(* Flags, conditions and the IT block                                      *)

SetNZ(f, v) == [f EXCEPT !.n = v >= Sign, !.z = v = 0]

FlagsAdd(f, a, b) ==
    LET res == U(a + b)
    IN  [SetNZ(f, res) EXCEPT
            !.c = a + b >= M,
            !.v = Bit((a ^^ Inv(b)) & (a ^^ res), W - 1) = 1]

\* Mutant: C is the borrow, as on x86, instead of its complement.
FlagsSub_BorrowCarry(f, a, b) ==
    LET res == U(a - b)
    IN  [SetNZ(f, res) EXCEPT !.c = a < b, !.v = Bit((a ^^ b) & (a ^^ res), W - 1) = 1]

FlagsSub(f, a, b) ==
    LET res == U(a - b)
    IN  [SetNZ(f, res) EXCEPT
            !.c = ~(a < b),
            !.v = Bit((a ^^ b) & (a ^^ res), W - 1) = 1]

Conds == <<"EQ", "NE", "HS", "LO", "MI", "PL", "VS", "VC",
           "HI", "LS", "GE", "LT", "GT", "LE", "AL", "AL">>

CondFromBits(b) == Conds[(b % 16) + 1]

CondHolds(f, c) ==
    CASE c = "AL" -> TRUE
      [] c = "EQ" -> f.z            [] c = "NE" -> ~f.z
      [] c = "HS" -> f.c            [] c = "LO" -> ~f.c
      [] c = "MI" -> f.n            [] c = "PL" -> ~f.n
      [] c = "VS" -> f.v            [] c = "VC" -> ~f.v
      [] c = "HI" -> f.c /\ ~f.z    [] c = "LS" -> ~f.c \/ f.z
      [] c = "GE" -> f.n = f.v      [] c = "LT" -> f.n # f.v
      [] c = "GT" -> ~f.z /\ f.n = f.v
      [] c = "LE" -> f.z \/ f.n # f.v

NaN == 1000                              \* stands for any unordered value
\* VCMP: the flags of FPSCR that VMRS copies to the core.
FpCompare(f, a, b) ==
    CASE a = NaN \/ b = NaN -> [f EXCEPT !.n = FALSE, !.z = FALSE, !.c = TRUE, !.v = TRUE]
      [] a = b                  -> [f EXCEPT !.n = FALSE, !.z = TRUE, !.c = TRUE, !.v = FALSE]
      [] OTHER -> IF a < b
                  THEN [f EXCEPT !.n = TRUE, !.z = FALSE, !.c = FALSE, !.v = FALSE]
                  ELSE [f EXCEPT !.n = FALSE, !.z = FALSE, !.c = TRUE, !.v = FALSE]

\* ITSTATE as set by the IT instruction, and its step after each instruction.
ItSet(firstcond, mask) == firstcond * 16 + mask
\* Mutant: the shift stops below bit 4, so the condition's low bit never changes.
ItAdvance_KeepCond(it) == IF it % 8 = 0 THEN 0 ELSE (it \div 16) * 16 + ((it * 2) % 16)
ItAdvance(it) == IF it % 8 = 0 THEN 0 ELSE (it \div 32) * 32 + ((it * 2) % 32)
ItCond(it) == CondFromBits(it \div 16)
InIt(it) == it % 16 # 0

----------------------------------------------------------------------------
(* Data processing                                                         *)

AluOps == {"Add", "Adc", "Sub", "Sbc", "Rsb", "And", "Orr", "Orn", "Eor", "Bic"}

AluResult(o, a, b, cin) ==
    CASE o = "Add" -> U(a + b)          [] o = "Sub" -> U(a - b)
      [] o = "Rsb" -> U(b - a)          [] o = "Adc" -> U(U(a + b) + cin)
      [] o = "Sbc" -> U(U(a - b) - (1 - cin))
      [] o = "And" -> a & b             [] o = "Orr" -> a | b
      [] o = "Orn" -> a | Inv(b)        [] o = "Eor" -> a ^^ b
      [] o = "Bic" -> a & Inv(b)

\* Flags of an add with carry: r1 and r2 are the two overflowing_adds.
\* (the mutant before it forgets the carry out of the second one)
AddCarryFlags_OneCarry(f, a, b, cin, diff) ==
    LET r2 == U(a + b + cin)
    IN  [SetNZ(f, r2) EXCEPT !.c = a + b >= M, !.v = Bit(diff & (a ^^ r2), W - 1) = 1]

AddCarryFlags(f, a, b, cin, diff) ==
    LET r1 == U(a + b)
        r2 == U(r1 + cin)
    IN  [SetNZ(f, r2) EXCEPT !.c = a + b >= M \/ r1 + cin >= M,
                             !.v = Bit(diff & (a ^^ r2), W - 1) = 1]

AluFlags(o, f, a, b, cin) ==
    CASE o = "Add" -> FlagsAdd(f, a, b)
      [] o = "Sub" -> FlagsSub(f, a, b)
      [] o = "Rsb" -> FlagsSub(f, b, a)
      [] o = "Adc" -> AddCarryFlags(f, a, b, cin, a ^^ Inv(b))
      [] o = "Sbc" -> AddCarryFlags(f, a, Inv(b), cin, a ^^ b)
      [] OTHER     -> SetNZ(f, AluResult(o, a, b, cin))

\* ARM Shift_C: the shifted value and the last bit shifted out.
Shift_C(v, style, amt, cin) ==
    LET a == amt % W
        rot == (v \div 2^a) + Low(v, a) * 2^(W - a)
    IN  CASE style = "RRX" -> <<cin * Sign + (v \div 2), v % 2>>
          [] style # "RRX" /\ amt = 0 -> <<v, cin>>
          [] style = "LSL" /\ amt > 0 ->
                IF amt < W THEN <<U(v * 2^amt), Bit(v, W - amt)>>
                ELSE <<0, IF amt = W THEN v % 2 ELSE 0>>
          [] style = "LSR" /\ amt > 0 ->
                IF amt < W THEN <<v \div 2^amt, Bit(v, amt - 1)>>
                ELSE <<0, IF amt = W THEN Bit(v, W - 1) ELSE 0>>
          [] style = "ASR" /\ amt > 0 ->
                IF amt < W THEN <<U(I(v) \div 2^amt), Bit(v, amt - 1)>>
                ELSE <<U(I(v) \div Sign), Bit(v, W - 1)>>
          [] style = "ROR" /\ amt > 0 ->
                IF a = 0 THEN <<v, Bit(v, W - 1)>> ELSE <<rot, Bit(rot, W - 1)>>

RotateRight(v, n) == Shift_C(v, "ROR", n, 0)[1]

\* UXTB .. SXTAH: (masked ^ m) - m sign-extends from bit bits-1.
Extend(acc, v, rot, bits, signed) ==
    LET masked == Low(RotateRight(v, rot), bits)
        m == 2^(bits - 1)
    IN  U(acc + IF signed THEN (masked ^^ m) - m ELSE masked)

\* UXTB16 .. SXTAB16: byte 0 into the low halfword, byte 2 into the high.
Extend16(acc, v, rot, signed) ==
    LET r == RotateRight(v, rot)
        lane(x, sum) == (Extend(0, x, 0, Byte, signed) + sum) % 2^Half
    IN  lane(r \div 2^Half, acc \div 2^Half) * 2^Half + lane(r, Low(acc, Half))

Clz(v) == IF v = 0 THEN W ELSE W - 1 - CHOOSE i \in 0 .. W - 1 : 2^i <= v /\ v < 2^(i + 1)

Bytes(v) == [i \in 0 .. 3 |-> Low(v \div 2^(i * Byte), Byte)]
FromBytes(b) == b[0] + b[1] * 2^Byte + b[2] * 2^(2 * Byte) + b[3] * 2^(3 * Byte)
Rev(v) == LET b == Bytes(v) IN FromBytes([i \in 0 .. 3 |-> b[3 - i]])
Rev16(v) == LET b == Bytes(v) IN FromBytes([i \in 0 .. 3 |-> b[<<1, 0, 3, 2>>[i + 1]]])
Revsh(v) == Extend(0, Rev16(v), 0, Half, TRUE)
Rbit[i \in 0 .. W, v \in Word] ==
    IF i = 0 THEN 0 ELSE Bit(v, i - 1) * 2^(W - i) + Rbit[i - 1, v]

\* Bit fields: width is msb - lsb + 1, saturating, from the T1 encoding.
\* Mutant: the field ends one bit early.
FieldMask_Short(lsb, msb) == U(Ones(msb - lsb) * 2^lsb)

FieldMask(lsb, msb) ==
    LET width == (IF msb > lsb THEN msb - lsb ELSE 0) + 1
    IN  IF width >= W THEN M - 1 ELSE U(Ones(width) * 2^lsb)
Bfi(rd, rn, lsb, msb) ==
    LET mask == FieldMask(lsb, msb)
    IN  (rd & Inv(mask)) | (U(rn * 2^lsb) & mask)
Bfc(rd, lsb, msb) == rd & Inv(FieldMask(lsb, msb))
Ubfx(rn, lsb, width) ==
    (rn \div 2^lsb) & (IF width >= W THEN M - 1 ELSE Ones(width))
Sbfx(rn, lsb, width) ==
    LET shifted == rn \div 2^lsb
        m == 2^(width - 1)
    IN  IF width >= W THEN shifted ELSE U(((shifted & Ones(width)) ^^ m) - m)

\* PKHBT takes the low half of rn; PKHTB the high half (ASR #0 means #32).
Pkh(rn, rm, shift, tb) ==
    IF tb
    THEN LET amt == IF shift = 0 THEN W ELSE shift
             op2 == U(I(rm) \div 2^(IF amt < W THEN amt ELSE W - 1))
         IN  (rn \div 2^Half) * 2^Half + Low(op2, Half)
    ELSE LET op2 == U(rm * 2^(shift % W))
         IN  Low(rn, Half) + (op2 \div 2^Half) * 2^Half

\* The double-width products, as <<lo, hi>>.
Wide(p) == <<p % M, (p \div M) % M>>
Umull(n, m) == Wide(n * m)
Smull(n, m) == Wide(I(n) * I(m))
Umlal(n, m, lo, hi) == Wide(hi * M + lo + n * m)
Smlal(n, m, lo, hi) == Wide(I(hi) * M + lo + I(n) * I(m))
Umaal(n, m, lo, hi) == Wide(n * m + lo + hi)
Mla(n, m, a) == U(U(n * m) + a)
Mls(n, m, a) == U(a - U(n * m))
\* SMLABB .. SMLATT: the selected signed halfwords.
Smla(n, m, a, ntop, mtop) ==
    LET sel(v, top) == LET h == IF top THEN v \div 2^Half ELSE Low(v, Half)
                       IN  IF h >= 2^(Half - 1) THEN h - 2^Half ELSE h
    IN  U(sel(n, ntop) * sel(m, mtop) + a)
\* Division truncates towards zero; a zero divisor gives zero.
Quot(a, b) == LET abs(x) == IF x < 0 THEN -x ELSE x
                  q == abs(a) \div abs(b)
              IN  IF (a < 0) = (b < 0) THEN q ELSE -q
Udiv(a, b) == IF b = 0 THEN 0 ELSE a \div b
Sdiv(a, b) == IF b = 0 THEN 0 ELSE U(Quot(I(a), I(b)))

----------------------------------------------------------------------------
(* Addressing and branches                                                 *)

\* A 32-bit load/store decoded from its raw T4 bits: <<address, base after>>.
\* (the mutant before it accesses the updated address of a post-indexed form)
MemAddr32_PostUpdated(base, imm, p, u, w) ==
    LET off_addr == U(IF u THEN base + imm ELSE base - imm)
    IN  <<off_addr, IF w \/ ~p THEN off_addr ELSE base>>

MemAddr32(base, imm, p, u, w) ==
    LET off_addr == U(IF u THEN base + imm ELSE base - imm)
    IN  <<IF p THEN off_addr ELSE base, IF w \/ ~p THEN off_addr ELSE base>>

\* The same access resolved from the decoder's operand.
MemAddr(operand, base, off, add, wback) ==
    LET ea == U(IF add THEN base + off ELSE base - off)
    IN  CASE operand = "RegDeref"  -> <<base, base>>
          [] operand = "Preindex"  -> <<ea, IF wback THEN ea ELSE base>>
          [] operand = "Postindex" -> <<base, ea>>

\* LDM/STM: address of each listed register, and the base written back.
BlockTransfer(base, mask, add, pre) ==
    LET count == Cardinality(mask)
        first == CASE add /\ ~pre  -> base
                   [] add /\ pre   -> base + 4
                   [] ~add /\ pre  -> base - 4 * count
                   [] ~add /\ ~pre -> base - 4 * count + 4
    IN  [addr  |-> [i \in mask |-> first + 4 * Cardinality({j \in mask : j < i})],
         wback |-> IF add THEN base + 4 * count ELSE base - 4 * count]

SignExt(x, bits) == IF Bit(x, bits - 1) = 1 THEN x - 2^bits ELSE x

\* Target of a branch, from the fields of its encoding, relative to pc + 4.
ThumbBranchOffset(e) ==
    CASE e.form = "T1" -> 2 * SignExt(e.imm8, 8)
      [] e.form = "T2" -> 2 * SignExt(e.imm11, 11)
      [] e.form = "T3" -> SignExt(e.s * 2^20 + e.j2 * 2^19 + e.j1 * 2^18
                                  + e.imm6 * 2^12 + e.imm11 * 2, 21)
      [] e.form = "T4" ->
            LET i1 == 1 - ((e.j1 + e.s) % 2)
                i2 == 1 - ((e.j2 + e.s) % 2)
            IN  SignExt(e.s * 2^24 + i1 * 2^23 + i2 * 2^22
                        + e.imm10 * 2^12 + e.imm11 * 2, 25)
      [] e.form = "CBZ" -> 2 * (e.i * 32 + e.imm5)

----------------------------------------------------------------------------
(* One instruction                                                         *)

\* inst.s, with the implicit S of a 16-bit encoding suppressed in an IT block.
SetsFlags(s, in_it, len) == s /\ ~(in_it /\ len = 2)
Encodings == {<<TRUE, FALSE, 2>>, <<TRUE, TRUE, 2>>, <<TRUE, TRUE, 4>>, <<FALSE, FALSE, 4>>}
Carry == IF in.f.c THEN 1 ELSE 0

Writes(o, rd, hi, f) == op' = o /\ out' = [rd |-> rd, hi |-> hi, f |-> f] /\ UNCHANGED in

\* ADD .. BIC through alu().
DataProc ==
    \E o \in AluOps, e \in Encodings :
        /\ in.class = "alu"
        /\ LET sets == SetsFlags(e[1], e[2], e[3])
               f    == AluFlags(o, in.f, in.n, in.m, Carry)
           IN  Writes(<<o, sets>>, AluResult(o, in.n, in.m, Carry), 0, IF sets THEN f ELSE in.f)

\* CMP, CMN, TST and TEQ write flags only, in an IT block too.
Compare ==
    \E o \in {"CMP", "CMN", "TST", "TEQ"} :
        /\ in.class = "alu"
        /\ Writes(<<o>>, in.n, 0,
                  CASE o = "CMP" -> FlagsSub(in.f, in.n, in.m)
                    [] o = "CMN" -> FlagsAdd(in.f, in.n, in.m)
                    [] o = "TST" -> SetNZ(in.f, in.n & in.m)
                    [] o = "TEQ" -> SetNZ(in.f, in.n ^^ in.m))

\* LSL .. ROR by the low byte of a register, and RRX.
ShiftOp ==
    \E style \in {"LSL", "LSR", "ASR", "ROR", "RRX"}, e \in Encodings :
        /\ in.class = "alu"
        /\ LET sh == Shift_C(in.n, style, in.m % 256, Carry)
           IN  Writes(<<style>>, sh[1], 0,
                      IF SetsFlags(e[1], e[2], e[3])
                      THEN [SetNZ(in.f, sh[1]) EXCEPT !.c = sh[2] = 1] ELSE in.f)

\* MUL .. SMLAxy and the divisions; lo and hi are the accumulators.
Multiply ==
    \E o \in {"MUL", "MLA", "MLS", "UMULL", "SMULL", "UMLAL", "SMLAL", "UMAAL",
              "UDIV", "SDIV", "SMLABB", "SMLABT", "SMLATB", "SMLATT"} :
        /\ in.class = "mul"
        /\ LET two(p)  == Writes(<<o>>, p[1], p[2], in.f)
               one(v)  == Writes(<<o>>, v, 0, in.f)
           IN  CASE o = "MUL"   -> Writes(<<o>>, U(in.n * in.m), 0, SetNZ(in.f, U(in.n * in.m)))
                 [] o = "MLA"   -> one(Mla(in.n, in.m, in.lo))
                 [] o = "MLS"   -> one(Mls(in.n, in.m, in.lo))
                 [] o = "UMULL" -> two(Umull(in.n, in.m))
                 [] o = "SMULL" -> two(Smull(in.n, in.m))
                 [] o = "UMLAL" -> two(Umlal(in.n, in.m, in.lo, in.hi))
                 [] o = "SMLAL" -> two(Smlal(in.n, in.m, in.lo, in.hi))
                 [] o = "UMAAL" -> two(Umaal(in.n, in.m, in.lo, in.hi))
                 [] o = "UDIV"  -> one(Udiv(in.n, in.m))
                 [] o = "SDIV"  -> one(Sdiv(in.n, in.m))
                 [] OTHER -> one(Smla(in.n, in.m, in.lo, o \in {"SMLATB", "SMLATT"},
                                                          o \in {"SMLABT", "SMLATT"}))

\* MVN, MOVT, CLZ and the byte and bit reversals of m.
Unary ==
    \E o \in {"MVN", "MOVT", "CLZ", "REV", "REV16", "REVSH", "RBIT"} :
        /\ in.class = "mul"
        /\ Writes(<<o>>,
                  CASE o = "MVN"   -> Inv(in.m)
                    [] o = "MOVT"  -> Low(in.lo, Half) + Low(in.m, Half) * 2^Half
                    [] o = "CLZ"   -> Clz(in.m)
                    [] o = "REV"   -> Rev(in.m)
                    [] o = "REV16" -> Rev16(in.m)
                    [] o = "REVSH" -> Revsh(in.m)
                    [] o = "RBIT"  -> Rbit[W, in.m], 0, in.f)

\* UXTB .. SXTAB16; the A forms add n.
ExtendOp ==
    \E dual, signed, add \in BOOLEAN, rot \in {0, Byte, 2 * Byte, 3 * Byte}, bits \in {Byte, Half} :
        /\ in.class = "alu"
        /\ LET acc == IF add THEN in.n ELSE 0
           IN  Writes(<<"EXT", dual, signed, add, rot, bits>>,
                      IF dual THEN Extend16(acc, in.m, rot, signed)
                      ELSE Extend(acc, in.m, rot, bits, signed), 0, in.f)

\* BFI, BFC, UBFX, SBFX, PKHBT and PKHTB with the fields of their encoding.
FieldOp ==
    \E o \in {"BFI", "BFC", "UBFX", "SBFX", "PKHBT", "PKHTB"}, lsb, msb \in 0 .. W - 1 :
        /\ in.class = "alu" /\ lsb <= msb
        /\ Writes(<<o, lsb, msb>>,
                  CASE o = "BFI"   -> Bfi(in.n, in.m, lsb, msb)
                    [] o = "BFC"   -> Bfc(in.n, lsb, msb)
                    [] o = "UBFX"  -> Ubfx(in.m, lsb, msb - lsb + 1)
                    [] o = "SBFX"  -> Sbfx(in.m, lsb, msb - lsb + 1)
                    [] o = "PKHBT" -> Pkh(in.n, in.m, lsb, FALSE)
                    [] o = "PKHTB" -> Pkh(in.n, in.m, lsb, TRUE), 0, in.f)

\* VCMP followed by VMRS APSR_nzcv.
FloatCompare ==
    \E a, b \in {NaN, -1, 0, 1} :
        /\ in.class = "ctl"
        /\ Writes(<<"VCMP", a, b>>, 0, 0, FpCompare(in.f, a, b))

\* IT and the instructions of its block, each executed and then advanced past:
\* out.rd is the sequence of conditions they ran under.
ItRun[it \in 0 .. 255] == IF InIt(it) THEN <<ItCond(it)>> \o ItRun[ItAdvance(it)] ELSE <<>>
ItBlock ==
    \E cond \in 0 .. 13, mask \in 1 .. 15 :
        /\ in.class = "ctl"
        /\ Writes(<<"IT", cond, mask>>, ItRun[ItSet(cond, mask)], 0, in.f)

\* A load or store whose base is n and whose offset is m.
Access ==
    \E p, u, w \in BOOLEAN :
        /\ in.class = "alu" /\ (p \/ w)
        /\ Writes(<<"MEM", p, u, w>>, MemAddr32(in.n, in.m, p, u, w), 0, in.f)

\* STM and LDM of a register list.
Block ==
    \E add, pre \in BOOLEAN, mask \in SUBSET (0 .. 4) :
        /\ in.class = "ctl"
        /\ Writes(<<"LDM", add, pre, mask>>, BlockTransfer(100, mask, add, pre), 0, in.f)

\* B, BL, CBZ: the fields of every encoding the bound offsets produce.
Fields(form) ==
    LET B01 == {0, 1}
        Edge(bits) == {0, 1, 2^(bits - 1) - 1, 2^(bits - 1), 2^bits - 1}
    IN  CASE form = "T1"  -> [form : {form}, imm8 : Edge(8)]
          [] form = "T2"  -> [form : {form}, imm11 : Edge(11)]
          [] form = "T3"  -> [form : {form}, s : B01, j1 : B01, j2 : B01, imm6 : Edge(6), imm11 : Edge(11)]
          [] form = "T4"  -> [form : {form}, s : B01, j1 : B01, j2 : B01, imm10 : Edge(10), imm11 : Edge(11)]
          [] form = "CBZ" -> [form : {form}, i : B01, imm5 : Edge(5)]
Branch ==
    \E form \in {"T1", "T2", "T3", "T4", "CBZ"} : \E e \in Fields(form) :
        /\ in.class = "ctl"
        /\ Writes(<<"B", e>>, ThumbBranchOffset(e), 0, in.f)

Flag0 == [n |-> FALSE, z |-> FALSE, c |-> FALSE, v |-> FALSE]
FlagsIn == {Flag0, [Flag0 EXCEPT !.c = TRUE]}

ThumbInit ==
    /\ in \in [class : {"alu"}, n : Word, m : Word, lo : {0}, hi : {0}, f : FlagsIn]
              \cup [class : {"mul"}, n : Word, m : Word, lo : Accs, hi : Accs, f : {Flag0}]
              \cup [class : {"ctl"}, n : {0}, m : {0}, lo : {0}, hi : {0}, f : {Flag0}]
    /\ op = <<"fetch">>
    /\ out = [rd |-> 0, hi |-> 0, f |-> in.f]

ThumbNext ==
    /\ op = <<"fetch">>
    /\ \/ DataProc \/ Compare \/ ShiftOp \/ Multiply \/ Unary \/ ExtendOp \/ FieldOp
       \/ FloatCompare \/ ItBlock \/ Access \/ Block \/ Branch


----------------------------------------------------------------------------
(* Properties                                                              *)

\* After CMP, or VCMP and VMRS, each condition of cond_holds is the comparison
\* it names: HS/LO/HI/LS order the operands as unsigned, GE/LT/GT/LE as signed
\* words, and an unordered float operand is neither less nor greater.
ConditionsMeanComparison ==
    LET holds(c) == CondHolds(out.f, c)
        orders(eq, ltu, lts) ==
            /\ holds("EQ") = eq            /\ holds("NE") = ~eq
            /\ holds("LO") = ltu           /\ holds("HS") = ~ltu
            /\ holds("HI") = ~(ltu \/ eq)  /\ holds("LS") = (ltu \/ eq)
            /\ holds("LT") = lts           /\ holds("GE") = ~lts
            /\ holds("GT") = ~(lts \/ eq)  /\ holds("LE") = (lts \/ eq)
    IN  /\ op[1] = "CMP" => orders(in.n = in.m, in.n < in.m, I(in.n) < I(in.m))
        /\ op[1] = "VCMP" =>
              IF NaN \in {op[2], op[3]}
              THEN /\ holds("VS") /\ holds("NE") /\ ~holds("GE") /\ ~holds("GT")
                   /\ ~holds("MI") /\ ~holds("LS")
              ELSE orders(op[2] = op[3], op[2] < op[3], op[2] < op[3])

\* Every arithmetic instruction writes the integer result reduced to its width:
\* C is the carry (no borrow) of the exact sum, V says that the signed sum does
\* not fit, and the long forms lose nothing of the product and accumulators.
\* A division leaves a remainder smaller than its divisor and of the sign of the
\* dividend; by zero it gives zero, and the one quotient too large, that of the
\* most negative number by -1, wraps.
ArithmeticIsExact ==
    LET sum(a, b, c) ==
            /\ out.rd = (a + b + c) % M
            /\ op[2] => /\ out.f.c = (a + b + c >= M)
                        /\ out.f.v = (I(a) + I(b) + c \notin -Sign .. Sign - 1)
                        /\ out.f.n = (I(out.rd) < 0) /\ out.f.z = (out.rd = 0)
        pair == out.hi * M + out.rd
        MM == M * M
    IN  CASE op[1] = "Add" -> sum(in.n, in.m, 0)
          [] op[1] = "Adc" -> sum(in.n, in.m, Carry)
          [] op[1] = "Sub" -> sum(in.n, Inv(in.m), 1)
          [] op[1] = "Rsb" -> sum(in.m, Inv(in.n), 1)
          [] op[1] = "Sbc" -> sum(in.n, Inv(in.m), Carry)
          [] op[1] = "MLA" -> out.rd = (in.n * in.m + in.lo) % M
          [] op[1] = "MLS" -> out.rd = (in.lo - in.n * in.m) % M
          [] op[1] = "UMULL" -> pair = in.n * in.m
          [] op[1] = "SMULL" -> pair = (I(in.n) * I(in.m)) % MM
          [] op[1] = "UMLAL" -> pair = (in.n * in.m + in.hi * M + in.lo) % MM
          [] op[1] = "SMLAL" -> pair = (I(in.n) * I(in.m) + in.hi * M + in.lo) % MM
          [] op[1] = "UMAAL" -> pair = in.n * in.m + in.lo + in.hi
          [] op[1] \in {"UDIV", "SDIV"} /\ in.m = 0 -> out.rd = 0
          [] op[1] = "SDIV" /\ in.n = Sign /\ in.m = M - 1 -> out.rd = Sign
          [] op[1] = "UDIV" /\ in.m # 0 -> in.n - out.rd * in.m \in 0 .. in.m - 1
          [] op[1] = "SDIV" /\ in.m # 0 /\ ~(in.n = Sign /\ in.m = M - 1) ->
                LET r == I(in.n) - I(out.rd) * I(in.m)
                IN  /\ r * r < I(in.m) * I(in.m) /\ r * I(in.n) >= 0
          [] OTHER -> TRUE

\* The reference: shift by one bit, amt times, keeping the last bit shifted out.
ByOne[amt \in 0 .. 2^W, style \in {"LSL", "LSR", "ASR", "ROR"}, v \in Word, c \in {0, 1}] ==
    IF amt = 0 THEN <<v, c>>
    ELSE LET p == ByOne[amt - 1, style, v, c][1]
         IN  CASE style = "LSL" -> <<U(2 * p), Bit(p, W - 1)>>
               [] style = "LSR" -> <<p \div 2, p % 2>>
               [] style = "ASR" -> <<(p \div 2) + Bit(p, W - 1) * Sign, p % 2>>
               [] style = "ROR" -> <<(p \div 2) + (p % 2) * Sign, p % 2>>

\* shift_c is the one-bit shift iterated, for amounts at, below and beyond the
\* word width; the bit-field and packing instructions move exactly the bits
\* their encoding names and keep every other bit of the destination.
ShiftsAndFieldsMoveBits ==
    LET bit(i) == Bit(out.rd, i)
        field(o, Src(_, _)) == op[1] = o => \A i \in 0 .. W - 1 : bit(i) = Src(i, op[2])
        inside(i) == i \in op[2] .. op[3]
        wide(i) == i <= op[3] - op[2]
    IN  /\ op[1] \in {"LSL", "LSR", "ASR", "ROR"} =>
              LET ref == ByOne[in.m % 256, op[1], in.n, Carry]
              IN  out.rd = ref[1] /\ (out.f # in.f => out.f.c = (ref[2] = 1))
        /\ field("BFI",   LAMBDA i, l : IF inside(i) THEN Bit(in.m, i - l) ELSE Bit(in.n, i))
        /\ field("BFC",   LAMBDA i, l : IF inside(i) THEN 0 ELSE Bit(in.n, i))
        /\ field("UBFX",  LAMBDA i, l : IF wide(i) THEN Bit(in.m, i + l) ELSE 0)
        /\ field("SBFX",  LAMBDA i, l : IF wide(i) THEN Bit(in.m, i + l) ELSE Bit(in.m, op[3]))
        /\ field("PKHBT", LAMBDA i, l : IF i < Half THEN Bit(in.n, i)
                                        ELSE IF i >= l THEN Bit(in.m, i - l) ELSE 0)
        /\ field("PKHTB", LAMBDA i, l : IF i >= Half THEN Bit(in.n, i)
                                        ELSE LET a == IF l = 0 THEN W ELSE l
                                             IN  Bit(in.m, IF i + a < W THEN i + a ELSE W - 1))
        /\ field("REV",   LAMBDA i, l : Bit(in.m, (3 - (i \div Byte)) * Byte + (i % Byte)))
        /\ op[1] = "RBIT" => \A i \in 0 .. W - 1 : bit(i) = Bit(in.m, W - 1 - i)

\* An IT instruction makes conditional the one to four instructions its mask
\* gives (the position of the mask's lowest set bit), each under firstcond or,
\* where the mask bit differs from firstcond's low bit, under its inverse; the
\* block then ends.
ItBlockFollowsMask ==
    op[1] = "IT" =>
        LET len == CHOOSE k \in 1 .. 4 : op[3] % 2^(4 - k) = 0 /\ Bit(op[3], 4 - k) = 1
        IN  /\ Len(out.rd) = len
            /\ out.rd[1] = CondFromBits(op[2])
            /\ \A k \in 2 .. len :
                  out.rd[k] = CondFromBits((op[2] \div 2) * 2 + Bit(op[3], 5 - k))

\* The two decoders of an indexed access, from raw bits and from the operand,
\* agree on the address and the writeback; POP reads back in order exactly
\* what PUSH stored and restores the stack pointer; every LDM/STM mode touches
\* consecutive words next to the base; and no two encodings of a wide branch
\* that differ only in J1/J2 reach the same target.
AddressesAgree ==
    /\ op[1] = "MEM" =>
          out.rd = MemAddr(IF op[2] THEN "Preindex" ELSE "Postindex", in.n, in.m, op[3], op[4])
    /\ op[1] = "LDM" =>
          LET mask == op[4]
              n == Cardinality(mask)
              push == BlockTransfer(100, mask, FALSE, TRUE)
              pop == BlockTransfer(push.wback, mask, TRUE, FALSE)
          IN  /\ pop.addr = push.addr /\ pop.wback = 100
              /\ {out.rd.addr[i] : i \in mask} =
                    LET lo == IF op[2] = op[3] THEN 4 ELSE 0
                        base == IF op[2] THEN 100 ELSE 100 - 4 * n
                    IN  {base + lo + 4 * k : k \in 0 .. n - 1}
              /\ \A i, j \in mask : i < j => out.rd.addr[i] < out.rd.addr[j]
    /\ op[1] = "B" /\ op[2].form = "T4" =>
          LET e == op[2]
          IN  /\ \A j1, j2 \in {0, 1} :
                    ThumbBranchOffset([e EXCEPT !.j1 = j1, !.j2 = j2]) = out.rd
                        <=> j1 = e.j1 /\ j2 = e.j2
              /\ (out.rd < 0) = (e.s = 1)
              \* with J1 = J2 = 1 the 25-bit form is the 23-bit one of ARMv4T
              /\ e.j1 = 1 /\ e.j2 = 1 =>
                    out.rd = SignExt(e.s * 2^22 + e.imm10 * 2^12 + e.imm11 * 2, 23)
=============================================================================
