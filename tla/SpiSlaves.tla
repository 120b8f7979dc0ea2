------------------------------ MODULE SpiSlaves -------------------------------
(***************************************************************************)
(* The SP's SPI controllers with their slaves (src/src/soc.rs): SPI4 with  *)
(* a KSZ8463 switch, SPI2 of a sidecar with a VSC7448 switch and its MIIM  *)
(* bridge, SPI2 of a gimlet shared between the sequencer FPGA and a KSZ    *)
(* by chip select, SPI5 with the mainboard FPGA, its Tofino sequencer and  *)
(* debug port.  The controllers are independent: a behaviour has one.      *)
(*                                                                         *)
(* A byte has two bits, an address two bytes; the write flag of a header   *)
(* is worth 4.  KSZ words keep their two bytes, VSC words their four.  A   *)
(* four-byte field of a debug-port request is one byte.                    *)
(***************************************************************************)
EXTENDS Integers, Sequences, SequencesExt

CONSTANTS
  Controllers,  \* subset of {"spi4", "spi2", "vsc", "spi5"}
  Lead,         \* bound: bytes the driver sends ahead of those it fetches
  MaxQueue      \* bound: bytes waiting in a debug-port buffer

ASSUME SpiAssumption ==
  Controllers \subseteq {"spi4", "spi2", "vsc", "spi5"} /\ Lead \in Nat \ {0} /\ MaxQueue \in Nat

SpiByte  == 0..3
WriteBit == 4
NAddr    == 6                             \* an address is 3 * high byte + low byte
OpRead   == 1
OpWrite  == 0
BitSet   == 2
BitClear == 3
WriteNoAddrIncr == 5
ReadNoAddrIncr  == 6
Reads(op) == op \in {OpRead, ReadNoAddrIncr}

Zeros(n) == [i \in 1..n |-> 0]

VARIABLES
  spi,   \* the controller and its slave's framing state
  sdev,  \* the slave's registers
  sdrv   \* the firmware's driver: the command under way and what it got back

spiVars == <<spi, sdev, sdrv>>

-----------------------------------------------------------------------------
(* The slaves' registers                                                   *)

(* Chip identities and status bits read as constants, whatever is written. *)
ID == 0
ChipId == <<2, 1, 3, 1>>

KszRead(d, a) == IF a = ID THEN SubSeq(ChipId, 1, 2) ELSE d.word[a]

(* VSC7448                                                                 *)
RAM_INIT == 1
MII_CMD  == 2
MII_DATA == 3

VscRead(d, a) ==
  CASE a = ID -> ChipId
    [] a = MII_DATA -> <<0, 0, 0, d.mii_data>>
    [] OTHER -> d.word[a]

(* The PHY behind the MIIM bridge: registers 0 and 1 on two pages, and the *)
(* page register.  Register 0 of page 0 has a reset bit that clears        *)
(* itself; of page 1 it takes commands, of which 3 computes the checksum.  *)
PAGE == 2
PhyCrc == 3
PhyRead(d, r) == IF r = PAGE THEN d.page ELSE IF d.page = 0 /\ r = 1 THEN 1 ELSE d.phy[d.page][r]
PhyWrite(d, r, v) ==
  CASE r = PAGE -> [d EXCEPT !.page = v % 2]
    [] r = 0 /\ d.page = 0 -> [d EXCEPT !.phy[0][0] = v % 2]
    [] r = 0 /\ d.page = 1 -> [d EXCEPT !.phy[1][0] = 0, !.phy[1][1] = IF v = 3 THEN PhyCrc ELSE @]
    [] OTHER -> [d EXCEPT !.phy[d.page][r] = v]

(* A command word: VLD, OPR, REGAD, WRDATA.                                *)
MiiCmd(d, v) ==
  CASE v[1] = 0 -> d
    [] v[1] # 0 /\ v[2] = 1 -> PhyWrite(d, v[3], v[4])
    [] v[1] # 0 /\ v[2] = 2 -> [d EXCEPT !.mii_data = PhyRead(d, v[3])]
    [] OTHER -> d

(* The RAM_INIT and MCB strobes read back clear.                           *)
VscWrite(d, a, v) ==
  LET e == IF a = MII_CMD THEN MiiCmd(d, v) ELSE d
  IN [e EXCEPT !.word[a] = IF a = RAM_INIT THEN [v EXCEPT ![1] = 0] ELSE v]

(* FPGAs: byte registers with set and clear operations.                    *)
BitAt(x, i) == (x \div 2^i) % 2
Merge(op, cur, b) ==
  LET On(i) == CASE op = BitSet   -> BitAt(cur, i) = 1 \/ BitAt(b, i) = 1
                 [] op = BitClear -> BitAt(cur, i) = 1 /\ BitAt(b, i) = 0
                 [] OTHER         -> BitAt(b, i) = 1
  IN (IF On(0) THEN 1 ELSE 0) + (IF On(1) THEN 2 ELSE 0)

SeqRead(d, a) == IF a = ID THEN ChipId[1] ELSE d.byte[a]
SeqPut(d, op, a, b) == [d EXCEPT !.byte[a] = Merge(op, @, b)]

(* The mainboard FPGA: SEQ_CTRL has EN (2) and command bits (1).  STATE is *)
(* A2 (1) or A0 (2).                                                       *)
SEQ_CTRL  == 2
SEQ_STATE == 3
DBG_BUF   == 4
DBG_STATE == 5

TofinoSeqCtrlWritten(d) ==
  LET en == BitAt(d.byte[SEQ_CTRL], 1)
  IN [d EXCEPT !.byte[SEQ_CTRL] = 2 * en, !.byte[SEQ_STATE] = 1 + en]

(* Opcode, address, and for a DirectWrite (2) the value.                   *)
TofinoDebugRequest(d) ==
  LET q == d.req
      e == CASE Len(q) >= 2 /\ q[1] = 1 -> [d EXCEPT !.resp = Append(@, d.tofino[q[2] % 2])]
             [] Len(q) >= 3 /\ q[1] = 2 -> [d EXCEPT !.tofino[q[2] % 2] = q[3]]
             [] OTHER -> d
  IN [e EXCEPT !.req = <<>>, !.byte[DBG_STATE] = 1]

FpgaPut(d, op, a, b) ==
  IF a = DBG_BUF THEN [d EXCEPT !.req = Append(@, b)]
  ELSE LET nv == Merge(op, d.byte[a], b)
           e == [d EXCEPT !.byte[a] = nv]
       IN CASE a = SEQ_CTRL -> TofinoSeqCtrlWritten(e)
            [] a = DBG_STATE /\ BitAt(nv, 1) = 1 -> TofinoDebugRequest(e)
            [] OTHER -> e

FpgaGet(d, a) == IF a # DBG_BUF THEN d.byte[a] ELSE IF d.resp = <<>> THEN 0 ELSE Head(d.resp)
FpgaGot(d, a) == IF a = DBG_BUF /\ d.resp # <<>> THEN [d EXCEPT !.resp = Tail(@)] ELSE d

-----------------------------------------------------------------------------
(* One byte on the wire, by its position: the slave's state, its registers *)
(* and the byte that comes back.                                           *)
Done(s, d, out) == [s |-> [s EXCEPT !.idx = @ + 1], d |-> d, out |-> out]

KszByte(s, d, b) ==
  LET pos == s.idx % 4
      a == 3 * (s.hi % WriteBit) + b
  IN CASE pos = 0 -> Done([s EXCEPT !.hi = b], d, 0)
       [] pos = 1 -> Done([s EXCEPT !.addr = a, !.is_write = s.hi >= WriteBit, !.val = KszRead(d, a)], d, 0)
       [] pos = 2 -> IF s.is_write THEN Done([s EXCEPT !.wval = <<b>>], d, 0) ELSE Done(s, d, s.val[1])
       [] pos = 3 -> IF s.is_write THEN Done(s, [d EXCEPT !.word[s.addr] = <<s.wval[1], b>>], 0)
                     ELSE Done(s, d, s.val[2])

(* Three address bytes; a read has a pad byte before its data.             *)
VscByte(s, d, b) ==
  LET pos == s.idx
      a == 3 * s.hi + b
      w == [s.wval EXCEPT ![pos - 2] = b]
  IN CASE pos = 0 -> Done([s EXCEPT !.is_write = b >= WriteBit], d, 0)
       [] pos = 1 -> Done([s EXCEPT !.hi = b], d, 0)
       [] pos = 2 -> Done([s EXCEPT !.addr = a, !.val = IF s.is_write THEN @ ELSE VscRead(d, a)], d, 0)
       [] pos > 2 /\ s.is_write -> Done([s EXCEPT !.wval = w], IF pos = 6 THEN VscWrite(d, s.addr, w) ELSE d, 0)
       [] OTHER -> Done(s, d, IF pos = 3 THEN 0 ELSE s.val[pos - 3])

SeqByte(s, d, b) ==
  LET a == (s.addr + s.idx - 3) % NAddr
  IN CASE s.idx = 0 -> Done([s EXCEPT !.op = b], d, 0)
       [] s.idx = 1 -> Done([s EXCEPT !.addr = 3 * b], d, 0)
       [] s.idx = 2 -> Done([s EXCEPT !.addr = @ + b], d, 0)
       [] OTHER -> IF s.op = OpRead THEN Done(s, d, SeqRead(d, a)) ELSE Done(s, SeqPut(d, s.op, a, b), 0)

(* SPI2 of a gimlet: the chip select decides at the first byte.            *)
MuxByte(s, d, b) ==
  LET t == IF s.idx = 0 THEN [s EXCEPT !.target = s.cs] ELSE s
  IN CASE t.target = "seq" -> SeqByte(t, d, b)
       [] t.target = "ksz" -> KszByte(t, d, b)
       [] OTHER -> Done(t, d, 0)

FpgaAddr(s) == (s.addr + (IF s.op \in {WriteNoAddrIncr, ReadNoAddrIncr} THEN 0 ELSE s.dpos)) % NAddr
NextData(s, d) ==
  [s |-> [s EXCEPT !.dpos = @ + 1], d |-> FpgaGot(d, FpgaAddr(s)), out |-> FpgaGet(d, FpgaAddr(s))]

(* The index stops after the header, data is counted apart.                *)
FpgaByte(s0, d, b) ==
  LET s == [s0 EXCEPT !.xfer_cnt = @ + 1]
  IN CASE s.idx = 0 -> Done([s EXCEPT !.op = b], d, 0)
       [] s.idx = 1 -> Done([s EXCEPT !.addr = 3 * b], d, 0)
       [] s.idx = 2 -> Done([s EXCEPT !.addr = @ + b], d, 0)
       [] OTHER -> IF Reads(s.op) THEN NextData(s, d)
                   ELSE [s |-> [s EXCEPT !.dpos = @ + 1], d |-> FpgaPut(d, s.op, FpgaAddr(s), b), out |-> 0]

XferByte(s, d, b) ==
  CASE s.kind = "spi4" -> KszByte(s, d, b)
    [] s.kind = "vsc"  -> VscByte(s, d, b)
    [] s.kind = "spi2" -> MuxByte(s, d, b)
    [] s.kind = "spi5" -> FpgaByte(s, d, b)

(* SPE 0 -> 1 starts a transaction, except on SPI5, where a command spans  *)
(* two of them and the chip select delimits it.                            *)
StartSpe(s) ==
  IF s.kind = "spi5" THEN [s EXCEPT !.spe = TRUE]
  ELSE [s EXCEPT !.spe = TRUE, !.idx = IF s.spe THEN @ ELSE 0, !.rx = IF s.spe THEN @ ELSE <<>>,
                 !.wval = IF s.kind = "vsc" /\ ~s.spe THEN Zeros(4) ELSE @,
                 !.is_write = IF s.kind = "vsc" /\ ~s.spe THEN FALSE ELSE @]

CheckCs_KeepData(s) ==
  IF s.kind # "spi5" \/ s.gen = s.last_gen THEN s
  ELSE [s EXCEPT !.idx = 0, !.rx = <<>>, !.op = 0, !.addr = 0, !.xfer_cnt = 0, !.last_gen = s.gen]
CheckCs(s) ==
  IF s.kind # "spi5" \/ s.gen = s.last_gen THEN s
  ELSE [s EXCEPT !.idx = 0, !.dpos = 0, !.rx = <<>>, !.op = 0, !.addr = 0, !.xfer_cnt = 0,
                 !.last_gen = s.gen]

(* SR: end of transfer                                                     *)
SpiEot(s) == (IF s.kind = "spi5" THEN s.xfer_cnt ELSE s.idx) >= IF s.tsize > 0 THEN s.tsize ELSE 1

-----------------------------------------------------------------------------
(* The driver.  A command names a slave, an operation, an address and the  *)
(* data to write, or as many zeros as bytes to read.                       *)

Cmd(slave, op, a, data) == [slave |-> slave, op |-> op, addr |-> a, data |-> data]

KszCmds == {Cmd("ksz", OpRead, a, Zeros(2)) : a \in {ID, 1}} \cup
           {Cmd("ksz", OpWrite, 1, <<1, 2>>), Cmd("ksz", OpWrite, ID, <<0, 3>>)}
SeqCmds == {Cmd("seq", OpRead, ID, Zeros(2)), Cmd("seq", OpWrite, 1, <<1, 2>>),
            Cmd("seq", BitSet, 1, <<2>>), Cmd("seq", BitClear, 1, <<1>>)}
VscCmds == {Cmd("vsc", OpRead, a, Zeros(4)) : a \in {ID, RAM_INIT, MII_DATA}} \cup
           {Cmd("vsc", OpWrite, RAM_INIT, <<1, 0, 0, 2>>), Cmd("vsc", OpWrite, MII_CMD, <<0, 1, 1, 1>>)} \cup
           {Cmd("vsc", OpWrite, MII_CMD, <<1, 1, r, 3>>) : r \in {0, PAGE}} \cup
           {Cmd("vsc", OpWrite, MII_CMD, <<1, 2, 1, 0>>)}
FpgaCmds == {Cmd("fpga", OpRead, 1, Zeros(2)), Cmd("fpga", ReadNoAddrIncr, DBG_BUF, Zeros(1)),
             Cmd("fpga", OpWrite, 1, <<1, 3>>), Cmd("fpga", BitClear, SEQ_CTRL, <<2>>),
             Cmd("fpga", WriteNoAddrIncr, DBG_BUF, <<1, 1>>), Cmd("fpga", WriteNoAddrIncr, DBG_BUF, <<2, 1, 3>>),
             Cmd("fpga", OpWrite, DBG_STATE, <<2>>)}

Cmds(kind) == CASE kind = "spi4" -> KszCmds
                [] kind = "spi2" -> KszCmds \cup SeqCmds
                [] kind = "vsc"  -> VscCmds
                [] kind = "spi5" -> FpgaCmds

Flag(c)   == IF Reads(c.op) THEN 0 ELSE WriteBit
Hi(c)     == c.addr \div 3
Lo(c)     == c.addr % 3
Header(c) == CASE c.slave = "ksz" -> <<Flag(c) + Hi(c), Lo(c)>>
               [] c.slave = "vsc" -> <<Flag(c), Hi(c), Lo(c)>> \o (IF Reads(c.op) THEN <<0>> ELSE <<>>)
               [] OTHER -> <<c.op, Hi(c), Lo(c)>>
Wire(c)   == Header(c) \o c.data
NoCmd     == Cmd("none", OpRead, 0, <<>>)

SpiInit ==
  /\ \E k \in Controllers :
       spi = [kind |-> k, spe |-> FALSE, tsize |-> 0, idx |-> 0, rx |-> <<>>, xfer_cnt |-> 0,
              target |-> "none", cs |-> "none", gen |-> 0, last_gen |-> 0, op |-> 0, hi |-> 0,
              addr |-> 0, is_write |-> FALSE, val |-> Zeros(4), wval |-> Zeros(4), dpos |-> 0]
  /\ sdev = [word |-> [a \in 0..NAddr - 1 |-> IF spi.kind = "vsc" THEN Zeros(4) ELSE Zeros(2)],
             byte |-> [a \in 0..NAddr - 1 |-> IF spi.kind = "spi5" /\ a \in {SEQ_STATE, DBG_STATE} THEN 1 ELSE 0],
             page |-> 0, phy |-> [p \in 0..1 |-> [r \in 0..1 |-> 0]], mii_data |-> 0,
             req |-> <<>>, resp |-> <<>>, tofino |-> [a \in 0..1 |-> 0]]
  /\ sdrv = [cmd |-> NoCmd, sent |-> 0, got |-> <<>>, before |-> sdev]

(* The SPI server sets TSIZE and SPE, then asserts the chip select; of     *)
(* SPI5 it locks the chip select first.                                    *)
Begin(c) ==
  /\ sdrv.cmd = NoCmd
  /\ c.addr = DBG_BUF /\ c.op = WriteNoAddrIncr => Len(sdev.req) + Len(c.data) <= MaxQueue
  /\ c.addr = DBG_STATE => Len(sdev.resp) < MaxQueue
  /\ LET locked == IF spi.kind = "spi5" THEN [spi EXCEPT !.gen = 1 - @] ELSE spi
         sized == [CheckCs(locked) EXCEPT !.tsize = Len(Wire(c)), !.xfer_cnt = 0]
     IN spi' = [StartSpe(sized) EXCEPT !.cs = c.slave]
  /\ sdrv' = [cmd |-> c, sent |-> 0, got |-> <<>>, before |-> sdev]
  /\ UNCHANGED sdev

(* TXDR                                                                    *)
Transmit ==
  /\ sdrv.cmd # NoCmd /\ sdrv.sent < Len(Wire(sdrv.cmd)) /\ Len(spi.rx) < Lead
  /\ LET x == XferByte(CheckCs(spi), sdev, Wire(sdrv.cmd)[sdrv.sent + 1])
     IN spi' = [x.s EXCEPT !.rx = Append(@, x.out)] /\ sdev' = x.d
  /\ sdrv' = [sdrv EXCEPT !.sent = @ + 1]

(* RXDR with a byte waiting                                                *)
Receive ==
  /\ sdrv.cmd # NoCmd /\ spi.rx # <<>>
  /\ spi' = [spi EXCEPT !.rx = Tail(@)]
  /\ sdrv' = [sdrv EXCEPT !.got = Append(@, Head(spi.rx))]
  /\ UNCHANGED sdev

(* RXDR of SPI5 with none: the slave is clocked by the read itself.        *)
ReceiveOnly ==
  /\ sdrv.cmd # NoCmd /\ spi.kind = "spi5" /\ spi.rx = <<>> /\ sdrv.sent < Len(Wire(sdrv.cmd))
  /\ spi.idx >= 3 /\ Reads(spi.op)
  /\ LET x == NextData(spi, sdev)
     IN /\ spi' = [x.s EXCEPT !.xfer_cnt = @ + 1] /\ sdev' = x.d
        /\ sdrv' = [sdrv EXCEPT !.sent = @ + 1, !.got = Append(@, x.out)]

(* The transfer ends, or the task that drives it is restarted in the       *)
(* middle.                                                                 *)
EndTransfer ==
  /\ sdrv.cmd # NoCmd
  /\ spi' = [spi EXCEPT !.spe = FALSE, !.cs = "none"]
  /\ sdrv' = [sdrv EXCEPT !.cmd = NoCmd, !.sent = 0, !.got = <<>>, !.before = sdev]
  /\ UNCHANGED sdev

SpiNext == (\E c \in Cmds(spi.kind) : Begin(c)) \/ Transmit \/ Receive \/ ReceiveOnly \/ EndTransfer

-----------------------------------------------------------------------------
(* What a command does, said without bytes: a word is written at the last  *)
(* byte of its exchange, byte registers one after another.                 *)

AddrAt(c, i) == (c.addr + (IF c.op \in {WriteNoAddrIncr, ReadNoAddrIncr} THEN 0 ELSE i - 1)) % NAddr

Effect(c, d, n) ==
  LET data == [i \in 1..n |-> [a |-> AddrAt(c, i), b |-> c.data[i]]]
      Put(e, x) == IF c.slave = "seq" THEN SeqPut(e, c.op, x.a, x.b) ELSE FpgaPut(e, c.op, x.a, x.b)
      Take(e, x) == FpgaGot(e, x.a)
  IN CASE c.slave = "ksz" -> IF c.op = OpWrite /\ n = 2 THEN [d EXCEPT !.word[c.addr] = c.data] ELSE d
       [] c.slave = "vsc" -> IF c.op = OpWrite /\ n = 4 THEN VscWrite(d, c.addr, c.data) ELSE d
       [] Reads(c.op) -> IF c.slave = "seq" THEN d ELSE FoldLeft(Take, d, data)
       [] OTHER -> FoldLeft(Put, d, data)

Answer(c, d) ==
  [i \in 1..Len(Wire(c)) |->
     LET k == i - Len(Header(c))
     IN IF k < 1 \/ ~Reads(c.op) THEN 0
        ELSE CASE c.slave = "ksz" -> KszRead(d, c.addr)[k]
               [] c.slave = "vsc" -> VscRead(d, c.addr)[k]
               [] c.slave = "seq" -> SeqRead(d, AddrAt(c, k))
               [] c.slave = "fpga" -> FpgaGet(Effect(c, d, k - 1), AddrAt(c, k))]

(* However transfers are cut short and whatever slave was addressed before *)
(* (idx, the chip select latched at the first byte, check_cs), every byte  *)
(* of a command means what the command says: the registers have changed by *)
(* the bytes it has sent and nothing else, what came back is its answer,   *)
(* and the controller reports the end of the transfer after its last byte. *)
SpiFraming ==
  LET c == sdrv.cmd
      n == sdrv.sent - Len(Header(c))
  IN c # NoCmd =>
       /\ sdev = Effect(c, sdrv.before, IF n > 0 THEN n ELSE 0)
       /\ \A i \in DOMAIN sdrv.got : sdrv.got[i] = Answer(c, sdrv.before)[i]
       /\ SpiEot(spi) <=> sdrv.sent = Len(Wire(c))
=============================================================================
