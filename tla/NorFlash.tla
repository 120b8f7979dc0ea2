------------------------------ MODULE NorFlash --------------------------------
(***************************************************************************)
(* The QUADSPI controller and the SPI NOR flash behind it (struct Qspi in  *)
(* src/src/soc.rs): an indirect transfer is decoded from CCR and waits for *)
(* its address and data; program and erase need the write-enable latch,    *)
(* take effect at once and are written through to a backing file created   *)
(* at the first of them.  The firmware's driver issues one command after   *)
(* another, an SP reset drops the driver and leaves the controller as it   *)
(* is, and the emulator may be killed, also within a write to the file.    *)
(*                                                                         *)
(* A byte has one bit: TRUE erased, FALSE programmed.                      *)
(***************************************************************************)
EXTENDS Integers, Sequences, FiniteSets

CONSTANTS
  NorSize,    \* bytes of the array (QSPI_SIZE)
  NorSector,  \* bytes of a sector (QSPI_SECTOR)
  NorLen,     \* bound: bytes of a transfer
  Faults      \* subset of {"seed", "open"}: creating the file may be cut short,
              \* opening an existing file may fail

ASSUME NorAssumption ==
  /\ NorSize \in Nat \ {0} /\ NorSector \in 1..NorSize /\ NorSize % NorSector = 0
  /\ NorLen \in 1..NorSize /\ Faults \subseteq {"seed", "open"}

Addrs  == 0..NorSize - 1
ERASED == TRUE
Blank  == [x \in Addrs |-> ERASED]

VARIABLES
  qspi,      \* the controller and the array
  norDisk,   \* the backing file
  norAlive,  \* the process runs
  norDrv,    \* the driver's command; armed: WREN issued and not yet used
  norAck     \* per byte, the values a restart may bring back

norVars == <<qspi, norDisk, norAlive, norDrv, norAck>>

Promise(m) == [x \in Addrs |-> {m[x]}]

Idle == [k |-> "Idle"]

NoFile == [exists |-> FALSE, data |-> <<>>]
NoCommand == [st |-> "idle", op |-> "none", a |-> 0, n |-> 0, moved |-> <<>>, armed |-> FALSE]

-----------------------------------------------------------------------------
(* The backing file                                                        *)

(* with_backing: what is beyond the end of a short file reads as erased.   *)
Loaded(d) == [x \in Addrs |-> IF x < Len(d.data) THEN d.data[x + 1] ELSE ERASED]

NewQspi(m, f) ==
  [dlr |-> 0, ar |-> 0, resp |-> <<>>, mode_read |-> FALSE, tcf |-> FALSE,
   wel |-> FALSE, xfer |-> Idle, wr_buf |-> <<>>, mem |-> m, file |-> f, path |-> TRUE]

Slice(m, off, len) == [i \in 1..len |-> m[off + i - 1]]

(* A write past the end of a file fills the gap with zero bytes.           *)
FileWrite(d, off, s) ==
  LET end == off + Len(s)
      n   == IF Len(d.data) > end THEN Len(d.data) ELSE end
  IN  [exists |-> TRUE,
       data |-> [i \in 1..n |-> IF i > off /\ i <= end THEN s[i - off]
                                ELSE IF i <= Len(d.data) THEN d.data[i] ELSE FALSE]]

Outcome(q, d, alive) == [q |-> q, d |-> d, alive |-> alive]
RamOnly(q) == [q EXCEPT !.file = FALSE, !.path = FALSE]

(* The first len of the array's bytes from off on are in the file.         *)
Stored(q, d, off, len) == FileWrite(d, off, Slice(q.mem, off, len))

(* The ways a write of len bytes can fall short: the process runs on with   *)
(* its array in memory alone, or dies.                                     *)
CutShort(q, d, off, lens) == {Outcome(RamOnly(q), Stored(q, d, off, k), alive) : k \in lens, alive \in BOOLEAN}

EnsureFile(q, d) ==
  IF q.file \/ ~q.path THEN {Outcome(q, d, TRUE)}
  ELSE {Outcome([q EXCEPT !.file = TRUE], Stored(q, d, 0, NorSize), TRUE), Outcome(RamOnly(q), d, TRUE)}
       \cup CutShort(q, d, 0, IF "seed" \in Faults THEN 0..NorSize - 1 ELSE {})

(* The write succeeds, fails after a part or at once, or the process dies  *)
(* within it.                                                              *)
WriteOpen(q, d, off, len) ==
  {Outcome(q, Stored(q, d, off, len), TRUE), Outcome(RamOnly(q), d, TRUE)} \cup CutShort(q, d, off, 1..len - 1)

WriteThrough(q, d, off, len) ==
  IF len = 0 THEN {Outcome(q, d, TRUE)}
  ELSE UNION {IF e.alive /\ e.q.file THEN WriteOpen(e.q, e.d, off, len) ELSE {e} : e \in EnsureFile(q, d)}

-----------------------------------------------------------------------------
(* Commands                                                                *)

SectorOf(x) == {y \in Addrs : y \div NorSector = x \div NorSector}
Erased(m, S) == [x \in Addrs |-> IF x \in S THEN ERASED ELSE m[x]]
Programmed(m, base, s) ==
  [x \in Addrs |-> m[x] /\ \A i \in 1..Len(s) : x = (base + i - 1) % NorSize => s[i]]

EraseRange(q, d, op) ==
  LET S == IF op = "BULK" THEN Addrs ELSE SectorOf(q.ar % NorSize)
      base == CHOOSE x \in S : \A y \in S : x <= y
  IN  WriteThrough([q EXCEPT !.wel = FALSE, !.tcf = TRUE, !.mem = Erased(q.mem, S)],
                   d, base, Cardinality(S))

DoErase(q, d, op) ==
  IF q.wel THEN EraseRange(q, d, op) ELSE {Outcome([q EXCEPT !.tcf = TRUE], d, TRUE)}

(* A program that wraps past the end is written through in two segments.   *)
ProgramSegments(q, d, segments) ==
  LET base  == q.ar % NorSize
      first == IF Len(q.wr_buf) < NorSize - base THEN Len(q.wr_buf) ELSE NorSize - base
      rest  == IF segments = 2 THEN Len(q.wr_buf) - first ELSE 0
      q1    == [q EXCEPT !.wr_buf = <<>>, !.tcf = TRUE]
  IN  IF ~q.wel THEN {Outcome(q1, d, TRUE)}
      ELSE UNION {IF e.alive THEN WriteThrough(e.q, e.d, 0, rest) ELSE {e} :
                    e \in WriteThrough([q1 EXCEPT !.wel = FALSE, !.mem = Programmed(q.mem, base, q.wr_buf)],
                                       d, base, first)}

DoProgram_OneSegment(q, d) == ProgramSegments(q, d, 1)

DoProgram(q, d) == ProgramSegments(q, d, 2)

(* RDSR answers the write-enable latch; RDID, a fixed identity.            *)
BuildResponse(q, op, n) == [i \in 1..n |-> IF op = "RDSR" THEN i = 1 /\ q.wel ELSE i # 1]

ReadMem(q, a, n) == [i \in 1..n |-> q.mem[(a + i - 1) % NorSize]]

ReadOps == {"READ", "RDSR", "RDID"}
Addressed == {"READ", "ERASE", "PROGRAM"}

(* w: the controller as an indirect write begins.                          *)
Decode(q, w, d, op) ==
  CASE op \in ReadOps ->
         {Outcome([q EXCEPT !.resp = IF op \in Addressed THEN <<>> ELSE BuildResponse(q, op, q.dlr + 1),
                            !.xfer = IF op \in Addressed THEN [k |-> "ReadAtAddr", len |-> q.dlr + 1] ELSE Idle,
                            !.mode_read = TRUE, !.tcf = FALSE], d, TRUE)}
    [] op \in {"WREN", "WRDI"} ->
         {Outcome([w EXCEPT !.wel = op = "WREN", !.xfer = Idle, !.tcf = TRUE], d, TRUE)}
    [] op = "BULK" -> DoErase([w EXCEPT !.xfer = Idle], d, op)
    [] op \in Addressed \ ReadOps ->
         {Outcome([w EXCEPT !.xfer = [k |-> "WriteAtAddr", data |-> op = "PROGRAM"], !.tcf = FALSE], d, TRUE)}
    [] OTHER -> {Outcome([w EXCEPT !.xfer = Idle, !.tcf = TRUE], d, TRUE)}

Ccr_KeepBuffer(q, d, op) == Decode(q, [q EXCEPT !.mode_read = FALSE], d, op)

Ccr(q, d, op) == Decode(q, [q EXCEPT !.mode_read = FALSE, !.wr_buf = <<>>], d, op)

Ar(q, d, a) ==
  LET q1 == [q EXCEPT !.ar = a]
  IN  CASE q.xfer.k = "ReadAtAddr" ->
             {Outcome([q1 EXCEPT !.resp = ReadMem(q1, a, q.xfer.len), !.xfer = Idle], d, TRUE)}
        [] q.xfer.k = "WriteAtAddr" ->
             IF q.xfer.data
             THEN {Outcome([q1 EXCEPT !.xfer = [k |-> "WriteData", remaining |-> q.dlr + 1]], d, TRUE)}
             ELSE DoErase([q1 EXCEPT !.xfer = Idle], d, "ERASE")
        [] OTHER -> {Outcome(q1, d, TRUE)}

DrWrite(q, d, b) ==
  IF q.xfer.k # "WriteData" THEN {Outcome(q, d, TRUE)}
  ELSE LET q1 == [q EXCEPT !.wr_buf = Append(@, b)]
       IN  IF Len(q1.wr_buf) >= q.xfer.remaining THEN DoProgram([q1 EXCEPT !.xfer = Idle], d)
           ELSE {Outcome(q1, d, TRUE)}

(* SR: a drained read sets TCF when it is looked at.                       *)
SrRead(q) == [q EXCEPT !.tcf = @ \/ (q.mode_read /\ q.resp = <<>>)]
-----------------------------------------------------------------------------
(* Steps of the driver                                                     *)

(* The bytes a command changes.                                            *)
Target(c) ==
  CASE c.op = "PROGRAM" -> {(c.a + i) % NorSize : i \in 0..c.n - 1}
    [] c.op = "ERASE" -> SectorOf(c.a)
    [] c.op = "BULK" -> Addrs
    [] OTHER -> {}

(* One access of the driver, with whatever it did to the file.  A byte     *)
(* written while the model runs RAM-only, or by a command cut short, is no *)
(* longer promised.                                                        *)
Take(out, c) ==
  /\ norDisk' = out.d /\ norAlive' = out.alive
  /\ IF out.alive THEN qspi' = out.q /\ norDrv' = c
     ELSE qspi' = NewQspi(Blank, FALSE) /\ norDrv' = NoCommand
  /\ norAck' = IF out.q.mem = qspi.mem /\ out.q.wel = qspi.wel THEN norAck
               ELSE [x \in Addrs |-> IF x \notin Target(c) THEN norAck[x]
                                     ELSE IF out.q.file THEN {out.q.mem[x]} ELSE BOOLEAN]

(* DLR and CCR.                                                            *)
NorCommand(op, n) ==
  /\ norAlive /\ norDrv.st = "idle"
  /\ \E out \in Ccr([qspi EXCEPT !.dlr = n - 1], norDisk, op) :
       Take(out, [NoCommand EXCEPT !.st = IF op \in Addressed THEN "addr" ELSE "data",
                                   !.op = op, !.n = n,
                                   !.armed = op = "WREN" \/ (norDrv.armed /\ op \notin {"WRDI", "BULK"})])

NorAddress(a) ==
  /\ norAlive /\ norDrv.st = "addr"
  /\ \E out \in Ar(qspi, norDisk, a) :
       Take(out, [norDrv EXCEPT !.st = "data", !.a = a, !.armed = @ /\ norDrv.op # "ERASE"])

NorPut(b) ==
  LET c == [norDrv EXCEPT !.moved = Append(@, b)]
  IN  /\ norAlive /\ norDrv.st = "data" /\ norDrv.op = "PROGRAM" /\ Len(norDrv.moved) < norDrv.n
      /\ \E out \in DrWrite(qspi, norDisk, b) :
           Take(out, [c EXCEPT !.armed = @ /\ Len(c.moved) < c.n])

(* FLEVEL is nonzero: a byte is popped from DR.                            *)
NorGet ==
  /\ norAlive /\ norDrv.st = "data" /\ norDrv.op \in ReadOps
  /\ SrRead(qspi).mode_read /\ qspi.resp # <<>>
  /\ qspi' = [SrRead(qspi) EXCEPT !.resp = Tail(@)]
  /\ UNCHANGED <<norDisk, norAlive, norDrv, norAck>>

(* TCF is seen, and cleared through FCR.                                   *)
NorComplete ==
  /\ norAlive /\ norDrv.st = "data" /\ SrRead(qspi).tcf
  /\ norDrv.op \in ReadOps => qspi.resp = <<>>
  /\ qspi' = [SrRead(qspi) EXCEPT !.tcf = FALSE]
  /\ norDrv' = [NoCommand EXCEPT !.armed = norDrv.armed]
  /\ UNCHANGED <<norDisk, norAlive, norAck>>

(* An SP reset: the controller is not told.                                *)
NorSpReset ==
  /\ norAlive /\ norDrv.st # "idle"
  /\ norDrv' = [NoCommand EXCEPT !.armed = norDrv.armed]
  /\ UNCHANGED <<qspi, norDisk, norAlive, norAck>>

NorKill ==
  /\ norAlive /\ norAlive' = FALSE
  /\ qspi' = NewQspi(Blank, FALSE) /\ norDrv' = NoCommand
  /\ UNCHANGED <<norDisk, norAck>>

(* Construction of the model: an existing file is loaded and kept open.    *)
NorBoot ==
  /\ ~norAlive /\ norAlive' = TRUE
  /\ \/ /\ qspi' = NewQspi(Loaded(norDisk), norDisk.exists)
        /\ norAck' = Promise(Loaded(norDisk))
     \/ /\ norDisk.exists /\ "open" \in Faults
        /\ qspi' = NewQspi(Blank, FALSE)
        /\ UNCHANGED norAck
  /\ norDrv' = NoCommand
  /\ UNCHANGED norDisk

NorInit ==
  /\ qspi = NewQspi(Blank, FALSE) /\ norDisk = NoFile /\ norAlive = TRUE
  /\ norDrv = NoCommand /\ norAck = Promise(Blank)

NorOps == {"WREN", "WRDI", "RDSR", "RDID", "READ", "ERASE", "BULK", "PROGRAM", "other"}

NorNext ==
  \/ \E op \in NorOps : \E n \in IF op \in {"READ", "PROGRAM"} THEN 1..NorLen ELSE {1} : NorCommand(op, n)
  \/ \E a \in Addrs : NorAddress(a)
  \/ \E b \in BOOLEAN : NorPut(b)
  \/ NorGet \/ NorComplete \/ NorSpReset \/ NorKill \/ NorBoot

NorSpec == NorInit /\ [][NorNext]_norVars

-----------------------------------------------------------------------------
(* Properties                                                              *)

(* A step that changes the array while the process runs.                   *)
WholeWrite ==
  norAlive /\ norAlive' /\ qspi'.mem # qspi.mem =>
    LET c == norDrv' IN
    /\ norDrv.armed /\ ~c.armed
    /\ qspi'.mem = IF c.op = "PROGRAM" THEN Programmed(qspi.mem, c.a, c.moved)
                   ELSE Erased(qspi.mem, Target(c))
    /\ c.op = "PROGRAM" => Len(c.moved) = c.n

\* The array changes only by one whole command: an erase of a sector or of all
\* of it, or a program of exactly the bytes the driver sent for this command,
\* and each such command is covered by a WREN of its own, whatever command an
\* SP reset cut short before (do_erase, do_program).
NorWholeWrites == [][WholeWrite]_norVars

\* Every program or erase that completed while the file was usable is in the
\* file: whenever the emulator is killed, the next one loads it
\* (write_through, ensure_file, with_backing).
NorAckedPersist ==
  \A x \in Addrs : Loaded(norDisk)[x] \in norAck[x]
=============================================================================
