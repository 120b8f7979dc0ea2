--------------------------- MODULE SpDevicesProofs ---------------------------
(***************************************************************************)
(* Proofs about the SP's I2C buses with their bridge, for any number of    *)
(* buses and any sizes of the devices, and about the SPI NOR flash with    *)
(* its backing file, for any sizes of array and sector.                    *)
(***************************************************************************)
EXTENDS I2cBus, NorFlash, SequenceTheorems, FiniteSetTheorems, TLAPS

USE I2cAssumption

-----------------------------------------------------------------------------
(* I2C: what a byte can be, and the types.                                 *)

I2cAnswers ==
  {Builtin(a, r, i) : a \in DevAddrs, r \in Pointers, i \in Nat} \cup
  {ServerAnswer(a, r, i) : a \in DevAddrs, r \in Pointers, i \in Nat}

I2cController ==
  [active : BOOLEAN, addr : DevAddrs, reg_ptr : Pointers, read_idx : Nat,
   writing : BOOLEAN, wrote_ptr : BOOLEAN]

I2cDriver ==
  [st : {"idle", "ptr", "body", "read", "stop"}, a : DevAddrs, ptr : Pointers, n : Nat,
   got : Seq(I2cAnswers)]

I2cLink ==
  [up : Seq(DevAddrs \X Pointers \X Nat), down : Seq(I2cAnswers), open : BOOLEAN, timeouts : Nat]

I2cTypeOK ==
  /\ i2c \in [Buses -> I2cController]
  /\ i2cDrv \in [Buses -> I2cDriver]
  /\ i2cWire \in I2cLink
  /\ i2cWait \in Buses \cup {0}

(* The controller of a bus has what its driver asked for, and what the     *)
(* driver got is what it asked for.                                        *)
I2cFollows(b) ==
  LET d == i2cDrv[b] c == i2c[b] IN
  /\ d.st = "ptr" => c.addr = d.a /\ c.writing /\ ~c.wrote_ptr /\ d.got = <<>>
  /\ d.st = "body" => c.addr = d.a /\ c.reg_ptr = d.ptr /\ c.wrote_ptr /\ d.got = <<>>
  /\ d.st = "read" => c.addr = d.a /\ c.reg_ptr = d.ptr /\ c.read_idx = Len(d.got)

I2cGotOK(b) ==
  LET d == i2cDrv[b] IN
  \A k \in 1..Len(d.got) :
    d.got[k] \in {ServerAnswer(d.a, d.ptr, k - 1), Builtin(d.a, d.ptr, k - 1)} \ {Defer}

I2cBusesOK == \A b \in Buses : I2cFollows(b) /\ I2cGotOK(b)

(* What the server is asked on behalf of bus b, and what it answers.       *)
QueryOf(b)  == <<i2c[b].addr, i2c[b].reg_ptr, i2c[b].read_idx>>
AnswerOf(b) == ServerAnswer(i2c[b].addr, i2c[b].reg_ptr, i2c[b].read_idx)

(* The connection carries at most the one query, or the one answer, of the *)
(* bus that waits; when none waits it is empty.                            *)
I2cOneLine ==
  /\ Free => i2cWire.up = <<>> /\ i2cWire.down = <<>>
  /\ ~Free => /\ i2cDrv[i2cWait].st = "read"
              /\ \/ i2cWire.up = <<>> /\ i2cWire.down = <<>>
                 \/ i2cWire.up = <<QueryOf(i2cWait)>> /\ i2cWire.down = <<>> /\ i2cWire.open
                 \/ i2cWire.up = <<>> /\ i2cWire.down = <<AnswerOf(i2cWait)>>

I2cInv == I2cTypeOK /\ I2cBusesOK /\ I2cOneLine

(* The built-in model always has a byte.                                   *)
LEMMA BuiltinNotDefer ==
  ASSUME NEW a \in DevAddrs, NEW r \in Pointers, NEW i \in Nat
  PROVE  Builtin(a, r, i) # Defer
<1>1. CASE a = "tmp"
  BY <1>1 DEF Builtin, Defer
<1>2. CASE a # "tmp"
  BY <1>2 DEF Builtin, Defer
<1> QED BY <1>1, <1>2

(* A bus whose controller and driver do not move stays as it is.           *)
LEMMA OtherBus ==
  ASSUME NEW b, I2cFollows(b), I2cGotOK(b), i2c'[b] = i2c[b], i2cDrv'[b] = i2cDrv[b]
  PROVE  I2cFollows(b)' /\ I2cGotOK(b)'
  BY DEF I2cFollows, I2cGotOK

(* A byte read on bus b, from the server or the built-in model, at the     *)
(* position the driver is at.                                              *)
LEMMA RxKeeps ==
  ASSUME I2cInv, NEW b \in Buses, i2cDrv[b].st = "read",
         NEW byte \in {AnswerOf(b), BuiltinOf(b)} \ {Defer}, Rx(b, byte)
  PROVE  /\ i2c' \in [Buses -> I2cController]
         /\ i2cDrv' \in [Buses -> I2cDriver]
         /\ I2cBusesOK'
<1> DEFINE d == i2cDrv[b]
           c == i2c[b]
           got == Append(d.got, byte)
           st == IF Len(got) = d.n THEN "stop" ELSE "read"
<1>1. /\ c \in I2cController
      /\ d \in I2cDriver
      /\ c.addr = d.a /\ c.reg_ptr = d.ptr /\ c.read_idx = Len(d.got)
  BY DEF I2cInv, I2cTypeOK, I2cBusesOK, I2cFollows
<1>2. byte \in I2cAnswers
  BY <1>1 DEF I2cController, I2cAnswers, AnswerOf, BuiltinOf
<1>3. got \in Seq(I2cAnswers) /\ Len(got) = Len(d.got) + 1 /\ Len(d.got) \in Nat
      /\ got[Len(got)] = byte /\ \A k \in 1..Len(d.got) : got[k] = d.got[k]
  BY <1>1, <1>2 DEF I2cDriver
<1>4. i2c' = [i2c EXCEPT ![b].read_idx = i2c[b].read_idx + 1]
      /\ i2cDrv' = [i2cDrv EXCEPT ![b].got = got, ![b].st = st]
  BY DEF Rx
<1> HIDE DEF got, st
<1>5. st \in {"stop", "read"}
  BY DEF st
<1>6. /\ i2c'[b] = [c EXCEPT !.read_idx = c.read_idx + 1]
      /\ i2cDrv'[b] = [d EXCEPT !.got = got, !.st = st]
      /\ \A o \in Buses \ {b} : i2c'[o] = i2c[o] /\ i2cDrv'[o] = i2cDrv[o]
  BY <1>4 DEF I2cInv, I2cTypeOK
<1>7. /\ i2c'[b] \in I2cController
      /\ i2c'[b].addr = c.addr /\ i2c'[b].reg_ptr = c.reg_ptr
      /\ i2c'[b].read_idx = c.read_idx + 1
  BY <1>1, <1>6 DEF I2cController
<1>8. /\ i2cDrv'[b] \in I2cDriver
      /\ i2cDrv'[b].a = d.a /\ i2cDrv'[b].ptr = d.ptr
      /\ i2cDrv'[b].got = got /\ i2cDrv'[b].st = st
  <2>1. DOMAIN d = {"st", "a", "ptr", "n", "got"}
    BY <1>1 DEF I2cDriver
  <2>2. /\ i2cDrv'[b].a = d.a /\ i2cDrv'[b].ptr = d.ptr /\ i2cDrv'[b].n = d.n
        /\ i2cDrv'[b].got = got /\ i2cDrv'[b].st = st
    BY <1>6, <2>1
  <2>3. i2cDrv'[b] = [st |-> st, a |-> d.a, ptr |-> d.ptr, n |-> d.n, got |-> got]
    BY <1>1, <1>6, <2>1, <2>2 DEF I2cDriver
  <2> QED BY <1>1, <1>3, <1>5, <2>2, <2>3 DEF I2cDriver
<1>9. I2cFollows(b)'
  BY <1>1, <1>3, <1>5, <1>7, <1>8 DEF I2cFollows
<1>10. I2cGotOK(b)'
  <2> SUFFICES ASSUME NEW k \in 1..Len(got)
               PROVE  got[k] \in {ServerAnswer(d.a, d.ptr, k - 1), Builtin(d.a, d.ptr, k - 1)} \ {Defer}
    BY <1>8 DEF I2cGotOK
  <2>1. CASE k \in 1..Len(d.got)
    BY <1>3, <2>1 DEF I2cInv, I2cBusesOK, I2cGotOK
  <2>2. CASE k = Len(got)
    <3>1. k - 1 = c.read_idx
      BY <1>1, <1>3, <2>2
    <3>2. AnswerOf(b) = ServerAnswer(d.a, d.ptr, k - 1) /\ BuiltinOf(b) = Builtin(d.a, d.ptr, k - 1)
      BY <1>1, <3>1, Zenon DEF AnswerOf, BuiltinOf
    <3>3. got[k] = byte
      BY <1>3, <2>2
    <3>4. byte \in {AnswerOf(b), BuiltinOf(b)} \ {Defer}
      OBVIOUS
    <3> HIDE DEF d
    <3>5. \/ byte = ServerAnswer(d.a, d.ptr, k - 1)
          \/ byte = Builtin(d.a, d.ptr, k - 1)
      BY <3>2, <3>4
    <3>6. byte # Defer
      BY <3>4
    <3> QED BY <3>3, <3>5, <3>6, Zenon
  <2>3. k \in 1..Len(d.got) \/ k = Len(got)
    <3> DEFINE m == Len(d.got)
               n == Len(got)
    <3>1. k \in 1..n /\ n = m + 1 /\ m \in Nat
      BY <1>3
    <3> HIDE DEF m, n
    <3>2. k \in 1..m \/ k = n
      BY <3>1
    <3> QED BY <3>2 DEF m, n
  <2> QED BY <2>1, <2>2, <2>3, Zenon
<1>11. \A o \in Buses \ {b} : I2cFollows(o)' /\ I2cGotOK(o)'
  BY <1>6, OtherBus DEF I2cInv, I2cBusesOK
<1>12. I2cBusesOK'
  BY <1>9, <1>10, <1>11 DEF I2cBusesOK
<1>13. i2c' = [i2c EXCEPT ![b] = i2c'[b]] /\ i2cDrv' = [i2cDrv EXCEPT ![b] = i2cDrv'[b]]
  BY <1>4 DEF I2cInv, I2cTypeOK
<1>14. i2c' \in [Buses -> I2cController] /\ i2cDrv' \in [Buses -> I2cDriver]
  BY <1>7, <1>8, <1>13 DEF I2cInv, I2cTypeOK
<1> QED BY <1>12, <1>14

(* A step of one driver that is not a read of a byte: its controller and   *)
(* its transfer move together, the others stay.                            *)
LEMMA DriverStep ==
  ASSUME I2cInv, Free, NEW b \in Buses, NEW c \in I2cController, NEW d \in I2cDriver,
         i2c' = [i2c EXCEPT ![b] = c], i2cDrv' = [i2cDrv EXCEPT ![b] = d],
         UNCHANGED <<i2cWire, i2cWait>>,
         d.got = <<>> \/ (d.got = i2cDrv[b].got /\ d.a = i2cDrv[b].a /\ d.ptr = i2cDrv[b].ptr),
         d.st = "ptr" => c.addr = d.a /\ c.writing /\ ~c.wrote_ptr /\ d.got = <<>>,
         d.st = "body" => c.addr = d.a /\ c.reg_ptr = d.ptr /\ c.wrote_ptr /\ d.got = <<>>,
         d.st = "read" => c.addr = d.a /\ c.reg_ptr = d.ptr /\ c.read_idx = Len(d.got)
  PROVE  I2cInv'
<1>1. i2c' \in [Buses -> I2cController] /\ i2cDrv' \in [Buses -> I2cDriver]
  BY DEF I2cInv, I2cTypeOK
<1>2. i2c'[b] = c /\ i2cDrv'[b] = d
      /\ \A o \in Buses \ {b} : i2c'[o] = i2c[o] /\ i2cDrv'[o] = i2cDrv[o]
  BY DEF I2cInv, I2cTypeOK
<1>3. I2cFollows(b)'
  BY <1>2 DEF I2cFollows
<1>4. I2cGotOK(b)'
  <2>1. CASE d.got = <<>>
    <3>1. Len(d.got) = 0
      BY <2>1
    <3> QED BY <1>2, <3>1 DEF I2cGotOK
  <2>2. CASE d.got = i2cDrv[b].got /\ d.a = i2cDrv[b].a /\ d.ptr = i2cDrv[b].ptr
    <3>1. I2cGotOK(b)
      BY DEF I2cInv, I2cBusesOK
    <3> QED BY <1>2, <2>2, <3>1 DEF I2cGotOK
  <2> QED BY <2>1, <2>2
<1>5. \A o \in Buses \ {b} : I2cFollows(o)' /\ I2cGotOK(o)'
  BY <1>2, OtherBus DEF I2cInv, I2cBusesOK
<1>6. I2cBusesOK'
  BY <1>3, <1>4, <1>5 DEF I2cBusesOK
<1>7. I2cTypeOK'
  BY <1>1 DEF I2cInv, I2cTypeOK
<1>8. I2cOneLine'
  BY DEF I2cInv, I2cOneLine, Free
<1> QED BY <1>6, <1>7, <1>8 DEF I2cInv

(* What the controller makes of START, STOP and TXDR.                      *)
LEMMA StartWriteController ==
  ASSUME NEW c \in I2cController, NEW a \in DevAddrs
  PROVE  /\ Cr2Start(c, a, FALSE) \in I2cController /\ Cr2Start(c, a, FALSE).addr = a
         /\ Cr2Start(c, a, FALSE).writing /\ ~Cr2Start(c, a, FALSE).wrote_ptr
  BY DEF I2cController, Cr2Start

LEMMA StartReadController ==
  ASSUME NEW c \in I2cController, NEW a \in DevAddrs
  PROVE  /\ Cr2Start(c, a, TRUE) \in I2cController /\ Cr2Start(c, a, TRUE).addr = a
         /\ Cr2Start(c, a, TRUE).reg_ptr = c.reg_ptr /\ Cr2Start(c, a, TRUE).read_idx = 0
  BY DEF I2cController, Cr2Start

LEMMA StopController ==
  ASSUME NEW c \in I2cController
  PROVE  Cr2Stop(c) \in I2cController
  BY DEF I2cController, Cr2Stop

LEMMA TxdrController ==
  ASSUME NEW c \in I2cController, NEW byte \in Pointers
  PROVE  /\ Txdr(c, byte) \in I2cController /\ Txdr(c, byte).addr = c.addr
         /\ (c.writing /\ ~c.wrote_ptr) =>
              Txdr(c, byte).reg_ptr = byte /\ Txdr(c, byte).wrote_ptr
  BY DEF I2cController, Txdr

(* A driver that only changes state stays a driver of the same transfer.   *)
LEMMA DriverState ==
  ASSUME NEW d \in I2cDriver, NEW st \in {"idle", "ptr", "body", "read", "stop"}
  PROVE  LET e == [d EXCEPT !.st = st] IN
         e \in I2cDriver /\ e.st = st /\ e.a = d.a /\ e.ptr = d.ptr /\ e.got = d.got
  BY DEF I2cDriver

(* The driver's steps of a transfer.                                       *)
LEMMA TransferKeeps ==
  ASSUME I2cInv, NEW b \in Buses,
         \/ \E a \in DevAddrs, ptr \in Pointers, n \in 1..ReadLen : StartWrite(b, a, ptr, n)
         \/ \E byte \in Pointers : WriteData(b, byte)
         \/ WritePtr(b) \/ StartRead(b) \/ Stop(b)
  PROVE  I2cInv'
<1>0. i2c[b] \in I2cController /\ i2cDrv[b] \in I2cDriver /\ I2cFollows(b)
  BY DEF I2cInv, I2cTypeOK, I2cBusesOK
<1>1. ASSUME NEW a \in DevAddrs, NEW ptr \in Pointers, NEW n \in 1..ReadLen, StartWrite(b, a, ptr, n)
      PROVE  I2cInv'
  <2> DEFINE d == [st |-> "ptr", a |-> a, ptr |-> ptr, n |-> n, got |-> <<>>]
             c == Cr2Start(i2c[b], a, FALSE)
  <2>1. d \in I2cDriver /\ d.st = "ptr" /\ d.a = a /\ d.got = <<>>
    BY DEF I2cDriver
  <2>2. c \in I2cController /\ c.addr = a /\ c.writing /\ ~c.wrote_ptr
    BY <1>0, StartWriteController, Zenon
  <2>3. Free /\ i2c' = [i2c EXCEPT ![b] = c] /\ i2cDrv' = [i2cDrv EXCEPT ![b] = d]
        /\ UNCHANGED <<i2cWire, i2cWait>>
    BY <1>1 DEF StartWrite
  <2> HIDE DEF d, c
  <2> QED BY <2>1, <2>2, <2>3, DriverStep
<1>2. ASSUME NEW byte \in Pointers, WriteData(b, byte)
      PROVE  I2cInv'
  <2> DEFINE d == [i2cDrv[b] EXCEPT !.st = "stop"]
             c == Txdr(i2c[b], byte)
  <2>1. d \in I2cDriver /\ d.st = "stop" /\ d.a = i2cDrv[b].a /\ d.ptr = i2cDrv[b].ptr
        /\ d.got = i2cDrv[b].got
    BY <1>0, DriverState
  <2>2. c \in I2cController
    BY <1>0, TxdrController, Zenon
  <2>3. Free /\ i2c' = [i2c EXCEPT ![b] = c] /\ i2cDrv' = [i2cDrv EXCEPT ![b] = d]
        /\ UNCHANGED <<i2cWire, i2cWait>>
    BY <1>2 DEF WriteData
  <2> HIDE DEF d, c
  <2> QED BY <2>1, <2>2, <2>3, DriverStep
<1>3. CASE WritePtr(b)
  <2> DEFINE d == [i2cDrv[b] EXCEPT !.st = "body"]
             c == Txdr(i2c[b], i2cDrv[b].ptr)
  <2>1. d \in I2cDriver /\ d.st = "body" /\ d.a = i2cDrv[b].a /\ d.ptr = i2cDrv[b].ptr
        /\ d.got = i2cDrv[b].got
    BY <1>0, DriverState
  <2>2. i2cDrv[b].ptr \in Pointers /\ i2c[b].addr \in DevAddrs
    BY <1>0 DEF I2cDriver, I2cController
  <2>3. i2c[b].addr = i2cDrv[b].a /\ i2c[b].writing /\ ~i2c[b].wrote_ptr /\ i2cDrv[b].got = <<>>
    BY <1>0, <1>3 DEF WritePtr, I2cFollows
  <2>4. c \in I2cController /\ c.addr = i2cDrv[b].a /\ c.reg_ptr = i2cDrv[b].ptr /\ c.wrote_ptr
    BY <1>0, <2>2, <2>3, TxdrController, Zenon
  <2>5. Free /\ i2c' = [i2c EXCEPT ![b] = c] /\ i2cDrv' = [i2cDrv EXCEPT ![b] = d]
        /\ UNCHANGED <<i2cWire, i2cWait>>
    BY <1>3 DEF WritePtr
  <2> HIDE DEF d, c
  <2> QED BY <2>1, <2>3, <2>4, <2>5, DriverStep
<1>4. CASE StartRead(b)
  <2> DEFINE d == [i2cDrv[b] EXCEPT !.st = "read"]
             c == Cr2Start(i2c[b], i2cDrv[b].a, TRUE)
  <2>1. d \in I2cDriver /\ d.st = "read" /\ d.a = i2cDrv[b].a /\ d.ptr = i2cDrv[b].ptr
        /\ d.got = i2cDrv[b].got
    BY <1>0, DriverState
  <2>2. i2cDrv[b].a \in DevAddrs /\ i2c[b].reg_ptr \in Pointers
    BY <1>0 DEF I2cDriver, I2cController
  <2>3. i2c[b].reg_ptr = i2cDrv[b].ptr /\ i2cDrv[b].got = <<>>
    BY <1>0, <1>4 DEF StartRead, I2cFollows
  <2>4. c \in I2cController /\ c.addr = i2cDrv[b].a /\ c.reg_ptr = i2c[b].reg_ptr /\ c.read_idx = 0
    BY <1>0, <2>2, StartReadController, Zenon
  <2>5. Free /\ i2c' = [i2c EXCEPT ![b] = c] /\ i2cDrv' = [i2cDrv EXCEPT ![b] = d]
        /\ UNCHANGED <<i2cWire, i2cWait>>
    BY <1>4 DEF StartRead
  <2>6. Len(d.got) = 0
    BY <2>1, <2>3
  <2> HIDE DEF d, c
  <2> QED BY <2>1, <2>3, <2>4, <2>5, <2>6, DriverStep
<1>5. CASE Stop(b)
  <2> DEFINE c == Cr2Stop(i2c[b])
  <2>1. NoTransfer \in I2cDriver /\ NoTransfer.st = "idle" /\ NoTransfer.got = <<>>
    BY DEF NoTransfer, I2cDriver, DevAddrs, Pointers
  <2>2. c \in I2cController
    BY <1>0, StopController, Zenon
  <2>3. Free /\ i2c' = [i2c EXCEPT ![b] = c] /\ i2cDrv' = [i2cDrv EXCEPT ![b] = NoTransfer]
        /\ UNCHANGED <<i2cWire, i2cWait>>
    BY <1>5 DEF Stop
  <2> HIDE DEF c
  <2> QED BY <2>1, <2>2, <2>3, DriverStep
<1> QED BY <1>1, <1>2, <1>3, <1>4, <1>5

(* An SP reset drops every driver, and no line is on the wire then.        *)
LEMMA I2cResetKeeps ==
  ASSUME I2cInv, I2cReset
  PROVE  I2cInv'
<1>1. NoTransfer \in I2cDriver /\ NoTransfer.st = "idle" /\ Len(NoTransfer.got) = 0
  BY DEF NoTransfer, I2cDriver, DevAddrs, Pointers
<1>2. i2cDrv' = [b \in Buses |-> NoTransfer] /\ UNCHANGED <<i2c, i2cWire, i2cWait>> /\ Free
  BY DEF I2cReset
<1>3. I2cTypeOK'
  BY <1>1, <1>2 DEF I2cInv, I2cTypeOK
<1>4. I2cBusesOK'
  BY <1>1, <1>2 DEF I2cBusesOK, I2cFollows, I2cGotOK
<1>5. I2cOneLine'
  BY <1>2 DEF I2cInv, I2cOneLine, Free
<1> QED BY <1>3, <1>4, <1>5 DEF I2cInv

(* The connection with its fields replaced.                                *)
LEMMA LinkClears ==
  ASSUME NEW w \in I2cLink
  PROVE  [w EXCEPT !.down = <<>>] \in I2cLink /\ [w EXCEPT !.open = FALSE, !.up = <<>>] \in I2cLink
<1>1. <<>> \in Seq(DevAddrs \X Pointers \X Nat) /\ <<>> \in Seq(I2cAnswers)
  OBVIOUS
<1>2. [w EXCEPT !.down = <<>>] \in I2cLink
  BY <1>1 DEF I2cLink
<1>3. [w EXCEPT !.open = FALSE, !.up = <<>>] \in I2cLink
  BY <1>1 DEF I2cLink
<1> QED BY <1>2, <1>3

LEMMA LinkAsks ==
  ASSUME NEW w \in I2cLink, NEW q \in DevAddrs \X Pointers \X Nat
  PROVE  [w EXCEPT !.up = <<q>>] \in I2cLink
<1>1. <<q>> \in Seq(DevAddrs \X Pointers \X Nat)
  OBVIOUS
<1> QED BY <1>1 DEF I2cLink

LEMMA LinkAnswers ==
  ASSUME NEW w \in I2cLink, NEW ans \in I2cAnswers
  PROVE  [w EXCEPT !.up = <<>>, !.down = <<ans>>] \in I2cLink
<1>1. <<>> \in Seq(DevAddrs \X Pointers \X Nat) /\ <<ans>> \in Seq(I2cAnswers)
  OBVIOUS
<1> QED BY <1>1 DEF I2cLink

(* A read without a server, and the reads that end with an answer or with  *)
(* the end of the stream.                                                  *)
LEMMA ReadKeeps ==
  ASSUME I2cInv, NEW b \in Buses, ReadLocal(b) \/ OnRead(b) \/ OnEof(b)
  PROVE  I2cInv'
<1>0. i2c[b] \in I2cController
  BY DEF I2cInv, I2cTypeOK
<1>1. BuiltinOf(b) # Defer
  BY <1>0, BuiltinNotDefer DEF BuiltinOf, I2cController
<1>2. CASE ReadLocal(b)
  <2>1. /\ i2c' \in [Buses -> I2cController]
        /\ i2cDrv' \in [Buses -> I2cDriver]
        /\ I2cBusesOK'
    BY <1>1, <1>2, RxKeeps DEF ReadLocal
  <2>2. I2cTypeOK'
    BY <1>2, <2>1 DEF ReadLocal, I2cInv, I2cTypeOK
  <2>3. I2cOneLine'
    BY <1>2 DEF ReadLocal, I2cInv, I2cOneLine, Free
  <2> QED BY <2>1, <2>2, <2>3 DEF I2cInv
<1>3. CASE OnRead(b)
  <2> DEFINE ans == Head(i2cWire.down)
             byte == IF ans = Defer THEN BuiltinOf(b) ELSE ans
  <2>1. i2cWait = b /\ ~Free /\ i2cWire.down # <<>>
    BY <1>3 DEF OnRead, Free
  <2>2. i2cDrv[b].st = "read" /\ i2cWire.up = <<>> /\ i2cWire.down = <<AnswerOf(b)>>
    BY <2>1 DEF I2cInv, I2cOneLine
  <2>3. ans = AnswerOf(b) /\ Tail(i2cWire.down) = <<>>
    BY <2>2
  <2>4. byte \in {AnswerOf(b), BuiltinOf(b)} \ {Defer} /\ Rx(b, byte)
    BY <1>1, <1>3, <2>3 DEF OnRead
  <2>5. /\ i2c' \in [Buses -> I2cController]
        /\ i2cDrv' \in [Buses -> I2cDriver]
        /\ I2cBusesOK'
    BY <2>2, <2>4, RxKeeps
  <2>6. i2cWire' = [i2cWire EXCEPT !.down = <<>>] /\ i2cWait' = 0
    BY <1>3, <2>3 DEF OnRead
  <2>7. I2cTypeOK'
    <3>1. i2cWire' \in I2cLink
      BY <2>6, LinkClears DEF I2cInv, I2cTypeOK
    <3> QED BY <2>5, <2>6, <3>1 DEF I2cInv, I2cTypeOK
  <2>8. i2cWire'.up = <<>> /\ i2cWire'.down = <<>>
    BY <2>2, <2>6 DEF I2cInv, I2cTypeOK, I2cLink
  <2>9. I2cOneLine'
    BY <2>6, <2>8 DEF I2cOneLine, Free
  <2> QED BY <2>5, <2>7, <2>9 DEF I2cInv
<1>4. CASE OnEof(b)
  <2>1. i2cWait = b /\ ~Free /\ i2cWire.down = <<>> /\ ~i2cWire.open
        /\ UNCHANGED i2cWire /\ i2cWait' = 0 /\ Rx(b, BuiltinOf(b))
    BY <1>4 DEF OnEof, Free
  <2>2. <<AnswerOf(b)>> # <<>>
    OBVIOUS
  <2>3. i2cDrv[b].st = "read" /\ i2cWire.up = <<>>
    BY <2>1, <2>2 DEF I2cInv, I2cOneLine
  <2>4. /\ i2c' \in [Buses -> I2cController]
        /\ i2cDrv' \in [Buses -> I2cDriver]
        /\ I2cBusesOK'
    BY <1>1, <2>1, <2>3, RxKeeps
  <2>5. I2cTypeOK'
    BY <2>1, <2>4 DEF I2cInv, I2cTypeOK
  <2>6. I2cOneLine'
    BY <2>1, <2>3 DEF I2cOneLine, Free
  <2> QED BY <2>4, <2>5, <2>6 DEF I2cInv
<1> QED BY <1>2, <1>3, <1>4

(* The wire moves, the buses do not.                                       *)
LEMMA BusesStay ==
  ASSUME I2cBusesOK, UNCHANGED <<i2c, i2cDrv>>
  PROVE  I2cBusesOK'
  BY DEF I2cBusesOK, I2cFollows, I2cGotOK

(* A query goes out, the server answers it, or the connection is lost.     *)
LEMMA WireKeeps ==
  ASSUME I2cInv, (\E b \in Buses : Query(b)) \/ Serve \/ Disconnect
  PROVE  I2cInv'
<1>1. UNCHANGED <<i2c, i2cDrv>>
  BY DEF Query, Serve, Disconnect
<1>2. I2cBusesOK'
  BY <1>1, BusesStay DEF I2cInv
<1>3. ASSUME NEW b \in Buses, Query(b)
      PROVE  I2cTypeOK' /\ I2cOneLine'
  <2>1. /\ Free /\ i2cDrv[b].st = "read" /\ i2cWire.open /\ i2cWait' = b
        /\ i2cWire' = [i2cWire EXCEPT !.up = Append(i2cWire.up, QueryOf(b))]
    BY <1>3 DEF Query, QueryOf
  <2>2. i2cWire.up = <<>> /\ i2cWire.down = <<>>
    BY <2>1 DEF I2cInv, I2cOneLine
  <2>3. Append(i2cWire.up, QueryOf(b)) = <<QueryOf(b)>>
    BY <2>2
  <2>4. QueryOf(b) \in DevAddrs \X Pointers \X Nat
    BY DEF I2cInv, I2cTypeOK, I2cController, QueryOf
  <2>5. I2cTypeOK'
    <3>1. i2cWire' \in I2cLink
      BY <2>1, <2>3, <2>4, LinkAsks DEF I2cInv, I2cTypeOK
    <3> QED BY <1>1, <2>1, <3>1 DEF I2cInv, I2cTypeOK
  <2>6. /\ i2cWire'.up = <<QueryOf(b)>> /\ i2cWire'.down = <<>> /\ i2cWire'.open
        /\ QueryOf(b)' = QueryOf(b)
    BY <1>1, <2>1, <2>2, <2>3 DEF I2cInv, I2cTypeOK, I2cLink, QueryOf
  <2>7. i2cWait' # 0
    BY <2>1
  <2> QED BY <1>1, <2>1, <2>5, <2>6, <2>7 DEF I2cOneLine, Free, QueryOf
<1>4. CASE Serve
  <2> DEFINE w == i2cWait
             line == Head(i2cWire.up)
  <2>1. i2cWire.up # <<>> /\ i2cWait' = i2cWait
        /\ i2cWire' = [i2cWire EXCEPT !.up = Tail(i2cWire.up),
               !.down = Append(i2cWire.down, ServerAnswer(line[1], line[2], line[3]))]
    BY <1>4 DEF Serve
  <2>2. ~Free /\ i2cWire.up = <<QueryOf(w)>> /\ i2cWire.down = <<>> /\ i2cDrv[w].st = "read"
    BY <2>1 DEF I2cInv, I2cOneLine
  <2>3. w \in Buses
    BY <2>2 DEF I2cInv, I2cTypeOK, Free
  <2>4. Tail(i2cWire.up) = <<>> /\ line = QueryOf(w)
    BY <2>2
  <2>5. ServerAnswer(line[1], line[2], line[3]) = AnswerOf(w)
    BY <2>4 DEF QueryOf, AnswerOf
  <2>6. Append(i2cWire.down, AnswerOf(w)) = <<AnswerOf(w)>>
    BY <2>2
  <2>7. i2cWire' = [i2cWire EXCEPT !.up = <<>>, !.down = <<AnswerOf(w)>>]
    BY <2>1, <2>4, <2>5, <2>6
  <2>8. AnswerOf(w) \in I2cAnswers
    BY <2>3 DEF I2cInv, I2cTypeOK, I2cController, AnswerOf, I2cAnswers
  <2>9. I2cTypeOK'
    <3>1. i2cWire' \in I2cLink
      BY <2>7, <2>8, LinkAnswers DEF I2cInv, I2cTypeOK
    <3> QED BY <1>1, <2>1, <3>1 DEF I2cInv, I2cTypeOK
  <2>10. i2cWire'.up = <<>> /\ i2cWire'.down = <<AnswerOf(w)>>
    BY <2>7 DEF I2cInv, I2cTypeOK, I2cLink
  <2>11. I2cOneLine'
    BY <1>1, <2>1, <2>2, <2>10 DEF I2cOneLine, Free, AnswerOf
  <2> QED BY <1>2, <2>9, <2>11 DEF I2cInv
<1>5. CASE Disconnect
  <2>1. i2cWire' = [i2cWire EXCEPT !.open = FALSE, !.up = <<>>] /\ i2cWait' = i2cWait
    BY <1>5 DEF Disconnect
  <2>2. I2cTypeOK'
    <3>1. i2cWire' \in I2cLink
      BY <2>1, LinkClears DEF I2cInv, I2cTypeOK
    <3> QED BY <1>1, <2>1, <3>1 DEF I2cInv, I2cTypeOK
  <2>3. i2cWire'.up = <<>> /\ i2cWire'.down = i2cWire.down
    BY <2>1 DEF I2cInv, I2cTypeOK, I2cLink
  <2>4. I2cOneLine'
    BY <1>1, <2>1, <2>3 DEF I2cInv, I2cOneLine, Free, AnswerOf
  <2> QED BY <1>2, <2>2, <2>4 DEF I2cInv
<1> QED BY <1>2, <1>3, <1>4, <1>5 DEF I2cInv

(* The inductive invariant of the buses and their bridge: I2cInit and every *)
(* step of the drivers, the server and the connection keep it.             *)
THEOREM I2cInvariance == I2cSpec => []I2cInv
<1>1. I2cInit => I2cInv
  <2> SUFFICES ASSUME I2cInit PROVE I2cInv
    OBVIOUS
  <2>1. NoTransfer \in I2cDriver /\ NoTransfer.st = "idle" /\ Len(NoTransfer.got) = 0
    BY DEF NoTransfer, I2cDriver, DevAddrs, Pointers
  <2>2. I2cTypeOK
    BY <2>1 DEF I2cInit, I2cTypeOK, I2cLink, I2cController, DevAddrs, Pointers
  <2>3. I2cBusesOK
    <3> SUFFICES ASSUME NEW b \in Buses PROVE I2cFollows(b) /\ I2cGotOK(b)
      BY DEF I2cBusesOK
    <3>1. i2cDrv[b].st = "idle" /\ Len(i2cDrv[b].got) = 0
      BY <2>1 DEF I2cInit
    <3> QED BY <3>1 DEF I2cFollows, I2cGotOK
  <2>4. I2cOneLine
    BY DEF I2cInit, I2cOneLine, Free
  <2> QED BY <2>2, <2>3, <2>4 DEF I2cInv
<1>2. I2cInv /\ [I2cNext]_i2cVars => I2cInv'
  <2> SUFFICES ASSUME I2cInv, [I2cNext]_i2cVars PROVE I2cInv'
    OBVIOUS
  <2>1. CASE UNCHANGED i2cVars
    BY <2>1 DEF i2cVars, I2cInv, I2cTypeOK, I2cBusesOK, I2cFollows, I2cGotOK, I2cOneLine,
                Free, QueryOf, AnswerOf
  <2>2. CASE I2cNext
    BY <2>2, TransferKeeps, ReadKeeps, WireKeeps, I2cResetKeeps DEF I2cNext
  <2> QED BY <2>1, <2>2
<1> QED BY <1>1, <1>2, PTL DEF I2cSpec

\* Byte k of a read is the addressed device's byte k, from the server or the
\* built-in model, for any number of buses on the one connection.
THEOREM I2cReadsAreTheDevices == I2cSpec => []I2cReadsDevice
<1>1. I2cInv => I2cReadsDevice
  BY DEF I2cInv, I2cBusesOK, I2cGotOK, I2cReadsDevice
<1> QED BY <1>1, I2cInvariance, PTL

-----------------------------------------------------------------------------
(* The SPI NOR flash: the inductive invariant                              *)

Xfers ==
  {Idle} \cup [k : {"ReadAtAddr"}, len : Nat] \cup [k : {"WriteAtAddr"}, data : BOOLEAN]
         \cup [k : {"WriteData"}, remaining : Nat]

Qspi ==
  [dlr : Nat, ar : Addrs, resp : Seq(BOOLEAN), mode_read : BOOLEAN, tcf : BOOLEAN, wel : BOOLEAN,
   xfer : Xfers, wr_buf : Seq(BOOLEAN), mem : [Addrs -> BOOLEAN], file : BOOLEAN, path : BOOLEAN]

(* The file was created whole or not at all.                               *)
NorFile(d) ==
  \/ d = NoFile
  \/ DOMAIN d = {"exists", "data"} /\ d.exists = TRUE /\ d.data \in [1..NorSize -> BOOLEAN]

(* An open file holds the array; none exists before it is created.         *)
QspiOK(q, d) ==
  /\ q \in Qspi /\ NorFile(d)
  /\ q.file => d.exists /\ \A x \in Addrs : Loaded(d)[x] = q.mem[x]
  /\ ~q.file /\ q.path => ~d.exists

(* The controller is where the driver's command is.                        *)
NorLink(q, c) ==
  /\ DOMAIN c = {"st", "op", "a", "n", "moved", "armed"}
  /\ c.st \in {"idle", "addr", "data"} /\ c.armed \in BOOLEAN /\ q.wel = c.armed
  /\ c.st = "addr" =>
       /\ c.n \in 1..NorLen /\ c.moved = <<>>
       /\ \/ c.op = "READ" /\ q.xfer.k = "ReadAtAddr"
          \/ c.op = "ERASE" /\ q.xfer = [k |-> "WriteAtAddr", data |-> FALSE]
          \/ c.op = "PROGRAM" /\ q.xfer = [k |-> "WriteAtAddr", data |-> TRUE]
                              /\ q.wr_buf = <<>> /\ q.dlr = c.n - 1
  /\ c.st = "data" /\ c.op = "PROGRAM" /\ Len(c.moved) < c.n =>
       /\ c.n \in 1..NorLen /\ c.a \in Addrs /\ q.ar = c.a
       /\ q.xfer = [k |-> "WriteData", remaining |-> c.n]
       /\ q.wr_buf = c.moved

(* What a restart may bring back includes what the file and the running    *)
(* array hold.                                                             *)
NorPromise ==
  /\ norAck \in [Addrs -> SUBSET BOOLEAN]
  /\ NorAckedPersist
  /\ norAlive => \A x \in Addrs : qspi.mem[x] \in norAck[x]

NorInv ==
  /\ norAlive \in BOOLEAN /\ NorFile(norDisk) /\ NorPromise
  /\ norAlive => QspiOK(qspi, norDisk) /\ NorLink(qspi, norDrv)

-----------------------------------------------------------------------------
(* The SPI NOR flash: writes to the file                                   *)

LEMMA SizeOK ==
  NorSize \in Nat \ {0} /\ NorSector \in Nat \ {0} /\ NorSector <= NorSize /\ NorLen \in Nat /\ NorLen <= NorSize
  BY NorAssumption

(* Reading a whole file.                                                   *)
LEMMA LoadedWhole ==
  ASSUME NEW d, d.data \in [1..NorSize -> BOOLEAN], NEW x \in Addrs
  PROVE  Loaded(d)[x] = d.data[x + 1] /\ Loaded(d)[x] \in BOOLEAN
<1>1. NorSize \in Nat /\ x \in Nat /\ x < NorSize /\ x + 1 \in 1..NorSize
  BY SizeOK DEF Addrs
<1>2. Len(d.data) = NorSize
  BY <1>1
<1> QED BY <1>1, <1>2 DEF Loaded

LEMMA LoadedType ==
  ASSUME NEW d, NorFile(d)
  PROVE  Loaded(d) \in [Addrs -> BOOLEAN] /\ (~d.exists => \A x \in Addrs : Loaded(d)[x] = TRUE)
<1>1. CASE d = NoFile
  <2>1. Len(d.data) = 0 /\ d.exists = FALSE
    BY <1>1 DEF NoFile
  <2>2. \A x \in Addrs : ~(x < 0)
    BY SizeOK DEF Addrs
  <2>3. \A x \in Addrs : Loaded(d)[x] = TRUE
    BY <2>1, <2>2 DEF Loaded, ERASED
  <2> QED BY <2>1, <2>3 DEF Loaded
<1>2. CASE d.exists = TRUE /\ d.data \in [1..NorSize -> BOOLEAN]
  BY <1>2, LoadedWhole DEF Loaded
<1> QED BY <1>1, <1>2 DEF NorFile

(* The file e is d with k bytes of m at off.                               *)
FileHas(e, d, m, off, k) ==
  /\ NorFile(e) /\ e.exists = TRUE
  /\ \A x \in Addrs : Loaded(e)[x] = IF off <= x /\ x < off + k THEN m[x] ELSE Loaded(d)[x]

(* A write of k bytes of m at off, into a whole file or as the whole file. *)
LEMMA FileWriteOK ==
  ASSUME NEW d, NorFile(d), NEW m \in [Addrs -> BOOLEAN], NEW off \in Nat, NEW k \in Nat,
         off + k <= NorSize, d.exists \/ (off = 0 /\ k = NorSize)
  PROVE  FileHas(FileWrite(d, off, Slice(m, off, k)), d, m, off, k)
<1> DEFINE s == Slice(m, off, k)
           e == FileWrite(d, off, s)
           old == Len(d.data)
           end == off + Len(s)
           n == IF old > end THEN old ELSE end
           Byte(i) == IF i > off /\ i <= end THEN s[i - off] ELSE IF i <= old THEN d.data[i] ELSE FALSE
<1>0. NorSize \in Nat \ {0}
  BY SizeOK
<1>1. s = [i \in 1..k |-> m[off + i - 1]]
  BY DEF Slice
<1>2. Len(s) = k
  BY <1>1
<1> HIDE DEF s
<1>3. (d.exists = TRUE /\ d.data \in [1..NorSize -> BOOLEAN] /\ old = NorSize)
      \/ (d.exists = FALSE /\ old = 0 /\ off = 0 /\ k = NorSize)
  <2>1. CASE d = NoFile
    BY <2>1 DEF NoFile
  <2>2. CASE d.exists = TRUE /\ d.data \in [1..NorSize -> BOOLEAN]
    BY <1>0, <2>2
  <2> QED BY <2>1, <2>2 DEF NorFile
<1> HIDE DEF old
<1>4. n = NorSize /\ end = off + k /\ old \in Nat
  BY <1>0, <1>2, <1>3
<1>5. e = [exists |-> TRUE, data |-> [i \in 1..n |-> Byte(i)]]
  BY DEF FileWrite, old
<1>50. e.data = [i \in 1..n |-> Byte(i)]
  <2> DEFINE g == [i \in 1..n |-> Byte(i)]
  <2>1. e = [exists |-> TRUE, data |-> g]
    BY <1>5
  <2> HIDE DEF g, e
  <2>2. e.data = g
    BY <2>1
  <2> QED BY <2>2 DEF g
<1> HIDE DEF end, n
<1>6. ASSUME NEW x \in Addrs
      PROVE  /\ x \in Nat /\ x < NorSize /\ x + 1 \in 1..NorSize /\ (x + 1) - 1 = x
             /\ off <= x /\ x < off + k => Byte(x + 1) = m[x]
             /\ ~(off <= x /\ x < off + k) => Byte(x + 1) = d.data[x + 1] /\ d.exists = TRUE
  <2>1. x \in Nat /\ x < NorSize /\ x + 1 \in 1..NorSize /\ (x + 1) - 1 = x
    BY <1>0 DEF Addrs
  <2>2. ASSUME off <= x, x < off + k PROVE Byte(x + 1) = m[x]
    <3>1. x + 1 > off /\ x + 1 <= end /\ (x + 1) - off \in 1..k /\ off + ((x + 1) - off) - 1 = x
      BY <1>4, <2>1, <2>2
    <3>2. Byte(x + 1) = s[(x + 1) - off]
      BY <3>1
    <3> HIDE DEF Byte
    <3> QED BY <1>1, <3>1, <3>2
  <2>3. ASSUME ~(off <= x /\ x < off + k) PROVE Byte(x + 1) = d.data[x + 1] /\ d.exists = TRUE
    <3>1. ~(x + 1 > off /\ x + 1 <= end) /\ x + 1 <= old /\ d.exists = TRUE
      BY <1>0, <1>3, <1>4, <2>1, <2>3
    <3> QED BY <3>1
  <2> QED BY <2>1, <2>2, <2>3
<1> HIDE DEF Byte
<1>7. ASSUME NEW x \in Addrs PROVE Byte(x + 1) = IF off <= x /\ x < off + k THEN m[x] ELSE Loaded(d)[x]
  <2>1. CASE off <= x /\ x < off + k
    BY <1>6, <2>1
  <2>2. CASE ~(off <= x /\ x < off + k)
    <3>1. d.exists = TRUE /\ Byte(x + 1) = d.data[x + 1]
      BY <1>6, <2>2
    <3>2. d.data \in [1..NorSize -> BOOLEAN]
      BY <1>3, <3>1
    <3>3. Loaded(d)[x] = d.data[x + 1]
      BY <3>2, LoadedWhole
    <3> QED BY <2>2, <3>1, <3>3
  <2> QED BY <2>1, <2>2
<1>8. e.data \in [1..NorSize -> BOOLEAN] /\ e.exists = TRUE /\ DOMAIN e = {"exists", "data"}
  <2>1. ASSUME NEW i \in 1..NorSize PROVE Byte(i) \in BOOLEAN
    <3>1. i - 1 \in Addrs /\ (i - 1) + 1 = i
      BY <1>0 DEF Addrs
    <3>2. m[i - 1] \in BOOLEAN /\ Loaded(d)[i - 1] \in BOOLEAN
      BY <3>1, LoadedType
    <3>3. Byte((i - 1) + 1) \in BOOLEAN
      BY <1>7, <3>1, <3>2
    <3> QED BY <3>1, <3>3, Zenon
  <2> QED BY <1>4, <1>5, <2>1
<1>9. ASSUME NEW x \in Addrs PROVE Loaded(e)[x] = Byte(x + 1)
  <2>1. Loaded(e)[x] = e.data[x + 1]
    BY <1>8, LoadedWhole
  <2>2. e.data = [i \in 1..NorSize |-> Byte(i)]
    BY <1>4, <1>50, Zenon
  <2>3. x + 1 \in 1..NorSize
    BY <1>6
  <2> HIDE DEF e
  <2> QED BY <2>1, <2>2, <2>3
<1>10. NorFile(e)
  BY <1>8 DEF NorFile
<1>11. FileHas(e, d, m, off, k)
  BY <1>7, <1>8, <1>9, <1>10 DEF FileHas
<1> QED BY <1>11 DEF s

(* r is q but for whether a file is open, and what a read returns.         *)
NorSame(r, q) ==
  /\ r \in Qspi /\ r.mem = q.mem /\ r.wel = q.wel /\ r.xfer = q.xfer
  /\ r.wr_buf = q.wr_buf /\ r.ar = q.ar /\ r.dlr = q.dlr

(* q and its file, which lacks what was just written to the array at X.    *)
NorStale(q, d, X) ==
  /\ q \in Qspi /\ NorFile(d)
  /\ q.file => d.exists /\ \A x \in Addrs : x \notin X => Loaded(d)[x] = q.mem[x]
  /\ ~q.file /\ q.path => ~d.exists

(* e is q and its file after a write of len bytes at off, complete, cut    *)
(* short or refused.                                                       *)
NorWrote(e, q, d, off, len, X) ==
  /\ NorFile(e.d) /\ e.alive \in BOOLEAN /\ NorSame(e.q, q)
  /\ \A x \in Addrs : Loaded(e.d)[x] = Loaded(d)[x] \/ Loaded(e.d)[x] = q.mem[x]
  /\ e.q.file => /\ e.alive = TRUE /\ e.d.exists
                 /\ \A x \in Addrs : x \notin X \/ (off <= x /\ x < off + len) => Loaded(e.d)[x] = q.mem[x]
  /\ ~e.q.file /\ e.q.path => ~e.d.exists

LEMMA QspiVariants ==
  ASSUME NEW q \in Qspi
  PROVE  /\ NorSame([q EXCEPT !.file = TRUE], q) /\ [q EXCEPT !.file = TRUE].file = TRUE
         /\ NorSame(RamOnly(q), q) /\ RamOnly(q).file = FALSE /\ RamOnly(q).path = FALSE
<1>1. /\ NorSame([q EXCEPT !.file = TRUE], q) /\ [q EXCEPT !.file = TRUE].file = TRUE
  BY DEF Qspi, NorSame
<1>2. /\ NorSame(RamOnly(q), q) /\ RamOnly(q).file = FALSE /\ RamOnly(q).path = FALSE
  BY DEF Qspi, NorSame, RamOnly
<1> QED BY <1>1, <1>2

(* The file created, or the model left with its array in memory alone.     *)
NorEnsured(e, q, d, X) ==
  /\ e.alive = TRUE /\ NorFile(e.d) /\ NorSame(e.q, q)
  /\ e.q.file => e.d.exists /\ \A x \in Addrs : x \notin X => Loaded(e.d)[x] = q.mem[x]
  /\ ~e.q.file => e.q.path = FALSE /\ e.d = d
  /\ \A x \in Addrs : Loaded(e.d)[x] = Loaded(d)[x] \/ Loaded(e.d)[x] = q.mem[x]

LEMMA EnsureFileOK ==
  ASSUME Faults = {}, NEW q, NEW d, NEW X, NorStale(q, d, X), NEW e \in EnsureFile(q, d)
  PROVE  NorEnsured(e, q, d, X)
<1> DEFINE w == Stored(q, d, 0, NorSize)
           open == [q EXCEPT !.file = TRUE]
<1>0. /\ q \in Qspi /\ q.mem \in [Addrs -> BOOLEAN] /\ q.file \in BOOLEAN /\ q.path \in BOOLEAN
      /\ NorFile(d) /\ (q.file => d.exists /\ \A x \in Addrs : x \notin X => Loaded(d)[x] = q.mem[x])
  BY DEF NorStale, Qspi
<1>00. /\ NorSame(open, q) /\ open.file = TRUE /\ NorSame(q, q)
       /\ NorSame(RamOnly(q), q) /\ RamOnly(q).file = FALSE /\ RamOnly(q).path = FALSE
  BY <1>0, QspiVariants DEF NorSame
<1>4. ASSUME ~(q.file \/ ~q.path)
      PROVE  e = Outcome(open, w, TRUE) \/ e = Outcome(RamOnly(q), d, TRUE)
  <2> DEFINE lens == IF "seed" \in Faults THEN 0..NorSize - 1 ELSE {}
  <2>1. lens = {}
    BY Zenon
  <2>2. EnsureFile(q, d) = {Outcome(open, w, TRUE), Outcome(RamOnly(q), d, TRUE)} \cup CutShort(q, d, 0, lens)
    BY <1>4, Zenon DEF EnsureFile
  <2> HIDE DEF lens, w, open
  <2>3. CutShort(q, d, 0, lens) = {}
    BY <2>1 DEF CutShort
  <2> QED BY <2>2, <2>3, Zenon
<1>5. ASSUME q.file \/ ~q.path PROVE EnsureFile(q, d) = {Outcome(q, d, TRUE)}
  BY <1>5, Zenon DEF EnsureFile
<1> HIDE DEF open
<1>1. CASE q.file \/ ~q.path
  <2>1. e = Outcome(q, d, TRUE)
    BY <1>1, <1>5
  <2>2. e.q = q /\ e.d = d /\ e.alive = TRUE
    BY <2>1 DEF Outcome
  <2> QED BY <1>0, <1>00, <1>1, <2>2 DEF NorEnsured
<1>2. CASE ~(q.file \/ ~q.path) /\ e = Outcome(open, w, TRUE)
  <2>0. ~d.exists
    BY <1>2 DEF NorStale
  <2>2. 0 \in Nat /\ NorSize \in Nat /\ 0 + NorSize <= NorSize
    BY SizeOK
  <2>3. /\ NorFile(w) /\ w.exists = TRUE
        /\ \A x \in Addrs : Loaded(w)[x] = IF 0 <= x /\ x < 0 + NorSize THEN q.mem[x] ELSE Loaded(d)[x]
    <3>1. FileHas(w, d, q.mem, 0, NorSize)
      BY <1>0, <2>2, FileWriteOK DEF Stored
    <3> QED BY <3>1 DEF FileHas
  <2> HIDE DEF w
  <2>1. e.q = open /\ e.d = w /\ e.alive = TRUE
    BY <1>2 DEF Outcome
  <2>4. \A x \in Addrs : 0 <= x /\ x < 0 + NorSize
    BY SizeOK DEF Addrs
  <2>5. \A x \in Addrs : Loaded(e.d)[x] = q.mem[x]
    BY <2>1, <2>3, <2>4
  <2> QED BY <1>00, <2>1, <2>3, <2>5 DEF NorEnsured
<1>3. CASE e = Outcome(RamOnly(q), d, TRUE)
  <2>1. e.q = RamOnly(q) /\ e.d = d /\ e.alive = TRUE
    BY <1>3 DEF Outcome
  <2> QED BY <1>0, <1>00, <2>1 DEF NorEnsured
<1> QED BY <1>1, <1>2, <1>3, <1>4

LEMMA WriteThroughOK ==
  ASSUME Faults = {}, NEW q, NEW d, NEW X, NorStale(q, d, X), NEW off \in Nat, NEW len \in Nat,
         off + len <= NorSize, NEW o \in WriteThrough(q, d, off, len)
  PROVE  NorWrote(o, q, d, off, len, X)
<1>0. /\ q \in Qspi /\ q.mem \in [Addrs -> BOOLEAN] /\ q.file \in BOOLEAN /\ q.path \in BOOLEAN
      /\ NorFile(d) /\ (q.file => d.exists /\ \A x \in Addrs : x \notin X => Loaded(d)[x] = q.mem[x])
      /\ (~q.file /\ q.path => ~d.exists)
  BY DEF NorStale, Qspi
<1>1. CASE len = 0
  <2>1. o.q = q /\ o.d = d /\ o.alive = TRUE
    <3>1. o = Outcome(q, d, TRUE)
      BY <1>1, Zenon DEF WriteThrough
    <3> QED BY <3>1 DEF Outcome
  <2>2. \A x \in Addrs : ~(off <= x /\ x < off + len)
    BY <1>1, SizeOK DEF Addrs
  <2>3. NorSame(q, q)
    BY <1>0 DEF NorSame
  <2> QED BY <1>0, <2>1, <2>2, <2>3 DEF NorWrote
<1>2. CASE len # 0
  <2>1. PICK e \in EnsureFile(q, d) : o \in IF e.alive /\ e.q.file THEN WriteOpen(e.q, e.d, off, len) ELSE {e}
    BY <1>2, Zenon DEF WriteThrough
  <2>2. NorEnsured(e, q, d, X)
    BY EnsureFileOK
  <2>20. /\ e.alive = TRUE /\ NorFile(e.d) /\ NorSame(e.q, q)
         /\ e.q.file => e.d.exists /\ \A x \in Addrs : x \notin X => Loaded(e.d)[x] = q.mem[x]
         /\ ~e.q.file => e.q.path = FALSE /\ e.d = d
         /\ \A x \in Addrs : Loaded(e.d)[x] = Loaded(d)[x] \/ Loaded(e.d)[x] = q.mem[x]
    BY <2>2 DEF NorEnsured
  <2>21. e.q \in Qspi /\ e.q.mem = q.mem /\ e.q.file \in BOOLEAN /\ NorSame(RamOnly(e.q), e.q)
         /\ RamOnly(e.q).file = FALSE /\ RamOnly(e.q).path = FALSE
    BY <2>20, QspiVariants DEF NorSame, Qspi
  <2>22. NorSame(RamOnly(e.q), q)
    BY <2>20, <2>21 DEF NorSame
  <2> DEFINE part(k) == Stored(e.q, e.d, off, k)
  <2>8. ASSUME e.q.file
        PROVE  \/ o = Outcome(e.q, part(len), TRUE)
               \/ \E k \in 1..len - 1, alive \in BOOLEAN : o = Outcome(RamOnly(e.q), part(k), alive)
               \/ o = Outcome(RamOnly(e.q), e.d, TRUE)
    <3>1. o \in WriteOpen(e.q, e.d, off, len)
      BY <2>1, <2>20, <2>8, Zenon
    <3>2. o \in CutShort(e.q, e.d, off, 1..len - 1) => 
            \E k \in 1..len - 1, alive \in BOOLEAN : o = Outcome(RamOnly(e.q), part(k), alive)
      <4> HIDE DEF part
      <4> QED BY DEF CutShort, part
    <3> QED BY <3>1, <3>2, Zenon DEF WriteOpen
  <2>3. CASE ~e.q.file
    <3>1. o = e
      BY <2>1, <2>3, Zenon
    <3>2. e.q.path = FALSE
      BY <2>3, <2>20
    <3> QED BY <2>20, <2>3, <3>1, <3>2 DEF NorWrote
  <2>4. ASSUME e.q.file, NEW k \in Nat, off + k <= NorSize
        PROVE  /\ NorFile(part(k)) /\ part(k).exists = TRUE
               /\ \A x \in Addrs : Loaded(part(k))[x] = IF off <= x /\ x < off + k THEN q.mem[x] ELSE Loaded(e.d)[x]
    <3>1. e.d.exists
      BY <2>4, <2>20
    <3>2. e.q.mem \in [Addrs -> BOOLEAN] /\ NorFile(e.d)
      BY <1>0, <2>20, <2>21
    <3> DEFINE f == e.d  m == e.q.mem  w == FileWrite(f, off, Slice(m, off, k))
    <3> HIDE DEF f, m
    <3>3. /\ NorFile(w) /\ w.exists = TRUE
          /\ \A x \in Addrs : Loaded(w)[x] = IF off <= x /\ x < off + k THEN m[x] ELSE Loaded(f)[x]
      <4>1. f.exists /\ m \in [Addrs -> BOOLEAN] /\ NorFile(f) /\ k \in Nat /\ off + k <= NorSize
        BY <2>4, <3>1, <3>2 DEF f, m
      <4>2. FileHas(w, f, m, off, k)
        BY <4>1, FileWriteOK
      <4> HIDE DEF w
      <4> QED BY <4>2 DEF FileHas
    <3>4. w = part(k)
      BY DEF Stored, f, m
    <3> HIDE DEF w, part
    <3> QED BY <3>3, <3>4, <2>21 DEF f, m
  <2> HIDE DEF part
  <2>5. CASE e.q.file /\ o = Outcome(e.q, part(len), TRUE)
    <3>1. o.q = e.q /\ o.d = part(len) /\ o.alive = TRUE
      BY <2>5 DEF Outcome
    <3>2. /\ NorFile(o.d) /\ o.d.exists = TRUE
          /\ \A x \in Addrs : Loaded(o.d)[x] = IF off <= x /\ x < off + len THEN q.mem[x] ELSE Loaded(e.d)[x]
      <4>1. /\ NorFile(part(len)) /\ part(len).exists = TRUE
            /\ \A x \in Addrs : Loaded(part(len))[x] = IF off <= x /\ x < off + len THEN q.mem[x] ELSE Loaded(e.d)[x]
        BY <2>4, <2>5
      <4> QED BY <3>1, <4>1
    <3> QED BY <2>20, <2>5, <3>1, <3>2 DEF NorWrote
  <2>6. ASSUME e.q.file, NEW k \in 1..len - 1, NEW alive \in BOOLEAN, o = Outcome(RamOnly(e.q), part(k), alive)
        PROVE  NorWrote(o, q, d, off, len, X)
    <3>1. o.q = RamOnly(e.q) /\ o.d = part(k) /\ o.alive = alive
      BY <2>6 DEF Outcome
    <3>2. k \in Nat /\ off + k <= NorSize
      BY <2>6, SizeOK
    <3>3. /\ NorFile(o.d) /\ o.d.exists = TRUE
          /\ \A x \in Addrs : Loaded(o.d)[x] = IF off <= x /\ x < off + k THEN q.mem[x] ELSE Loaded(e.d)[x]
      BY <2>4, <2>6, <3>1, <3>2
    <3>6. \A x \in Addrs : Loaded(o.d)[x] = Loaded(d)[x] \/ Loaded(o.d)[x] = q.mem[x]
      BY <2>20, <3>3
    <3> QED BY <2>21, <2>22, <3>1, <3>3, <3>6 DEF NorWrote
  <2>7. CASE e.q.file /\ o = Outcome(RamOnly(e.q), e.d, TRUE)
    <3>1. o.q = RamOnly(e.q) /\ o.d = e.d /\ o.alive = TRUE
      BY <2>7 DEF Outcome
    <3> QED BY <2>20, <2>21, <2>22, <3>1 DEF NorWrote
  <2> QED BY <2>21, <2>3, <2>5, <2>6, <2>7, <2>8
<1> QED BY <1>1, <1>2

-----------------------------------------------------------------------------
(* The SPI NOR flash: the bytes an erase or a program is about             *)

(* A whole number of sectors is before the next or after it.               *)
LEMMA SectorsInOrder ==
  ASSUME NEW j \in Nat, NEW k \in Nat, j < k
  PROVE  j * NorSector + NorSector <= k * NorSector
<1>1. NorSector \in Nat
  BY SizeOK
<1>2. PICK i \in Nat : k = j + 1 + i
  <2>1. k - j - 1 \in Nat /\ k = j + 1 + (k - j - 1)
    OBVIOUS
  <2> QED BY <2>1
<1>3. (j + 1 + i) * NorSector = j * NorSector + NorSector + i * NorSector /\ i * NorSector \in Nat /\ j * NorSector \in Nat
  BY <1>1
<1> QED BY <1>1, <1>2, <1>3

LEMMA SectorDivision ==
  ASSUME NEW y \in Nat
  PROVE  LET k == y \div NorSector
         IN  k \in Nat /\ k * NorSector \in Nat /\ k * NorSector <= y /\ y < k * NorSector + NorSector
<1>1. NorSector \in Nat \ {0}
  BY SizeOK
<1> DEFINE k == y \div NorSector
           m == y % NorSector
<1>2. k \in Nat /\ m \in 0..(NorSector - 1) /\ y = k * NorSector + m
  BY <1>1, Z3
<1>3. k * NorSector \in Nat
  BY <1>1, <1>2
<1> DEFINE p == k * NorSector
<1> HIDE DEF p, k, m
<1>4. k \in Nat /\ p \in Nat /\ p <= y /\ y < p + NorSector
  BY <1>1, <1>2, <1>3 DEF p
<1> QED BY <1>4 DEF p, k

(* A sector is an interval of the array.                                   *)
LEMMA SectorInterval ==
  ASSUME NEW x \in Addrs
  PROVE  LET p == (x \div NorSector) * NorSector
         IN  p \in Nat /\ p + NorSector <= NorSize /\ SectorOf(x) = p..(p + NorSector - 1)
<1>0. NorSize \in Nat \ {0} /\ NorSector \in Nat \ {0} /\ x \in Nat /\ x < NorSize
  BY SizeOK DEF Addrs
<1> DEFINE k == x \div NorSector
           p == k * NorSector
           t == NorSize \div NorSector
<1>1. k \in Nat /\ p \in Nat /\ p <= x /\ x < p + NorSector
  BY <1>0, SectorDivision
<1>2. t \in Nat /\ NorSize = t * NorSector
  <2>1. NorSize % NorSector = 0
    BY NorAssumption
  <2> QED BY <1>0, <2>1, Z3
<1>3. p + NorSector <= NorSize
  <2>1. CASE k < t
    BY <1>1, <1>2, <2>1, SectorsInOrder
  <2>2. CASE k = t
    <3>1. p = NorSize
      BY <1>2, <2>2
    <3> HIDE DEF p, k, t
    <3> QED BY <1>0, <1>1, <3>1
  <2>3. CASE t < k
    <3>1. NorSize + NorSector <= p
      BY <1>1, <1>2, <2>3, SectorsInOrder
    <3> HIDE DEF p, k, t
    <3> QED BY <1>0, <1>1, <3>1
  <2> QED BY <1>1, <1>2, <2>1, <2>2, <2>3
<1>4. ASSUME NEW y \in Nat PROVE (y \div NorSector = k) <=> (p <= y /\ y < p + NorSector)
  <2> DEFINE j == y \div NorSector
             u == j * NorSector
  <2>1. j \in Nat /\ u \in Nat /\ u <= y /\ y < u + NorSector
    BY SectorDivision
  <2>2. CASE j = k
    BY <2>1, <2>2
  <2>3. CASE j < k
    <3>1. u + NorSector <= p
      BY <1>1, <2>1, <2>3, SectorsInOrder
    <3> HIDE DEF p, u, j, k
    <3> QED BY <1>0, <1>1, <2>1, <2>3, <3>1 DEF j
  <2>4. CASE k < j
    <3>1. p + NorSector <= u
      BY <1>1, <2>1, <2>4, SectorsInOrder
    <3> HIDE DEF p, u, j, k
    <3> QED BY <1>0, <1>1, <2>1, <2>4, <3>1 DEF j
  <2> QED BY <1>1, <2>1, <2>2, <2>3, <2>4
<1> HIDE DEF p, k
<1>5. SectorOf(x) = {y \in Addrs : y \div NorSector = k}
  BY DEF SectorOf, k
<1>6. \A y : y \in SectorOf(x) <=> y \in p..(p + NorSector - 1)
  <2> TAKE y
  <2>1. y \in Addrs <=> y \in Nat /\ y < NorSize
    BY <1>0 DEF Addrs
  <2>2. y \in p..(p + NorSector - 1) <=> y \in Nat /\ p <= y /\ y < p + NorSector
    BY <1>0, <1>1
  <2>3. y \in Nat /\ y < p + NorSector => y < NorSize
    BY <1>0, <1>1, <1>3
  <2> QED BY <1>4, <1>5, <2>1, <2>2, <2>3
<1>7. SectorOf(x) = p..(p + NorSector - 1)
  BY <1>6, Zenon
<1> QED BY <1>1, <1>3, <1>7 DEF p, k

(* base and length of an erase.                                            *)
LowestOf(S) == CHOOSE x \in S : \A y \in S : x <= y

LEMMA EraseBounds ==
  ASSUME NEW S, NEW p \in Nat, NEW len \in Nat \ {0}, S = p..(p + len - 1)
  PROVE  LowestOf(S) = p /\ Cardinality(S) = len
<1>1. p \in S /\ \A y \in S : p <= y
  OBVIOUS
<1>2. \A x \in S : (\A y \in S : x <= y) => x = p
  OBVIOUS
<1>3. LowestOf(S) = p
  <2>1. \E x \in S : \A y \in S : x <= y
    BY <1>1
  <2> QED BY <1>2, <2>1 DEF LowestOf
<1>4. Cardinality(S) = len
  BY FS_Interval
<1> QED BY <1>3, <1>4

(* Addresses wrap past the end of the array.                               *)
LEMMA Wrapped ==
  ASSUME NEW y \in Nat, y < 2 * NorSize
  PROVE  y % NorSize = IF y < NorSize THEN y ELSE y - NorSize
<1>1. NorSize \in Nat \ {0}
  BY SizeOK
<1> QED BY <1>1, Z3

-----------------------------------------------------------------------------
(* The SPI NOR flash: what a command does                                  *)

(* Nothing was written.                                                    *)
NorQuiet(o, q, d) ==
  /\ o.d = d /\ o.alive = TRUE /\ o.q \in Qspi
  /\ o.q.mem = q.mem /\ o.q.file = q.file /\ o.q.path = q.path

(* The array became m, by a change of the bytes in S, and with it the file *)
(* unless the write was cut short or refused.                              *)
NorStored(o, q, d, S, m) ==
  /\ q.wel = TRUE /\ NorFile(o.d) /\ o.alive \in BOOLEAN
  /\ o.q \in Qspi /\ o.q.mem = m /\ o.q.wel = FALSE
  /\ \A x \in Addrs : x \notin S => m[x] = q.mem[x]
  /\ \A x \in Addrs : Loaded(o.d)[x] = Loaded(d)[x] \/ Loaded(o.d)[x] = m[x]
  /\ o.q.file => /\ o.alive = TRUE /\ o.d.exists
                 /\ \A x \in Addrs : Loaded(o.d)[x] = m[x]
  /\ ~o.q.file /\ o.q.path => ~o.d.exists

LEMMA EraseRangeOK ==
  ASSUME Faults = {}, NEW q, NEW d, QspiOK(q, d), q.wel = TRUE, NEW op \in {"BULK", "ERASE"},
         NEW o \in EraseRange(q, d, op)
  PROVE  LET S == IF op = "BULK" THEN Addrs ELSE SectorOf(q.ar)
         IN  NorStored(o, q, d, S, Erased(q.mem, S))
<1> DEFINE S == IF op = "BULK" THEN Addrs ELSE SectorOf(q.ar)
           m == Erased(q.mem, S)
           r == [q EXCEPT !.wel = FALSE, !.tcf = TRUE, !.mem = m]
<1>0. NorSize \in Nat \ {0} /\ NorSector \in Nat \ {0} /\ NorSector <= NorSize
  BY SizeOK
<1>1. q \in Qspi /\ q.ar \in Addrs /\ q.mem \in [Addrs -> BOOLEAN]
  BY DEF QspiOK, Qspi
<1>2. q.ar % NorSize = q.ar
  <2>1. q.ar \in Nat /\ q.ar < NorSize /\ q.ar < 2 * NorSize
    BY <1>0, <1>1 DEF Addrs
  <2> HIDE DEF S
  <2> QED BY <2>1, Wrapped
<1>3. PICK p \in Nat, len \in Nat \ {0} : p + len <= NorSize /\ S = p..(p + len - 1)
  <2>1. CASE op = "BULK"
    <3>1. 0 \in Nat /\ NorSize \in Nat \ {0} /\ 0 + NorSize <= NorSize /\ S = 0..(0 + NorSize - 1)
      BY <1>0, <2>1 DEF Addrs
    <3> HIDE DEF S
    <3> QED BY <3>1
  <2>2. CASE op # "BULK"
    <3> DEFINE p == (q.ar \div NorSector) * NorSector
    <3>1. p \in Nat /\ p + NorSector <= NorSize /\ S = p..(p + NorSector - 1)
      BY <1>1, <2>2, SectorInterval
    <3> HIDE DEF S, p
    <3> QED BY <1>0, <3>1
  <2> QED BY <2>1, <2>2
<1>4. o \in WriteThrough(r, d, p, len)
  <2>1. S = IF op = "BULK" THEN Addrs ELSE SectorOf(q.ar % NorSize)
    BY <1>2, Zenon
  <2>2. o \in WriteThrough(r, d, LowestOf(S), Cardinality(S))
    BY <2>1, Zenon DEF EraseRange, LowestOf
  <2>3. LowestOf(S) = p /\ Cardinality(S) = len
    <3> HIDE DEF S
    <3> QED BY <1>3, EraseBounds
  <2> QED BY <2>2, <2>3, Zenon
<1> HIDE DEF S
<1>5. m \in [Addrs -> BOOLEAN] /\ \A x \in Addrs : x \notin S => m[x] = q.mem[x]
  BY <1>1 DEF Erased, ERASED
<1> HIDE DEF m
<1>6. r \in Qspi /\ r.mem = m /\ r.wel = FALSE /\ r.file = q.file /\ r.path = q.path
  BY <1>1, <1>5 DEF Qspi
<1> HIDE DEF r
<1>7. NorStale(r, d, S)
  BY <1>5, <1>6 DEF NorStale, QspiOK
<1>8. NorWrote(o, r, d, p, len, S)
  BY <1>3, <1>4, <1>7, WriteThroughOK
<1>9. \A x \in Addrs : x \in S => p <= x /\ x < p + len
  BY <1>3
<1>10. NorStored(o, q, d, S, m)
  BY <1>5, <1>6, <1>8, <1>9 DEF NorStored, NorWrote, NorSame
<1> QED BY <1>10 DEF m, S

LEMMA DoEraseOK ==
  ASSUME Faults = {}, NEW q, NEW d, QspiOK(q, d), NEW op \in {"BULK", "ERASE"}, NEW o \in DoErase(q, d, op)
  PROVE  LET S == IF op = "BULK" THEN Addrs ELSE SectorOf(q.ar)
         IN  \/ NorStored(o, q, d, S, Erased(q.mem, S))
             \/ NorQuiet(o, q, d) /\ q.wel = FALSE /\ o.q.wel = FALSE
<1>1. q \in Qspi /\ q.wel \in BOOLEAN
  BY DEF QspiOK, Qspi
<1>2. CASE q.wel = TRUE
  <2>1. o \in EraseRange(q, d, op)
    BY <1>2, Zenon DEF DoErase
  <2> QED BY <1>2, <2>1, EraseRangeOK
<1>3. CASE q.wel = FALSE
  <2> DEFINE r == [q EXCEPT !.tcf = TRUE]
  <2>1. o = Outcome(r, d, TRUE)
    BY <1>3, Zenon DEF DoErase
  <2>2. r \in Qspi /\ r.mem = q.mem /\ r.wel = q.wel /\ r.file = q.file /\ r.path = q.path
    BY <1>1 DEF Qspi
  <2> HIDE DEF r
  <2>3. o.q = r /\ o.d = d /\ o.alive = TRUE
    BY <2>1 DEF Outcome
  <2> QED BY <1>3, <2>2, <2>3 DEF NorQuiet
<1> QED BY <1>1, <1>2, <1>3

(* The bytes a program changes lie in the two segments it writes through.  *)
ProgramSet(a, n) == {(a + i) % NorSize : i \in 0..n - 1}

LEMMA SegmentsCover ==
  ASSUME NEW a \in Addrs, NEW n \in Nat, n <= NorSize, NEW x \in ProgramSet(a, n)
  PROVE  LET first == IF n < NorSize - a THEN n ELSE NorSize - a
         IN  (a <= x /\ x < a + first) \/ (0 <= x /\ x < 0 + (n - first))
<1>0. NorSize \in Nat \ {0} /\ a \in Nat /\ a < NorSize
  BY SizeOK DEF Addrs
<1>1. PICK i \in 0..n - 1 : x = (a + i) % NorSize
  BY DEF ProgramSet
<1>2. a + i \in Nat /\ a + i < 2 * NorSize
  BY <1>0
<1>3. x = IF a + i < NorSize THEN a + i ELSE (a + i) - NorSize
  <2> DEFINE y == a + i
  <2> HIDE DEF y
  <2>1. y \in Nat /\ y < 2 * NorSize /\ x = y % NorSize
    BY <1>1, <1>2 DEF y
  <2>2. y % NorSize = IF y < NorSize THEN y ELSE y - NorSize
    BY <2>1, Wrapped
  <2>3. x = IF y < NorSize THEN y ELSE y - NorSize
    BY <2>1, <2>2, Zenon
  <2> QED BY <2>3, Zenon DEF y
<1> QED BY <1>0, <1>3

LEMMA ProgrammedOK ==
  ASSUME NEW m \in [Addrs -> BOOLEAN], NEW a \in Addrs, NEW s \in Seq(BOOLEAN)
  PROVE  /\ Programmed(m, a, s) \in [Addrs -> BOOLEAN]
         /\ \A x \in Addrs : x \notin ProgramSet(a, Len(s)) => Programmed(m, a, s)[x] = m[x]
<1>0. Len(s) \in Nat /\ a \in Int
  BY SizeOK DEF Addrs
<1>1. Programmed(m, a, s) \in [Addrs -> BOOLEAN]
  BY Zenon DEF Programmed
<1>2. ASSUME NEW x \in Addrs, x \notin ProgramSet(a, Len(s))
      PROVE  Programmed(m, a, s)[x] = m[x]
  <2>1. ASSUME NEW i \in 1..Len(s) PROVE x # (a + i - 1) % NorSize
    <3>1. i - 1 \in 0..Len(s) - 1 /\ a + i - 1 = a + (i - 1)
      BY <1>0
    <3>2. (a + (i - 1)) % NorSize \in ProgramSet(a, Len(s))
      BY <3>1, Zenon DEF ProgramSet
    <3> QED BY <1>2, <3>1, <3>2, Zenon
  <2> DEFINE kept == \A i \in 1..Len(s) : x = (a + i - 1) % NorSize => s[i]
  <2>2. Programmed(m, a, s)[x] = (m[x] /\ kept)
    BY Zenon DEF Programmed
  <2>3. m[x] \in BOOLEAN
    OBVIOUS
  <2>4. kept
    BY <2>1, Zenon
  <2> HIDE DEF kept
  <2>5. (m[x] /\ kept) = m[x]
    BY <2>3, <2>4
  <2> QED BY <2>2, <2>3, <2>4
<1> QED BY <1>1, <1>2

LEMMA DoProgramOK ==
  ASSUME Faults = {}, NEW q, NEW d, QspiOK(q, d), Len(q.wr_buf) <= NorSize, NEW o \in DoProgram(q, d)
  PROVE  \/ NorStored(o, q, d, ProgramSet(q.ar, Len(q.wr_buf)), Programmed(q.mem, q.ar, q.wr_buf))
         \/ NorQuiet(o, q, d) /\ q.wel = FALSE /\ o.q.wel = FALSE
<1> DEFINE a == q.ar
           n == Len(q.wr_buf)
           first == IF n < NorSize - a THEN n ELSE NorSize - a
           rest == n - first
           q1 == [q EXCEPT !.wr_buf = <<>>, !.tcf = TRUE]
           m == Programmed(q.mem, a, q.wr_buf)
           r == [q1 EXCEPT !.wel = FALSE, !.mem = m]
           S == ProgramSet(a, n)
<1>0. /\ q \in Qspi /\ q.wel \in BOOLEAN /\ a \in Addrs /\ q.mem \in [Addrs -> BOOLEAN]
      /\ q.wr_buf \in Seq(BOOLEAN) /\ n \in Nat /\ n <= NorSize
  BY DEF QspiOK, Qspi
<1>1. NorSize \in Nat \ {0} /\ a \in Nat /\ a < NorSize /\ a < 2 * NorSize
  BY <1>0, SizeOK DEF Addrs
<1>2. a % NorSize = a
  <2> HIDE DEF a
  <2> QED BY <1>1, Wrapped
<1>3. q1 \in Qspi /\ q1.mem = q.mem /\ q1.wel = q.wel /\ q1.file = q.file /\ q1.path = q.path
  <2> DEFINE none == <<>>
  <2>1. none \in Seq(BOOLEAN)
    OBVIOUS
  <2> HIDE DEF none
  <2>2. LET u == [q EXCEPT !.wr_buf = none, !.tcf = TRUE]
        IN  u \in Qspi /\ u.mem = q.mem /\ u.wel = q.wel /\ u.file = q.file /\ u.path = q.path
    BY <1>0, <2>1 DEF Qspi
  <2> QED BY <2>2 DEF none
<1>30. o \in ProgramSegments(q, d, 2)
  BY Zenon DEF DoProgram
<1>4. CASE q.wel = FALSE
  <2>1. o = Outcome(q1, d, TRUE)
    BY <1>4, <1>30, Zenon DEF ProgramSegments
  <2> HIDE DEF q1
  <2>2. o.q = q1 /\ o.d = d /\ o.alive = TRUE
    BY <2>1 DEF Outcome
  <2> QED BY <1>3, <1>4, <2>2 DEF NorQuiet
<1>5. CASE q.wel = TRUE
  <2>1. PICK e \in WriteThrough(r, d, a, first) : o \in IF e.alive THEN WriteThrough(e.q, e.d, 0, rest) ELSE {e}
    <3>1. o \in UNION {IF e.alive THEN WriteThrough(e.q, e.d, 0, rest) ELSE {e} : e \in WriteThrough(r, d, a, first)}
      BY <1>2, <1>5, <1>30, Zenon DEF ProgramSegments
    <3> HIDE DEF r, first, rest
    <3> QED BY <3>1, Zenon
  <2>2. /\ m \in [Addrs -> BOOLEAN]
        /\ \A x \in Addrs : x \notin S => m[x] = q.mem[x]
    <3> HIDE DEF a
    <3> QED BY <1>0, ProgrammedOK
  <2> HIDE DEF m
  <2>3. r \in Qspi /\ r.mem = m /\ r.wel = FALSE /\ r.file = q.file /\ r.path = q.path
    <3> HIDE DEF q1
    <3> QED BY <1>3, <2>2 DEF Qspi
  <2> HIDE DEF r, q1
  <2>4. NorStale(r, d, S)
    BY <2>2, <2>3 DEF NorStale, QspiOK
  <2>5. first \in Nat /\ a + first <= NorSize /\ rest \in Nat /\ 0 + rest <= NorSize /\ 0 \in Nat
    <3> HIDE DEF a, n
    <3>1. n \in Nat /\ n <= NorSize /\ a \in Nat /\ a < NorSize /\ NorSize \in Nat
      BY <1>0, <1>1
    <3>2. CASE n < NorSize - a
      <4>1. first = n /\ rest = n - n
        BY <3>2
      <4> HIDE DEF first, rest
      <4> QED BY <3>1, <3>2, <4>1
    <3>3. CASE ~(n < NorSize - a)
      <4>1. first = NorSize - a /\ rest = n - (NorSize - a)
        BY <3>3
      <4> HIDE DEF first, rest
      <4> QED BY <3>1, <3>3, <4>1
    <3> QED BY <3>2, <3>3
  <2>6. \A x \in Addrs : x \in S => (a <= x /\ x < a + first) \/ (0 <= x /\ x < 0 + rest)
    <3> HIDE DEF a, n
    <3> QED BY <1>0, SegmentsCover
  <2> HIDE DEF first, rest, S, a, n
  <2>7. NorWrote(e, r, d, a, first, S)
    BY <1>1, <2>1, <2>4, <2>5, WriteThroughOK
  <2>8. CASE e.alive = FALSE
    <3>1. o = e
      BY <2>1, <2>8, Zenon
    <3>2. NorStored(o, q, d, S, m)
      BY <1>5, <2>2, <2>3, <2>7, <2>8, <3>1 DEF NorStored, NorWrote, NorSame
    <3> QED BY <3>2 DEF S, m, a, n
  <2>9. CASE e.alive = TRUE
    <3> DEFINE X == {x \in S : ~(a <= x /\ x < a + first)}
    <3>1. o \in WriteThrough(e.q, e.d, 0, rest)
      BY <2>1, <2>9, Zenon
    <3>2. NorStale(e.q, e.d, X)
      BY <2>3, <2>7, <2>9 DEF NorStale, NorWrote, NorSame
    <3>3. \A x \in Addrs : x \in X => 0 <= x /\ x < 0 + rest
      BY <2>6
    <3> HIDE DEF X
    <3>4. NorWrote(o, e.q, e.d, 0, rest, X)
      BY <2>5, <3>1, <3>2, WriteThroughOK
    <3>5. NorSame(o.q, r)
      BY <2>7, <3>4 DEF NorWrote, NorSame
    <3>6. e.q.mem = m
      BY <2>3, <2>7 DEF NorWrote, NorSame
    <3>7. \A x \in Addrs : Loaded(o.d)[x] = Loaded(d)[x] \/ Loaded(o.d)[x] = m[x]
      BY <2>3, <2>7, <3>4, <3>6 DEF NorWrote
    <3>8. /\ NorFile(o.d) /\ o.alive \in BOOLEAN
          /\ o.q.file => /\ o.alive = TRUE /\ o.d.exists
                         /\ \A x \in Addrs : Loaded(o.d)[x] = m[x]
          /\ ~o.q.file /\ o.q.path => ~o.d.exists
      BY <3>3, <3>4, <3>6 DEF NorWrote
    <3>9. NorStored(o, q, d, S, m)
      BY <1>5, <2>2, <2>3, <3>5, <3>7, <3>8 DEF NorStored, NorSame
    <3> QED BY <3>9 DEF S, m, a, n
  <2>10. e.alive \in BOOLEAN
    BY <2>7 DEF NorWrote
  <2> QED BY <2>8, <2>9, <2>10
<1> QED BY <1>0, <1>4, <1>5

(* An access that starts or goes on with a command and writes nothing.     *)
LEMMA QuietOutcome ==
  ASSUME NEW q, NEW d, NEW r \in Qspi, r.mem = q.mem, r.file = q.file, r.path = q.path
  PROVE  LET o == Outcome(r, d, TRUE) IN NorQuiet(o, q, d) /\ o.q = r
<1> DEFINE o == Outcome(r, d, TRUE)
<1>1. o.q = r /\ o.d = d /\ o.alive = TRUE
  BY DEF Outcome
<1> QED BY <1>1 DEF NorQuiet

(* Where the controller is after DLR and CCR.                              *)
CcrLeaves(q, r, op) ==
  /\ op \notin {"WREN", "WRDI"} => r.wel = q.wel
  /\ op = "WREN" => r.wel = TRUE
  /\ op = "WRDI" => r.wel = FALSE
  /\ op = "READ" => r.xfer.k = "ReadAtAddr"
  /\ op = "ERASE" => r.xfer = [k |-> "WriteAtAddr", data |-> FALSE]
  /\ op = "PROGRAM" => r.xfer = [k |-> "WriteAtAddr", data |-> TRUE] /\ r.wr_buf = <<>> /\ r.dlr = q.dlr

LEMMA XferTypes ==
  /\ Idle \in Xfers /\ \A n \in Nat : [k |-> "ReadAtAddr", len |-> n] \in Xfers
  /\ \A b \in BOOLEAN : [k |-> "WriteAtAddr", data |-> b] \in Xfers
  /\ \A n \in Nat : [k |-> "WriteData", remaining |-> n] \in Xfers
<1>1. Idle \in Xfers
  BY Zenon DEF Xfers
<1>2. ASSUME NEW n \in Nat PROVE [k |-> "ReadAtAddr", len |-> n] \in Xfers
  <2>1. [k |-> "ReadAtAddr", len |-> n] \in [k : {"ReadAtAddr"}, len : Nat]
    OBVIOUS
  <2> QED BY <2>1, Zenon DEF Xfers
<1>3. ASSUME NEW b \in BOOLEAN PROVE [k |-> "WriteAtAddr", data |-> b] \in Xfers
  <2>1. [k |-> "WriteAtAddr", data |-> b] \in [k : {"WriteAtAddr"}, data : BOOLEAN]
    OBVIOUS
  <2> QED BY <2>1, Zenon DEF Xfers
<1>4. ASSUME NEW n \in Nat PROVE [k |-> "WriteData", remaining |-> n] \in Xfers
  <2>1. [k |-> "WriteData", remaining |-> n] \in [k : {"WriteData"}, remaining : Nat]
    OBVIOUS
  <2> QED BY <2>1, Zenon DEF Xfers
<1> QED BY <1>1, <1>2, <1>3, <1>4

LEMMA ResponseTypes ==
  ASSUME NEW q \in Qspi, NEW n \in Nat
  PROVE  /\ \A op : BuildResponse(q, op, n) \in Seq(BOOLEAN)
         /\ \A a \in Addrs : ReadMem(q, a, n) \in Seq(BOOLEAN)
<1>0. q.mem \in [Addrs -> BOOLEAN] /\ q.wel \in BOOLEAN
  BY DEF Qspi
<1>1. ASSUME NEW op PROVE BuildResponse(q, op, n) \in [1..n -> BOOLEAN]
  BY <1>0, Zenon DEF BuildResponse
<1>2. ASSUME NEW a \in Addrs PROVE ReadMem(q, a, n) \in [1..n -> BOOLEAN]
  <2>1. ASSUME NEW i \in 1..n PROVE (a + i - 1) % NorSize \in Addrs
    <3>1. NorSize \in Nat \ {0} /\ a \in Int /\ i \in Int
      BY SizeOK DEF Addrs
    <3>2. \A y \in Int : y % NorSize \in 0..(NorSize - 1)
      BY <3>1
    <3> QED BY <3>1, <3>2 DEF Addrs
  <2>2. ASSUME NEW i \in 1..n PROVE q.mem[(a + i - 1) % NorSize] \in BOOLEAN
    BY <1>0, <2>1, Zenon
  <2> QED BY <2>2, Zenon DEF ReadMem
<1>3. \A f \in [1..n -> BOOLEAN] : f \in Seq(BOOLEAN)
  OBVIOUS
<1> QED BY <1>1, <1>2, <1>3, Zenon

LEMMA CcrOK ==
  ASSUME Faults = {}, NEW q, NEW d, QspiOK(q, d), NEW op \in NorOps, NEW o \in Ccr(q, d, op)
  PROVE  \/ NorQuiet(o, q, d) /\ CcrLeaves(q, o.q, op) /\ (op = "BULK" => q.wel = FALSE)
         \/ op = "BULK" /\ NorStored(o, q, d, Addrs, Erased(q.mem, Addrs))
<1> DEFINE w == [q EXCEPT !.mode_read = FALSE, !.wr_buf = <<>>]
           none == <<>>
           idle == Idle
<1>0. q \in Qspi /\ q.dlr + 1 \in Nat /\ q.dlr \in Nat
  BY DEF QspiOK, Qspi
<1>1. o \in Decode(q, w, d, op)
  BY Zenon DEF Ccr
<1>2. none \in Seq(BOOLEAN)
  OBVIOUS
<1>20. idle \in Xfers
  BY XferTypes
<1> HIDE DEF none, idle
<1>3. /\ w \in Qspi /\ w.wel = q.wel /\ w.mem = q.mem /\ w.file = q.file /\ w.path = q.path /\ w.wr_buf = <<>>
      /\ w.dlr = q.dlr
  <2>1. LET u == [q EXCEPT !.mode_read = FALSE, !.wr_buf = none]
        IN  /\ u \in Qspi /\ u.wel = q.wel /\ u.mem = q.mem /\ u.file = q.file /\ u.path = q.path
            /\ u.wr_buf = none /\ u.dlr = q.dlr
    BY <1>0, <1>2 DEF Qspi
  <2> QED BY <2>1 DEF none
<1> HIDE DEF w
<1>4. CASE op \in ReadOps
  <2> DEFINE s == IF op \in Addressed THEN <<>> ELSE BuildResponse(q, op, q.dlr + 1)
             f == IF op \in Addressed THEN [k |-> "ReadAtAddr", len |-> q.dlr + 1] ELSE Idle
             r == [q EXCEPT !.resp = s, !.xfer = f, !.mode_read = TRUE, !.tcf = FALSE]
  <2>1. o = Outcome(r, d, TRUE)
    <3>1. op \notin Addressed \ ReadOps /\ op \notin {"WREN", "WRDI"} /\ op # "BULK"
      BY <1>4 DEF ReadOps
    <3> QED BY <1>1, <1>4, <3>1, Zenon DEF Decode
  <2>2. s \in Seq(BOOLEAN) /\ f \in Xfers
    BY <1>0, <1>2, <1>20, ResponseTypes, XferTypes, Zenon DEF none, idle
  <2>3. op = "READ" => f.k = "ReadAtAddr"
    BY DEF Addressed
  <2> HIDE DEF s, f
  <2>4. /\ r \in Qspi /\ r.mem = q.mem /\ r.file = q.file /\ r.path = q.path
        /\ r.wel = q.wel /\ r.xfer = f
    BY <1>0, <2>2 DEF Qspi
  <2> HIDE DEF r
  <2>5. NorQuiet(o, q, d) /\ o.q = r
    BY <1>0, <2>1, <2>4, QuietOutcome
  <2>6. op \notin {"WREN", "WRDI", "ERASE", "PROGRAM", "BULK"}
    BY <1>4 DEF ReadOps
  <2> QED BY <2>3, <2>4, <2>5, <2>6 DEF CcrLeaves
<1>5. CASE op \in {"WREN", "WRDI"}
  <2> DEFINE v == (op = "WREN")
             r == [w EXCEPT !.wel = v, !.xfer = idle, !.tcf = TRUE]
  <2>1. o = Outcome(r, d, TRUE)
    <3>1. op \notin ReadOps /\ op \notin Addressed \ ReadOps /\ op # "BULK"
      BY <1>5 DEF ReadOps, Addressed
    <3> QED BY <1>1, <1>5, <3>1, Zenon DEF Decode, idle
  <2>2. v \in BOOLEAN /\ (op = "WREN" => v = TRUE) /\ (op = "WRDI" => v = FALSE)
    OBVIOUS
  <2> HIDE DEF v
  <2>4. /\ r \in Qspi /\ r.mem = w.mem /\ r.file = w.file /\ r.path = w.path /\ r.wel = v
    BY <1>3, <1>20, <2>2 DEF Qspi
  <2> HIDE DEF r
  <2>5. NorQuiet(o, q, d) /\ o.q = r
    BY <1>0, <1>3, <2>1, <2>4, QuietOutcome
  <2>6. op \notin {"READ", "ERASE", "PROGRAM", "BULK"}
    BY <1>5
  <2> QED BY <1>5, <2>2, <2>4, <2>5, <2>6 DEF CcrLeaves
<1>6. CASE op = "BULK"
  <2> DEFINE r == [w EXCEPT !.xfer = idle]
  <2>1. o \in DoErase(r, d, op)
    <3>1. op \notin ReadOps /\ op \notin Addressed \ ReadOps /\ op \notin {"WREN", "WRDI"}
      BY <1>6 DEF ReadOps, Addressed
    <3> QED BY <1>1, <1>6, <3>1, Zenon DEF Decode, idle
  <2>2. /\ r \in Qspi /\ r.mem = w.mem /\ r.file = w.file /\ r.path = w.path /\ r.wel = w.wel
    BY <1>3, <1>20 DEF Qspi
  <2> HIDE DEF r
  <2>3. QspiOK(r, d)
    BY <1>3, <2>2 DEF QspiOK
  <2>4. NorStored(o, r, d, Addrs, Erased(r.mem, Addrs)) \/ (NorQuiet(o, r, d) /\ r.wel = FALSE /\ o.q.wel = FALSE)
    BY <1>6, <2>1, <2>3, DoEraseOK
  <2>5. CASE NorStored(o, r, d, Addrs, Erased(r.mem, Addrs))
    <3>1. NorStored(o, q, d, Addrs, Erased(q.mem, Addrs))
      BY <1>3, <2>2, <2>5 DEF NorStored
    <3> QED BY <1>6, <3>1
  <2>6. CASE NorQuiet(o, r, d) /\ r.wel = FALSE /\ o.q.wel = FALSE
    <3>1. NorQuiet(o, q, d) /\ q.wel = FALSE /\ o.q.wel = q.wel
      BY <1>3, <2>2, <2>6 DEF NorQuiet
    <3> QED BY <1>6, <3>1 DEF CcrLeaves
  <2> QED BY <2>4, <2>5, <2>6
<1>7. CASE op \in {"ERASE", "PROGRAM"}
  <2> DEFINE b == (op = "PROGRAM")
             f == [k |-> "WriteAtAddr", data |-> b]
             r == [w EXCEPT !.xfer = f, !.tcf = FALSE]
  <2>1. o = Outcome(r, d, TRUE)
    <3>1. op \notin ReadOps /\ op \in Addressed /\ op \notin {"WREN", "WRDI"} /\ op # "BULK"
      BY <1>7 DEF ReadOps, Addressed
    <3> QED BY <1>1, <3>1, Zenon DEF Decode
  <2>2. b \in BOOLEAN /\ (op = "PROGRAM" => b = TRUE) /\ (op = "ERASE" => b = FALSE)
    OBVIOUS
  <2> HIDE DEF b
  <2>3. f \in Xfers
    BY <2>2, XferTypes
  <2>30. /\ op = "PROGRAM" => f = [k |-> "WriteAtAddr", data |-> TRUE]
         /\ op = "ERASE" => f = [k |-> "WriteAtAddr", data |-> FALSE]
    BY <2>2
  <2> HIDE DEF f
  <2>4. /\ r \in Qspi /\ r.mem = w.mem /\ r.file = w.file /\ r.path = w.path /\ r.wel = w.wel
        /\ r.xfer = f /\ r.wr_buf = w.wr_buf /\ r.dlr = w.dlr
    BY <1>3, <2>3 DEF Qspi
  <2> HIDE DEF r
  <2>5. NorQuiet(o, q, d) /\ o.q = r
    BY <1>0, <1>3, <2>1, <2>4, QuietOutcome
  <2>6. op \notin {"READ", "WREN", "WRDI", "BULK"}
    BY <1>7
  <2> QED BY <1>3, <2>30, <2>4, <2>5, <2>6 DEF CcrLeaves
<1>8. CASE op = "other"
  <2> DEFINE r == [w EXCEPT !.xfer = idle, !.tcf = TRUE]
  <2>1. o = Outcome(r, d, TRUE)
    <3>1. op \notin ReadOps /\ op \notin Addressed /\ op \notin {"WREN", "WRDI"} /\ op # "BULK"
      BY <1>8 DEF ReadOps, Addressed
    <3> QED BY <1>1, <3>1, Zenon DEF Decode, idle
  <2>4. /\ r \in Qspi /\ r.mem = w.mem /\ r.file = w.file /\ r.path = w.path /\ r.wel = w.wel
    BY <1>3, <1>20 DEF Qspi
  <2> HIDE DEF r
  <2>5. NorQuiet(o, q, d) /\ o.q = r
    BY <1>0, <1>3, <2>1, <2>4, QuietOutcome
  <2> QED BY <1>3, <1>8, <2>4, <2>5 DEF CcrLeaves
<1> QED BY <1>4, <1>5, <1>6, <1>7, <1>8 DEF NorOps, ReadOps

(* What a write of AR does, by the transfer that waits for it.             *)
ArDoes(o, q, d, a) ==
  /\ q.xfer.k = "ReadAtAddr" => NorQuiet(o, q, d) /\ o.q.wel = q.wel
  /\ q.xfer = [k |-> "WriteAtAddr", data |-> TRUE] =>
       /\ NorQuiet(o, q, d) /\ o.q.wel = q.wel /\ o.q.ar = a /\ o.q.wr_buf = q.wr_buf
       /\ o.q.xfer = [k |-> "WriteData", remaining |-> q.dlr + 1]
  /\ q.xfer = [k |-> "WriteAtAddr", data |-> FALSE] =>
       \/ NorStored(o, q, d, SectorOf(a), Erased(q.mem, SectorOf(a)))
       \/ NorQuiet(o, q, d) /\ q.wel = FALSE /\ o.q.wel = FALSE

LEMMA ArOK ==
  ASSUME Faults = {}, NEW q, NEW d, QspiOK(q, d), NEW a \in Addrs, NEW o \in Ar(q, d, a)
  PROVE  ArDoes(o, q, d, a)
<1> DEFINE q1 == [q EXCEPT !.ar = a]
           idle == Idle
<1>0. q \in Qspi /\ q.dlr + 1 \in Nat /\ q.dlr \in Nat /\ q.xfer \in Xfers
  BY DEF QspiOK, Qspi
<1>20. idle \in Xfers
  BY XferTypes
<1> HIDE DEF idle
<1>1. /\ q1 \in Qspi /\ q1.wel = q.wel /\ q1.mem = q.mem /\ q1.file = q.file /\ q1.path = q.path
      /\ q1.ar = a /\ q1.wr_buf = q.wr_buf /\ q1.dlr = q.dlr /\ q1.xfer = q.xfer
  BY <1>0 DEF Qspi
<1>2. ASSUME q.xfer.k = "ReadAtAddr" PROVE NorQuiet(o, q, d) /\ o.q.wel = q.wel
  <2> DEFINE s == ReadMem(q1, a, q.xfer.len)
             r == [q1 EXCEPT !.resp = s, !.xfer = idle]
  <2>1. o = Outcome(r, d, TRUE)
    <3>1. q.xfer.k # "WriteAtAddr"
      BY <1>2
    <3> QED BY <1>2, <3>1, Zenon DEF Ar, idle
  <2>2. q.xfer.len \in Nat
    BY <1>0, <1>2 DEF Xfers, Idle
  <2>3. s \in Seq(BOOLEAN)
    <3> HIDE DEF q1
    <3> QED BY <1>1, <2>2, ResponseTypes
  <2> HIDE DEF s, q1
  <2>4. r \in Qspi /\ r.mem = q1.mem /\ r.file = q1.file /\ r.path = q1.path /\ r.wel = q1.wel
    BY <1>1, <1>20, <2>3 DEF Qspi
  <2> HIDE DEF r
  <2>5. NorQuiet(o, q, d) /\ o.q = r
    BY <1>1, <2>1, <2>4, QuietOutcome
  <2> QED BY <1>1, <2>4, <2>5
<1>3. ASSUME q.xfer = [k |-> "WriteAtAddr", data |-> TRUE]
      PROVE  /\ NorQuiet(o, q, d) /\ o.q.wel = q.wel /\ o.q.ar = a /\ o.q.wr_buf = q.wr_buf
             /\ o.q.xfer = [k |-> "WriteData", remaining |-> q.dlr + 1]
  <2> DEFINE f == [k |-> "WriteData", remaining |-> q.dlr + 1]
             r == [q1 EXCEPT !.xfer = f]
  <2>1. o = Outcome(r, d, TRUE)
    <3>1. q.xfer.k = "WriteAtAddr" /\ q.xfer.k # "ReadAtAddr" /\ q.xfer.data = TRUE
      BY <1>3
    <3> QED BY <3>1, Zenon DEF Ar
  <2>3. f \in Xfers
    BY <1>0, XferTypes
  <2> HIDE DEF f, q1
  <2>4. /\ r \in Qspi /\ r.mem = q1.mem /\ r.file = q1.file /\ r.path = q1.path /\ r.wel = q1.wel
        /\ r.ar = q1.ar /\ r.wr_buf = q1.wr_buf /\ r.xfer = f
    BY <1>1, <2>3 DEF Qspi
  <2> HIDE DEF r
  <2>5. NorQuiet(o, q, d) /\ o.q = r
    BY <1>1, <2>1, <2>4, QuietOutcome
  <2> QED BY <1>1, <2>4, <2>5 DEF f
<1>4. ASSUME q.xfer = [k |-> "WriteAtAddr", data |-> FALSE]
      PROVE  \/ NorStored(o, q, d, SectorOf(a), Erased(q.mem, SectorOf(a)))
             \/ NorQuiet(o, q, d) /\ q.wel = FALSE /\ o.q.wel = FALSE
  <2> DEFINE r == [q1 EXCEPT !.xfer = idle]
  <2>1. o \in DoErase(r, d, "ERASE")
    <3>1. q.xfer.k = "WriteAtAddr" /\ q.xfer.k # "ReadAtAddr" /\ q.xfer.data = FALSE
      BY <1>4
    <3> QED BY <3>1, Zenon DEF Ar, idle
  <2> HIDE DEF q1
  <2>2. r \in Qspi /\ r.mem = q1.mem /\ r.file = q1.file /\ r.path = q1.path /\ r.wel = q1.wel /\ r.ar = q1.ar
    BY <1>1, <1>20 DEF Qspi
  <2> HIDE DEF r
  <2>3. QspiOK(r, d)
    BY <1>1, <2>2 DEF QspiOK
  <2>4. \/ NorStored(o, r, d, SectorOf(r.ar), Erased(r.mem, SectorOf(r.ar)))
        \/ NorQuiet(o, r, d) /\ r.wel = FALSE /\ o.q.wel = FALSE
    <3>1. "ERASE" \in {"BULK", "ERASE"} /\ "ERASE" # "BULK"
      OBVIOUS
    <3> QED BY <2>1, <2>3, <3>1, DoEraseOK
  <2>5. r.ar = a /\ r.mem = q.mem /\ r.wel = q.wel /\ r.file = q.file /\ r.path = q.path
    BY <1>1, <2>2
  <2> QED BY <2>4, <2>5 DEF NorStored, NorQuiet
<1> QED BY <1>2, <1>3, <1>4 DEF ArDoes

(* What a byte written to DR does; s is the buffer with it.                *)
DrDoes(o, q, d, n, s) ==
  /\ s \in Seq(BOOLEAN) /\ Len(s) <= n
  /\ Len(s) < n => /\ NorQuiet(o, q, d) /\ o.q.wel = q.wel /\ o.q.ar = q.ar
                   /\ o.q.wr_buf = s /\ o.q.xfer = q.xfer
  /\ Len(s) = n => \/ NorStored(o, q, d, ProgramSet(q.ar, Len(s)), Programmed(q.mem, q.ar, s))
                   \/ NorQuiet(o, q, d) /\ q.wel = FALSE /\ o.q.wel = FALSE

LEMMA DrWriteOK ==
  ASSUME Faults = {}, NEW q, NEW d, QspiOK(q, d), NEW n \in 1..NorLen, q.xfer = [k |-> "WriteData", remaining |-> n],
         Len(q.wr_buf) < n, NEW b \in BOOLEAN, NEW o \in DrWrite(q, d, b)
  PROVE  DrDoes(o, q, d, n, Append(q.wr_buf, b))
<1> DEFINE s == Append(q.wr_buf, b)
           q1 == [q EXCEPT !.wr_buf = s]
           idle == Idle
<1>0. q \in Qspi /\ q.wr_buf \in Seq(BOOLEAN) /\ n \in Nat /\ n <= NorSize
  BY SizeOK DEF QspiOK, Qspi
<1>20. idle \in Xfers
  BY XferTypes
<1>1. s \in Seq(BOOLEAN) /\ Len(s) = Len(q.wr_buf) + 1 /\ Len(s) \in Nat /\ Len(s) <= n
  BY <1>0
<1>2. q.xfer.k = "WriteData" /\ q.xfer.remaining = n
  OBVIOUS
<1> DEFINE t == [q EXCEPT !.wr_buf = Append(@, b)]
<1>3. o \in IF Len(t.wr_buf) >= q.xfer.remaining THEN DoProgram([t EXCEPT !.xfer = Idle], d)
            ELSE {Outcome(t, d, TRUE)}
  BY <1>2, Zenon DEF DrWrite
<1>4. t = q1
  BY Zenon
<1> HIDE DEF s, t, idle
<1>5. /\ q1 \in Qspi /\ q1.wel = q.wel /\ q1.mem = q.mem /\ q1.file = q.file /\ q1.path = q.path
      /\ q1.ar = q.ar /\ q1.wr_buf = s /\ q1.xfer = q.xfer
  BY <1>0, <1>1 DEF Qspi
<1> HIDE DEF q1
<1>6. ASSUME Len(s) < n
      PROVE  /\ NorQuiet(o, q, d) /\ o.q.wel = q.wel /\ o.q.ar = q.ar /\ o.q.wr_buf = s /\ o.q.xfer = q.xfer
  <2>1. ~(Len(t.wr_buf) >= q.xfer.remaining)
    BY <1>0, <1>1, <1>2, <1>4, <1>5, <1>6
  <2>2. o = Outcome(q1, d, TRUE)
    BY <1>3, <1>4, <2>1, Zenon
  <2>3. NorQuiet(o, q, d) /\ o.q = q1
    BY <1>5, <2>2, QuietOutcome
  <2> QED BY <1>5, <2>3
<1>7. ASSUME Len(s) = n
      PROVE  \/ NorStored(o, q, d, ProgramSet(q.ar, Len(s)), Programmed(q.mem, q.ar, s))
             \/ NorQuiet(o, q, d) /\ q.wel = FALSE /\ o.q.wel = FALSE
  <2> DEFINE r == [q1 EXCEPT !.xfer = idle]
  <2>1. Len(t.wr_buf) >= q.xfer.remaining
    BY <1>0, <1>1, <1>2, <1>4, <1>5, <1>7
  <2>2. o \in DoProgram(r, d)
    BY <1>3, <1>4, <2>1, Zenon DEF idle
  <2>3. /\ r \in Qspi /\ r.mem = q1.mem /\ r.file = q1.file /\ r.path = q1.path /\ r.wel = q1.wel
        /\ r.ar = q1.ar /\ r.wr_buf = q1.wr_buf
    BY <1>5, <1>20 DEF Qspi
  <2> HIDE DEF r
  <2>4. QspiOK(r, d)
    BY <1>5, <2>3 DEF QspiOK
  <2>5. Len(r.wr_buf) <= NorSize
    <3>1. r.wr_buf = s
      BY <1>5, <2>3
    <3>2. Len(s) <= NorSize
      BY <1>0, <1>1, SizeOK
    <3> QED BY <3>1, <3>2, Zenon
  <2>6. \/ NorStored(o, r, d, ProgramSet(r.ar, Len(r.wr_buf)), Programmed(r.mem, r.ar, r.wr_buf))
        \/ NorQuiet(o, r, d) /\ r.wel = FALSE /\ o.q.wel = FALSE
    BY <2>2, <2>4, <2>5, DoProgramOK
  <2>7. r.ar = q.ar /\ r.mem = q.mem /\ r.wel = q.wel /\ r.file = q.file /\ r.path = q.path /\ r.wr_buf = s
    BY <1>5, <2>3
  <2> QED BY <2>6, <2>7 DEF NorStored, NorQuiet
<1>8. DrDoes(o, q, d, n, s)
  BY <1>1, <1>6, <1>7 DEF DrDoes
<1> QED BY <1>8 DEF s

-----------------------------------------------------------------------------
(* The SPI NOR flash: steps                                                *)

(* An access that writes nothing.                                          *)
LEMMA TakeQuiet ==
  ASSUME NorInv, norAlive = TRUE, NEW o, NEW c, Take(o, c), NorQuiet(o, qspi, norDisk), NorLink(o.q, c),
         o.q.wel = qspi.wel \/ Target(c) = {}
  PROVE  NorInv' /\ WholeWrite
<1>0. QspiOK(qspi, norDisk) /\ NorPromise /\ NorFile(norDisk)
  BY DEF NorInv
<1>1. o.d = norDisk /\ o.alive = TRUE /\ o.q \in Qspi /\ o.q.mem = qspi.mem /\ o.q.file = qspi.file /\ o.q.path = qspi.path
  BY DEF NorQuiet
<1>2. norDisk' = norDisk /\ norAlive' = TRUE /\ qspi' = o.q /\ norDrv' = c
  BY <1>1 DEF Take
<1>3. norAck \in [Addrs -> SUBSET BOOLEAN]
  BY <1>0 DEF NorPromise
<1>4. norAck' = norAck
  <2> DEFINE New == [x \in Addrs |-> IF x \notin Target(c) THEN norAck[x]
                                     ELSE IF o.q.file THEN {o.q.mem[x]} ELSE BOOLEAN]
  <2>1. norAck' = IF o.q.mem = qspi.mem /\ o.q.wel = qspi.wel THEN norAck ELSE New
    BY Zenon DEF Take
  <2>2. CASE o.q.wel = qspi.wel
    BY <1>1, <2>1, <2>2, Zenon
  <2>3. CASE Target(c) = {}
    <3>1. New = norAck
      BY <1>3, <2>3
    <3> QED BY <2>1, <3>1, Zenon
  <2> QED BY <2>2, <2>3
<1>5. QspiOK(o.q, norDisk)
  BY <1>0, <1>1 DEF QspiOK
<1>6. NorPromise'
  BY <1>0, <1>1, <1>2, <1>4 DEF NorPromise, NorAckedPersist
<1>7. NorInv'
  BY <1>0, <1>2, <1>5, <1>6 DEF NorInv
<1> QED BY <1>1, <1>2, <1>7 DEF WholeWrite

(* An access that completes a program or an erase.                         *)
LEMMA TakeStored ==
  ASSUME NorInv, norAlive = TRUE, NEW o, NEW c, NEW m, Take(o, c),
         NorStored(o, qspi, norDisk, Target(c), m), NorLink(o.q, c),
         m = IF c.op = "PROGRAM" THEN Programmed(qspi.mem, c.a, c.moved) ELSE Erased(qspi.mem, Target(c)),
         c.op = "PROGRAM" => Len(c.moved) = c.n
  PROVE  NorInv' /\ WholeWrite
<1>0. QspiOK(qspi, norDisk) /\ NorPromise /\ NorFile(norDisk) /\ NorLink(qspi, norDrv)
  BY DEF NorInv
<1>1. /\ qspi.wel = TRUE /\ NorFile(o.d) /\ o.alive \in BOOLEAN /\ o.q \in Qspi /\ o.q.mem = m /\ o.q.wel = FALSE
      /\ \A x \in Addrs : x \notin Target(c) => m[x] = qspi.mem[x]
      /\ \A x \in Addrs : Loaded(o.d)[x] = Loaded(norDisk)[x] \/ Loaded(o.d)[x] = m[x]
      /\ o.q.file => o.alive = TRUE /\ o.d.exists /\ \A x \in Addrs : Loaded(o.d)[x] = m[x]
      /\ ~o.q.file /\ o.q.path => ~o.d.exists
  BY DEF NorStored
<1>2. norDisk' = o.d /\ norAlive' = o.alive /\ (o.alive = TRUE => qspi' = o.q /\ norDrv' = c)
  BY DEF Take
<1>3. /\ norAck \in [Addrs -> SUBSET BOOLEAN]
      /\ \A x \in Addrs : Loaded(norDisk)[x] \in norAck[x] /\ qspi.mem[x] \in norAck[x]
  BY <1>0 DEF NorPromise, NorAckedPersist
<1>4. norAck' = [x \in Addrs |-> IF x \notin Target(c) THEN norAck[x]
                                 ELSE IF o.q.file THEN {o.q.mem[x]} ELSE BOOLEAN]
  <2>1. ~(o.q.mem = qspi.mem /\ o.q.wel = qspi.wel)
    BY <1>1
  <2> QED BY <2>1, Zenon DEF Take
<1>5. m \in [Addrs -> BOOLEAN] /\ o.q.file \in BOOLEAN
  BY <1>1 DEF Qspi
<1>6. Loaded(o.d) \in [Addrs -> BOOLEAN]
  BY <1>1, LoadedType
<1>7. ASSUME NEW x \in Addrs
      PROVE  norAck'[x] \in SUBSET BOOLEAN /\ Loaded(o.d)[x] \in norAck'[x] /\ m[x] \in norAck'[x]
  <2>1. CASE x \notin Target(c)
    <3>1. norAck'[x] = norAck[x] /\ m[x] = qspi.mem[x]
      BY <1>1, <1>4, <2>1
    <3> QED BY <1>1, <1>3, <3>1
  <2>2. CASE x \in Target(c) /\ o.q.file = TRUE
    <3>1. norAck'[x] = {m[x]}
      BY <1>1, <1>4, <2>2
    <3>2. Loaded(o.d)[x] = m[x] /\ m[x] \in BOOLEAN
      BY <1>1, <1>5, <2>2
    <3> QED BY <3>1, <3>2
  <2>3. CASE x \in Target(c) /\ o.q.file = FALSE
    <3>1. norAck'[x] = BOOLEAN
      BY <1>4, <2>3
    <3>2. Loaded(o.d)[x] \in BOOLEAN /\ m[x] \in BOOLEAN
      BY <1>5, <1>6
    <3> QED BY <3>1, <3>2
  <2> QED BY <1>5, <2>1, <2>2, <2>3
<1>8. norAck' \in [Addrs -> SUBSET BOOLEAN]
  BY <1>4, <1>7
<1>9. NorPromise'
  BY <1>1, <1>2, <1>7, <1>8 DEF NorPromise, NorAckedPersist
<1>10. QspiOK(o.q, o.d)
  BY <1>1 DEF QspiOK
<1>11. NorInv'
  BY <1>1, <1>2, <1>9, <1>10 DEF NorInv
<1>12. norDrv.armed = TRUE /\ c.armed = FALSE
  BY <1>0, <1>1 DEF NorLink
<1>13. WholeWrite
  <2> SUFFICES ASSUME norAlive' PROVE /\ norDrv.armed /\ ~norDrv'.armed
                                      /\ qspi'.mem = IF norDrv'.op = "PROGRAM" THEN Programmed(qspi.mem, norDrv'.a, norDrv'.moved)
                                                     ELSE Erased(qspi.mem, Target(norDrv'))
                                      /\ norDrv'.op = "PROGRAM" => Len(norDrv'.moved) = norDrv'.n
    BY Zenon DEF WholeWrite
  <2>1. qspi' = o.q /\ norDrv' = c
    BY <1>1, <1>2
  <2>2. qspi'.mem = m
    BY <1>1, <2>1
  <2> QED BY <1>12, <2>1, <2>2, Zenon
<1> QED BY <1>11, <1>13

(* The bytes the driver's command is about.                                *)
LEMMA TargetIs ==
  ASSUME NEW c
  PROVE  /\ c.op = "PROGRAM" => Target(c) = ProgramSet(c.a, c.n)
         /\ c.op = "ERASE" => Target(c) = SectorOf(c.a)
         /\ c.op = "BULK" => Target(c) = Addrs
         /\ c.op \in {"WREN", "WRDI"} => Target(c) = {}
<1>1. ASSUME c.op = "PROGRAM" PROVE Target(c) = ProgramSet(c.a, c.n)
  <2>1. c.op # "ERASE" /\ c.op # "BULK"
    BY <1>1
  <2> QED BY <1>1, <2>1, Zenon DEF Target, ProgramSet
<1>2. ASSUME c.op = "ERASE" PROVE Target(c) = SectorOf(c.a)
  <2>1. c.op # "PROGRAM" /\ c.op # "BULK"
    BY <1>2
  <2> QED BY <1>2, <2>1, Zenon DEF Target
<1>3. ASSUME c.op = "BULK" PROVE Target(c) = Addrs
  <2>1. c.op # "PROGRAM" /\ c.op # "ERASE"
    BY <1>3
  <2> QED BY <1>3, <2>1, Zenon DEF Target
<1>4. ASSUME c.op \in {"WREN", "WRDI"} PROVE Target(c) = {}
  <2>1. c.op # "PROGRAM" /\ c.op # "ERASE" /\ c.op # "BULK"
    BY <1>4
  <2> QED BY <2>1, Zenon DEF Target
<1> QED BY <1>1, <1>2, <1>3, <1>4

DrvFields == {"st", "op", "a", "n", "moved", "armed"}

LEMMA CommandKeeps ==
  ASSUME Faults = {}, NorInv, NEW op \in NorOps, NEW n \in 1..NorLen, NorCommand(op, n)
  PROVE  NorInv' /\ WholeWrite
<1> DEFINE q == [qspi EXCEPT !.dlr = n - 1]
           st == IF op \in Addressed THEN "addr" ELSE "data"
           armed == op = "WREN" \/ (norDrv.armed /\ op \notin {"WRDI", "BULK"})
           c == [NoCommand EXCEPT !.st = st, !.op = op, !.n = n, !.armed = armed]
<1>0. norAlive = TRUE /\ QspiOK(qspi, norDisk) /\ NorLink(qspi, norDrv)
  BY DEF NorInv, NorCommand
<1>00. qspi \in Qspi /\ norDrv.armed \in BOOLEAN /\ qspi.wel = norDrv.armed /\ n - 1 \in Nat /\ n \in Nat
  BY <1>0, SizeOK DEF QspiOK, NorLink
<1>1. PICK o \in Ccr(q, norDisk, op) : Take(o, c)
  BY Zenon DEF NorCommand
<1>2. /\ q \in Qspi /\ q.mem = qspi.mem /\ q.file = qspi.file /\ q.path = qspi.path /\ q.wel = qspi.wel
      /\ q.dlr = n - 1
  BY <1>00 DEF Qspi
<1> HIDE DEF q
<1>3. QspiOK(q, norDisk)
  BY <1>0, <1>2 DEF QspiOK
<1>4. /\ armed \in BOOLEAN /\ (op = "WREN" => armed = TRUE) /\ (op \in {"WRDI", "BULK"} => armed = FALSE)
      /\ op \notin {"WREN", "WRDI", "BULK"} => armed = norDrv.armed
  <2>1. op \in {"WRDI", "BULK"} => op # "WREN"
    OBVIOUS
  <2>2. CASE norDrv.armed = TRUE
    BY <2>1, <2>2, Zenon
  <2>3. CASE norDrv.armed = FALSE
    BY <2>1, <2>3, Zenon
  <2> QED BY <1>00, <2>2, <2>3
<1>5. st \in {"addr", "data"} /\ (st = "addr" => op \in Addressed)
  BY Zenon
<1> HIDE DEF st, armed
<1>6. /\ DOMAIN c = DrvFields /\ c.st = st /\ c.op = op /\ c.n = n /\ c.moved = <<>> /\ c.armed = armed
  BY DEF NoCommand, DrvFields
<1> HIDE DEF c
<1>7. \/ NorQuiet(o, q, norDisk) /\ CcrLeaves(q, o.q, op) /\ (op = "BULK" => q.wel = FALSE)
      \/ op = "BULK" /\ NorStored(o, q, norDisk, Addrs, Erased(q.mem, Addrs))
  BY <1>3, CcrOK
<1>8. CASE NorQuiet(o, q, norDisk) /\ CcrLeaves(q, o.q, op) /\ (op = "BULK" => q.wel = FALSE)
  <2>1. NorQuiet(o, qspi, norDisk)
    BY <1>2, <1>8 DEF NorQuiet
  <2>2. o.q.wel = armed
    <3>1. CASE op = "WREN"
      BY <1>4, <1>8, <3>1 DEF CcrLeaves
    <3>2. CASE op = "WRDI"
      BY <1>4, <1>8, <3>2 DEF CcrLeaves
    <3>3. CASE op = "BULK"
      BY <1>4, <1>8, <3>3 DEF CcrLeaves
    <3>4. CASE op \notin {"WREN", "WRDI", "BULK"}
      BY <1>00, <1>2, <1>4, <1>8, <3>4 DEF CcrLeaves
    <3> QED BY <3>1, <3>2, <3>3, <3>4
  <2>3. st = "addr" => \/ op = "READ" /\ o.q.xfer.k = "ReadAtAddr"
                       \/ op = "ERASE" /\ o.q.xfer = [k |-> "WriteAtAddr", data |-> FALSE]
                       \/ op = "PROGRAM" /\ o.q.xfer = [k |-> "WriteAtAddr", data |-> TRUE]
                                         /\ o.q.wr_buf = <<>> /\ o.q.dlr = n - 1
    BY <1>2, <1>5, <1>8 DEF CcrLeaves, Addressed
  <2>4. st = "data" => op # "PROGRAM"
    BY DEF st, Addressed
  <2>5. NorLink(o.q, c)
    BY <1>4, <1>5, <1>6, <2>2, <2>3, <2>4 DEF NorLink, DrvFields
  <2>6. o.q.wel = qspi.wel \/ Target(c) = {}
    <3>1. CASE op \in {"WREN", "WRDI"}
      BY <1>6, <3>1, TargetIs
    <3>2. CASE op \notin {"WREN", "WRDI"}
      BY <1>2, <1>8, <3>2 DEF CcrLeaves
    <3> QED BY <3>1, <3>2
  <2> QED BY <1>0, <1>1, <2>1, <2>5, <2>6, TakeQuiet
<1>9. CASE op = "BULK" /\ NorStored(o, q, norDisk, Addrs, Erased(q.mem, Addrs))
  <2>1. NorStored(o, qspi, norDisk, Addrs, Erased(qspi.mem, Addrs))
    BY <1>2, <1>9 DEF NorStored
  <2>2. Target(c) = Addrs /\ c.op # "PROGRAM"
    BY <1>6, <1>9, TargetIs
  <2>3. o.q.wel = armed
    BY <1>4, <1>9, <2>1 DEF NorStored
  <2>4. NorLink(o.q, c)
    <3>1. st # "addr"
      BY <1>5, <1>9 DEF Addressed
    <3> QED BY <1>4, <1>5, <1>6, <2>2, <2>3, <3>1 DEF NorLink, DrvFields
  <2> DEFINE m == Erased(qspi.mem, Addrs)
  <2>5. NorStored(o, qspi, norDisk, Target(c), m)
    BY <2>1, <2>2
  <2>6. m = IF c.op = "PROGRAM" THEN Programmed(qspi.mem, c.a, c.moved) ELSE Erased(qspi.mem, Target(c))
    BY <2>2, Zenon
  <2> HIDE DEF m
  <2> QED BY <1>0, <1>1, <2>2, <2>4, <2>5, <2>6, TakeStored
<1> QED BY <1>7, <1>8, <1>9

LEMMA AddressKeeps ==
  ASSUME Faults = {}, NorInv, NEW a \in Addrs, NorAddress(a)
  PROVE  NorInv' /\ WholeWrite
<1> DEFINE armed == norDrv.armed /\ norDrv.op # "ERASE"
           c == [norDrv EXCEPT !.st = "data", !.a = a, !.armed = @ /\ norDrv.op # "ERASE"]
           e == [norDrv EXCEPT !.st = "data", !.a = a, !.armed = armed]
<1>0. norAlive = TRUE /\ QspiOK(qspi, norDisk) /\ NorLink(qspi, norDrv) /\ norDrv.st = "addr"
  BY DEF NorInv, NorAddress
<1>00. norDrv.armed \in BOOLEAN /\ qspi.wel = norDrv.armed
  BY <1>0 DEF NorLink
<1>1. PICK o \in Ar(qspi, norDisk, a) : Take(o, c)
  BY Zenon DEF NorAddress
<1>2. c = e
  BY Zenon
<1>3. armed \in BOOLEAN /\ (norDrv.op = "ERASE" => armed = FALSE) /\ (norDrv.op # "ERASE" => armed = norDrv.armed)
  BY <1>00
<1> HIDE DEF armed, c
<1>4. /\ DOMAIN e = DrvFields /\ e.st = "data" /\ e.a = a /\ e.op = norDrv.op /\ e.n = norDrv.n
      /\ e.moved = norDrv.moved /\ e.armed = armed
  BY <1>0 DEF NorLink, DrvFields
<1> HIDE DEF e
<1>5. Take(o, e)
  BY <1>1, <1>2, Zenon
<1>6. CASE norDrv.op = "READ" /\ qspi.xfer.k = "ReadAtAddr"
  <2>1. NorQuiet(o, qspi, norDisk) /\ o.q.wel = qspi.wel
    <3>1. ArDoes(o, qspi, norDisk, a)
      BY <1>0, ArOK
    <3> QED BY <1>6, <3>1, Zenon DEF ArDoes
  <2>2. NorLink(o.q, e)
    BY <1>00, <1>3, <1>4, <1>6, <2>1 DEF NorLink, DrvFields
  <2> QED BY <1>0, <1>5, <2>1, <2>2, TakeQuiet
<1>7. CASE norDrv.op = "ERASE" /\ qspi.xfer = [k |-> "WriteAtAddr", data |-> FALSE]
  <2>1. \/ NorStored(o, qspi, norDisk, SectorOf(a), Erased(qspi.mem, SectorOf(a)))
        \/ NorQuiet(o, qspi, norDisk) /\ qspi.wel = FALSE /\ o.q.wel = FALSE
    <3>1. ArDoes(o, qspi, norDisk, a)
      BY <1>0, ArOK
    <3> QED BY <1>7, <3>1, Zenon DEF ArDoes
  <2>2. o.q.wel = FALSE
    BY <2>1 DEF NorStored
  <2>3. NorLink(o.q, e)
    BY <1>3, <1>4, <1>7, <2>2 DEF NorLink, DrvFields
  <2>4. CASE NorQuiet(o, qspi, norDisk) /\ qspi.wel = FALSE
    BY <1>0, <1>5, <2>2, <2>3, <2>4, TakeQuiet
  <2>5. CASE NorStored(o, qspi, norDisk, SectorOf(a), Erased(qspi.mem, SectorOf(a)))
    <3>1. Target(e) = SectorOf(a) /\ e.op # "PROGRAM"
      BY <1>4, <1>7, TargetIs
    <3> DEFINE m == Erased(qspi.mem, SectorOf(a))
    <3>2. NorStored(o, qspi, norDisk, Target(e), m)
      BY <2>5, <3>1
    <3>3. m = IF e.op = "PROGRAM" THEN Programmed(qspi.mem, e.a, e.moved) ELSE Erased(qspi.mem, Target(e))
      BY <3>1, Zenon
    <3> HIDE DEF m
    <3> QED BY <1>0, <1>5, <2>3, <3>1, <3>2, <3>3, TakeStored
  <2> QED BY <2>1, <2>4, <2>5
<1>8. CASE /\ norDrv.op = "PROGRAM" /\ qspi.xfer = [k |-> "WriteAtAddr", data |-> TRUE]
           /\ qspi.wr_buf = <<>> /\ qspi.dlr = norDrv.n - 1
  <2>1. /\ NorQuiet(o, qspi, norDisk) /\ o.q.wel = qspi.wel /\ o.q.ar = a /\ o.q.wr_buf = qspi.wr_buf
        /\ o.q.xfer = [k |-> "WriteData", remaining |-> qspi.dlr + 1]
    <3>1. ArDoes(o, qspi, norDisk, a)
      BY <1>0, ArOK
    <3> QED BY <1>8, <3>1, Zenon DEF ArDoes
  <2>2. norDrv.n \in 1..NorLen /\ norDrv.moved = <<>>
    BY <1>0 DEF NorLink
  <2>3. qspi.dlr + 1 = norDrv.n
    BY <1>8, <2>2, SizeOK
  <2>4. o.q.xfer = [k |-> "WriteData", remaining |-> e.n]
    BY <1>4, <2>1, <2>3
  <2>5. NorLink(o.q, e)
    BY <1>00, <1>3, <1>4, <1>8, <2>1, <2>2, <2>4 DEF NorLink, DrvFields
  <2> QED BY <1>0, <1>5, <2>1, <2>5, TakeQuiet
<1> QED BY <1>0, <1>6, <1>7, <1>8 DEF NorLink

LEMMA PutKeeps ==
  ASSUME Faults = {}, NorInv, NEW b \in BOOLEAN, NorPut(b)
  PROVE  NorInv' /\ WholeWrite
<1> DEFINE s == Append(norDrv.moved, b)
           n == norDrv.n
           more == Len(s) < n
           armed == norDrv.armed /\ more
           c == [norDrv EXCEPT !.moved = Append(@, b)]
           c2 == [c EXCEPT !.armed = @ /\ Len(c.moved) < c.n]
           e == [norDrv EXCEPT !.moved = s, !.armed = armed]
<1>0. /\ norAlive = TRUE /\ QspiOK(qspi, norDisk) /\ NorLink(qspi, norDrv) /\ norDrv.st = "data" /\ norDrv.op = "PROGRAM"
      /\ Len(norDrv.moved) < norDrv.n
  BY DEF NorInv, NorPut
<1>1. /\ n \in 1..NorLen /\ norDrv.a \in Addrs /\ qspi.ar = norDrv.a
      /\ qspi.xfer = [k |-> "WriteData", remaining |-> n] /\ qspi.wr_buf = norDrv.moved
      /\ norDrv.armed \in BOOLEAN /\ qspi.wel = norDrv.armed /\ DOMAIN norDrv = DrvFields
  BY <1>0 DEF NorLink, DrvFields
<1>2. PICK o \in DrWrite(qspi, norDisk, b) : Take(o, c2)
  BY Zenon DEF NorPut
<1>3. c2 = e
  BY <1>1 DEF DrvFields
<1> HIDE DEF c2, c
<1>4. Take(o, e)
  BY <1>2, <1>3, Zenon
<1>5. Append(qspi.wr_buf, b) = s
  BY <1>1, Zenon
<1> HIDE DEF s
<1>6. armed \in BOOLEAN /\ (more => armed = norDrv.armed) /\ (~more => armed = FALSE)
  <2> HIDE DEF more
  <2> QED BY <1>1
<1> HIDE DEF armed
<1>7. /\ DOMAIN e = DrvFields /\ e.st = "data" /\ e.a = norDrv.a /\ e.op = "PROGRAM" /\ e.n = n
      /\ e.moved = s /\ e.armed = armed
  BY <1>0, <1>1 DEF DrvFields
<1> HIDE DEF e
<1>8. /\ s \in Seq(BOOLEAN) /\ Len(s) <= n
      /\ Len(s) < n => /\ NorQuiet(o, qspi, norDisk) /\ o.q.wel = qspi.wel /\ o.q.ar = qspi.ar
                       /\ o.q.wr_buf = s /\ o.q.xfer = qspi.xfer
      /\ Len(s) = n => \/ NorStored(o, qspi, norDisk, ProgramSet(qspi.ar, Len(s)), Programmed(qspi.mem, qspi.ar, s))
                       \/ NorQuiet(o, qspi, norDisk) /\ qspi.wel = FALSE /\ o.q.wel = FALSE
  <2>1. Len(qspi.wr_buf) < n
    BY <1>0, <1>1, Zenon
  <2> HIDE DEF n
  <2>2. DrDoes(o, qspi, norDisk, n, Append(qspi.wr_buf, b))
    BY <1>0, <1>1, <2>1, DrWriteOK
  <2>3. DrDoes(o, qspi, norDisk, n, s)
    BY <1>5, <2>2, Zenon
  <2> QED BY <2>3 DEF DrDoes
<1> HIDE DEF n
<1>9. CASE Len(s) < n
  <2>1. /\ NorQuiet(o, qspi, norDisk) /\ o.q.wel = qspi.wel /\ o.q.ar = qspi.ar
        /\ o.q.wr_buf = s /\ o.q.xfer = qspi.xfer
    BY <1>8, <1>9
  <2>2. o.q.wel = e.armed
    BY <1>1, <1>6, <1>7, <1>9, <2>1
  <2>3. NorLink(o.q, e)
    BY <1>1, <1>6, <1>7, <2>1, <2>2 DEF NorLink, DrvFields
  <2> QED BY <1>0, <1>4, <2>1, <2>3, TakeQuiet
<1>10. CASE Len(s) = n
  <2>1. ~more /\ ~(Len(s) < n)
    BY <1>1, <1>10, SizeOK
  <2>2. e.armed = FALSE
    BY <1>6, <1>7, <2>1
  <2>3. o.q.wel = FALSE
    BY <1>8, <1>10 DEF NorStored
  <2>4. NorLink(o.q, e)
    BY <1>7, <2>1, <2>2, <2>3 DEF NorLink, DrvFields
  <2>5. CASE NorQuiet(o, qspi, norDisk) /\ qspi.wel = FALSE
    BY <1>0, <1>4, <2>3, <2>4, <2>5, TakeQuiet
  <2>6. CASE NorStored(o, qspi, norDisk, ProgramSet(qspi.ar, Len(s)), Programmed(qspi.mem, qspi.ar, s))
    <3>1. Target(e) = ProgramSet(qspi.ar, Len(s))
      <4>1. Target(e) = ProgramSet(e.a, e.n)
        BY <1>7, TargetIs
      <4>2. e.a = qspi.ar /\ e.n = Len(s)
        BY <1>1, <1>7, <1>10
      <4> QED BY <4>1, <4>2, Zenon
    <3> DEFINE m == Programmed(qspi.mem, qspi.ar, s)
    <3>2. NorStored(o, qspi, norDisk, Target(e), m)
      BY <2>6, <3>1, Zenon
    <3>3. m = IF e.op = "PROGRAM" THEN Programmed(qspi.mem, e.a, e.moved) ELSE Erased(qspi.mem, Target(e))
      BY <1>1, <1>7, Zenon
    <3> HIDE DEF m
    <3>4. Len(e.moved) = e.n
      BY <1>7, <1>10, Zenon
    <3> QED BY <1>0, <1>4, <2>4, <3>2, <3>3, <3>4, TakeStored
  <2> QED BY <1>8, <1>10, <2>5, <2>6
<1>11. Len(s) < n \/ Len(s) = n
  <2>1. Len(s) \in Nat /\ n \in Nat
    BY <1>1, <1>8, SizeOK
  <2> QED BY <1>8, <2>1
<1> QED BY <1>9, <1>10, <1>11

(* A step that writes nothing and stays in the process.                    *)
LEMMA KeptAsIs ==
  ASSUME NorInv, norAlive = TRUE, norAlive' = TRUE, norDisk' = norDisk, norAck' = norAck, qspi' \in Qspi,
         qspi'.mem = qspi.mem, qspi'.file = qspi.file, qspi'.path = qspi.path, NorLink(qspi', norDrv')
  PROVE  NorInv' /\ WholeWrite
<1>1. NorPromise /\ QspiOK(qspi, norDisk) /\ NorFile(norDisk)
  BY DEF NorInv
<1>2. NorPromise'
  BY <1>1 DEF NorPromise, NorAckedPersist
<1>3. QspiOK(qspi', norDisk')
  BY <1>1 DEF QspiOK
<1>4. NorInv'
  BY <1>1, <1>2, <1>3 DEF NorInv
<1> QED BY <1>4 DEF WholeWrite

LEMMA SrReadOK ==
  ASSUME NEW q \in Qspi
  PROVE  LET r == SrRead(q)
         IN  r \in Qspi /\ r.mem = q.mem /\ r.file = q.file /\ r.path = q.path /\ r.wel = q.wel /\ r.xfer = q.xfer
             /\ r.wr_buf = q.wr_buf /\ r.ar = q.ar /\ r.dlr = q.dlr /\ r.resp = q.resp
<1> DEFINE t == q.tcf \/ (q.mode_read /\ q.resp = <<>>)
           r == [q EXCEPT !.tcf = t]
<1>1. SrRead(q) = r
  BY Zenon DEF SrRead
<1>2. t \in BOOLEAN
  BY Zenon
<1> HIDE DEF t
<1>3. /\ r \in Qspi /\ r.mem = q.mem /\ r.file = q.file /\ r.path = q.path /\ r.wel = q.wel /\ r.xfer = q.xfer
      /\ r.wr_buf = q.wr_buf /\ r.ar = q.ar /\ r.dlr = q.dlr /\ r.resp = q.resp
  BY <1>2 DEF Qspi
<1> HIDE DEF r
<1> QED BY <1>1, <1>3

(* The driver waits for nothing.                                           *)
LEMMA IdleLink ==
  ASSUME NEW q, NEW v \in BOOLEAN, q.wel = v
  PROVE  NorLink(q, [NoCommand EXCEPT !.armed = v])
<1> DEFINE c == [NoCommand EXCEPT !.armed = v]
<1>1. DOMAIN c = DrvFields /\ c.st = "idle" /\ c.armed = v
  BY DEF NoCommand, DrvFields
<1> HIDE DEF c
<1>2. NorLink(q, c)
  BY <1>1 DEF NorLink, DrvFields
<1> QED BY <1>2 DEF c

LEMMA GetKeeps ==
  ASSUME NorInv, NorGet
  PROVE  NorInv' /\ WholeWrite
<1> DEFINE r == SrRead(qspi)
           u == Tail(r.resp)
<1>0. norAlive = TRUE /\ QspiOK(qspi, norDisk) /\ NorLink(qspi, norDrv) /\ qspi \in Qspi
  BY DEF NorInv, NorGet, QspiOK
<1>1. /\ r \in Qspi /\ r.mem = qspi.mem /\ r.file = qspi.file /\ r.path = qspi.path /\ r.wel = qspi.wel
      /\ r.xfer = qspi.xfer /\ r.wr_buf = qspi.wr_buf /\ r.ar = qspi.ar /\ r.dlr = qspi.dlr /\ r.resp = qspi.resp
  BY <1>0, SrReadOK
<1>2. /\ qspi' = [r EXCEPT !.resp = u] /\ norAlive' = TRUE /\ norDisk' = norDisk /\ norAck' = norAck
      /\ norDrv' = norDrv /\ norDrv.op \in ReadOps /\ norDrv.st = "data" /\ qspi.resp # <<>>
  BY <1>0, Zenon DEF NorGet
<1> HIDE DEF r
<1>3. u \in Seq(BOOLEAN)
  <2>1. r.resp \in Seq(BOOLEAN) /\ r.resp # <<>>
    BY <1>1, <1>2 DEF Qspi
  <2> QED BY <2>1, HeadTailProperties
<1> HIDE DEF u
<1>4. /\ qspi' \in Qspi /\ qspi'.mem = r.mem /\ qspi'.file = r.file /\ qspi'.path = r.path /\ qspi'.wel = r.wel
  BY <1>1, <1>2, <1>3 DEF Qspi
<1>5. NorLink(qspi', norDrv')
  <2>1. norDrv.op # "PROGRAM"
    BY <1>2 DEF ReadOps
  <2> QED BY <1>0, <1>1, <1>2, <1>4, <2>1 DEF NorLink
<1> QED BY <1>0, <1>1, <1>2, <1>4, <1>5, KeptAsIs

LEMMA CompleteKeeps ==
  ASSUME NorInv, NorComplete
  PROVE  NorInv' /\ WholeWrite
<1> DEFINE r == SrRead(qspi)
           v == norDrv.armed
<1>0. norAlive = TRUE /\ QspiOK(qspi, norDisk) /\ NorLink(qspi, norDrv) /\ qspi \in Qspi
  BY DEF NorInv, NorComplete, QspiOK
<1>1. /\ r \in Qspi /\ r.mem = qspi.mem /\ r.file = qspi.file /\ r.path = qspi.path /\ r.wel = qspi.wel
  BY <1>0, SrReadOK
<1>2. /\ qspi' = [r EXCEPT !.tcf = FALSE] /\ norAlive' = TRUE /\ norDisk' = norDisk /\ norAck' = norAck
      /\ norDrv' = [NoCommand EXCEPT !.armed = v]
  BY <1>0, Zenon DEF NorComplete
<1>3. v \in BOOLEAN /\ qspi.wel = v
  BY <1>0 DEF NorLink
<1> HIDE DEF r, v
<1>4. /\ qspi' \in Qspi /\ qspi'.mem = r.mem /\ qspi'.file = r.file /\ qspi'.path = r.path /\ qspi'.wel = r.wel
  BY <1>1, <1>2 DEF Qspi
<1>5. NorLink(qspi', norDrv')
  BY <1>1, <1>2, <1>3, <1>4, IdleLink
<1> QED BY <1>0, <1>1, <1>2, <1>4, <1>5, KeptAsIs

LEMMA SpResetKeeps ==
  ASSUME NorInv, NorSpReset
  PROVE  NorInv' /\ WholeWrite
<1> DEFINE v == norDrv.armed
<1>0. norAlive = TRUE /\ QspiOK(qspi, norDisk) /\ NorLink(qspi, norDrv) /\ qspi \in Qspi
  BY DEF NorInv, NorSpReset, QspiOK
<1>2. /\ qspi' = qspi /\ norAlive' = TRUE /\ norDisk' = norDisk /\ norAck' = norAck
      /\ norDrv' = [NoCommand EXCEPT !.armed = v]
  BY <1>0, Zenon DEF NorSpReset
<1>3. v \in BOOLEAN /\ qspi.wel = v
  BY <1>0 DEF NorLink
<1> HIDE DEF v
<1>5. NorLink(qspi', norDrv')
  BY <1>2, <1>3, IdleLink
<1> QED BY <1>0, <1>2, <1>5, KeptAsIs

LEMMA NorKillKeeps ==
  ASSUME NorInv, NorKill
  PROVE  NorInv' /\ WholeWrite
<1>1. norAlive' = FALSE /\ norDisk' = norDisk /\ norAck' = norAck
  BY DEF NorKill
<1>2. NorPromise'
  BY <1>1 DEF NorInv, NorPromise, NorAckedPersist
<1> QED BY <1>1, <1>2 DEF NorInv, WholeWrite

LEMMA NewQspiOK ==
  ASSUME NEW m \in [Addrs -> BOOLEAN], NEW f \in BOOLEAN
  PROVE  LET q == NewQspi(m, f) IN q \in Qspi /\ q.mem = m /\ q.file = f /\ q.path = TRUE /\ q.wel = FALSE
<1> DEFINE q == NewQspi(m, f)
           none == <<>>
           idle == Idle
<1>1. none \in Seq(BOOLEAN) /\ 0 \in Nat /\ 0 \in Addrs
  BY SizeOK DEF Addrs
<1>2. idle \in Xfers
  BY XferTypes
<1>3. q = [dlr |-> 0, ar |-> 0, resp |-> none, mode_read |-> FALSE, tcf |-> FALSE,
           wel |-> FALSE, xfer |-> idle, wr_buf |-> none, mem |-> m, file |-> f, path |-> TRUE]
  BY DEF NewQspi
<1> HIDE DEF q, none, idle
<1>4. q \in Qspi /\ q.mem = m /\ q.file = f /\ q.path = TRUE /\ q.wel = FALSE
  BY <1>1, <1>2, <1>3 DEF Qspi
<1> QED BY <1>4 DEF q

LEMMA BootedInv ==
  ASSUME NEW d, NorFile(d), norDisk' = d, norAlive' = TRUE, qspi' = NewQspi(Loaded(d), d.exists),
         norAck' = Promise(Loaded(d)), norDrv' = NoCommand
  PROVE  NorInv'
<1> DEFINE m == Loaded(d)
           x0 == d.exists
<1>1. m \in [Addrs -> BOOLEAN] /\ x0 \in BOOLEAN
  <2>1. x0 \in BOOLEAN
    <3>1. CASE d = NoFile
      BY <3>1 DEF NoFile
    <3>2. CASE d.exists = TRUE
      BY <3>2
    <3> QED BY <3>1, <3>2 DEF NorFile
  <2> QED BY <2>1, LoadedType
<1> HIDE DEF m, x0
<1>2. qspi' \in Qspi /\ qspi'.mem = m /\ qspi'.file = x0 /\ qspi'.path = TRUE /\ qspi'.wel = FALSE
  BY <1>1, NewQspiOK DEF m, x0
<1>3. QspiOK(qspi', norDisk')
  BY <1>2 DEF QspiOK, m, x0
<1>4. NorLink(qspi', norDrv')
  <2>1. norDrv'.armed = FALSE /\ norDrv'.st = "idle" /\ DOMAIN norDrv' = DrvFields
    BY DEF NoCommand, DrvFields
  <2> QED BY <1>2, <2>1 DEF NorLink, DrvFields
<1>5. norAck' = [x \in Addrs |-> {m[x]}]
  BY DEF Promise, m
<1>6. NorPromise'
  <2>1. norAck' \in [Addrs -> SUBSET BOOLEAN]
    BY <1>1, <1>5
  <2>2. \A x \in Addrs : m[x] \in norAck'[x]
    BY <1>5
  <2> QED BY <1>2, <2>1, <2>2 DEF NorPromise, NorAckedPersist, m
<1> QED BY <1>3, <1>4, <1>6 DEF NorInv

LEMMA NorBootKeeps ==
  ASSUME Faults = {}, NorInv, NorBoot
  PROVE  NorInv' /\ WholeWrite
<1>1. /\ norDisk' = norDisk /\ norAlive' = TRUE /\ norAlive = FALSE /\ qspi' = NewQspi(Loaded(norDisk), norDisk.exists)
      /\ norAck' = Promise(Loaded(norDisk)) /\ norDrv' = NoCommand
  <2>1. "open" \notin Faults
    OBVIOUS
  <2>2. norAlive \in BOOLEAN
    BY DEF NorInv
  <2> QED BY <2>1, <2>2 DEF NorBoot
<1>2. NorInv'
  BY <1>1, BootedInv DEF NorInv
<1> QED BY <1>1, <1>2 DEF WholeWrite

LEMMA InitNor == NorInit => NorInv
<1> SUFFICES ASSUME NorInit PROVE NorInv
  OBVIOUS
<1>1. /\ qspi = NewQspi(Blank, FALSE) /\ norDisk = NoFile /\ norAlive = TRUE /\ norDrv = NoCommand
      /\ norAck = Promise(Blank)
  BY DEF NorInit
<1>2. Blank \in [Addrs -> BOOLEAN] /\ FALSE \in BOOLEAN
  BY DEF Blank, ERASED
<1>3. qspi \in Qspi /\ qspi.mem = Blank /\ qspi.file = FALSE /\ qspi.path = TRUE /\ qspi.wel = FALSE
  BY <1>1, <1>2, NewQspiOK
<1>4. NorFile(norDisk) /\ norDisk.exists = FALSE
  BY <1>1 DEF NorFile, NoFile
<1>5. QspiOK(qspi, norDisk)
  BY <1>3, <1>4 DEF QspiOK
<1>6. NorLink(qspi, norDrv)
  <2>1. norDrv.armed = FALSE /\ norDrv.st = "idle" /\ DOMAIN norDrv = DrvFields
    BY <1>1 DEF NoCommand, DrvFields
  <2> QED BY <1>3, <2>1 DEF NorLink, DrvFields
<1>7. NorPromise
  <2>1. norAck \in [Addrs -> SUBSET BOOLEAN] /\ \A x \in Addrs : Blank[x] \in norAck[x]
    BY <1>1, <1>2 DEF Promise
  <2>2. \A x \in Addrs : Loaded(norDisk)[x] = Blank[x]
    BY <1>4, LoadedType DEF Blank, ERASED
  <2> QED BY <1>3, <2>1, <2>2 DEF NorPromise, NorAckedPersist
<1> QED BY <1>1, <1>4, <1>5, <1>6, <1>7 DEF NorInv

LEMMA NorStep ==
  ASSUME Faults = {}, NorInv, [NorNext]_norVars
  PROVE  NorInv' /\ (WholeWrite \/ UNCHANGED norVars)
<1>1. ASSUME NEW op \in NorOps, NEW n \in IF op \in {"READ", "PROGRAM"} THEN 1..NorLen ELSE {1}, NorCommand(op, n)
      PROVE  NorInv' /\ WholeWrite
  <2>1. n \in 1..NorLen
    BY NorAssumption
  <2> QED BY <1>1, <2>1, CommandKeeps
<1>2. ASSUME NEW a \in Addrs, NorAddress(a) PROVE NorInv' /\ WholeWrite
  BY <1>2, AddressKeeps
<1>3. ASSUME NEW b \in BOOLEAN, NorPut(b) PROVE NorInv' /\ WholeWrite
  BY <1>3, PutKeeps
<1>4. CASE NorGet
  BY <1>4, GetKeeps
<1>5. CASE NorComplete
  BY <1>5, CompleteKeeps
<1>6. CASE NorSpReset
  BY <1>6, SpResetKeeps
<1>7. CASE NorKill
  BY <1>7, NorKillKeeps
<1>8. CASE NorBoot
  BY <1>8, NorBootKeeps
<1>9. CASE UNCHANGED norVars
  <2>1. NorInv'
    BY <1>9 DEF norVars, NorInv, NorPromise, NorAckedPersist
  <2> QED BY <1>9, <2>1
<1>10. NorNext \/ UNCHANGED norVars
  OBVIOUS
<1> QED BY <1>1, <1>2, <1>3, <1>4, <1>5, <1>6, <1>7, <1>8, <1>9, <1>10 DEF NorNext

(* The inductive invariant of the NOR array, its controller and its file,  *)
(* for any sizes of array, sector and transfer, as long as the file is not *)
(* left short by its creation and opens when it exists (Faults = {}), as   *)
(* the run has it.                                                         *)
THEOREM NorInvariance ==
  ASSUME Faults = {}
  PROVE  NorSpec => []NorInv
<1>1. NorInit => NorInv
  BY InitNor
<1>2. NorInv /\ [NorNext]_norVars => NorInv'
  BY NorStep
<1> QED BY <1>1, <1>2, PTL DEF NorSpec

(* A program or erase acknowledged while the file was usable is what the   *)
(* next process loads, wherever the emulator is killed (write_through,     *)
(* ensure_file, with_backing).                                             *)
THEOREM NorPersists ==
  ASSUME Faults = {}
  PROVE  NorSpec => []NorAckedPersist
<1>1. NorInv => NorAckedPersist
  BY DEF NorInv, NorPromise
<1> QED BY <1>1, NorInvariance, PTL

(* The array changes only by a whole erase, or by a program of the bytes   *)
(* sent for this command, each covered by a WREN of its own, whatever an   *)
(* SP reset cut short before (do_erase, do_program).                       *)
THEOREM NorWritesWhole ==
  ASSUME Faults = {}
  PROVE  NorSpec => NorWholeWrites
<1>1. NorInv /\ [NorNext]_norVars => [WholeWrite]_norVars
  BY NorStep
<1> QED BY <1>1, NorInvariance, PTL DEF NorSpec, NorWholeWrites
==============================================================================
