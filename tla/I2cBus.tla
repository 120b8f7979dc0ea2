-------------------------------- MODULE I2cBus --------------------------------
(***************************************************************************)
(* The SP's I2C controllers (struct I2c in src/src/soc.rs), the devices    *)
(* they model and the bridge that delegates reads to a device server       *)
(* (src/src/i2c_bridge.rs): one connection carries all buses, a query is   *)
(* a line, the answer is awaited with a timeout, and a read that gets none *)
(* is served by the built-in model; the lines that report starts and       *)
(* writes have no answer and are left out.  Drivers of the buses interleave; an   *)
(* SP reset drops them and leaves the controllers as they are.             *)
(*                                                                         *)
(* Devices: an EEPROM of two blocks ("eep0", "eep1") and a sensor of       *)
(* two-byte registers ("tmp").  The server overrides some of them.  A byte *)
(* is named by where it comes from.                                        *)
(***************************************************************************)
EXTENDS Integers, Sequences

CONSTANTS
  Buses,       \* the controllers
  Block,       \* bytes of an EEPROM block, and register numbers
  Overridden,  \* subset of the device addresses the server answers for
  ImageLen,    \* bytes of the server's EEPROM image
  ReadLen,     \* bound: bytes of a read
  MaxTimeouts  \* bound: answers that come too late

ASSUME I2cAssumption ==
  /\ 0 \notin Buses /\ {Block, ImageLen, ReadLen} \subseteq Nat \ {0}
  /\ Overridden \subseteq {"eep0", "eep1", "tmp"} /\ MaxTimeouts \in Nat

DevAddrs == {"eep0", "eep1", "tmp"}
Pointers == 0..Block - 1

VARIABLES
  i2c,      \* the controllers
  i2cWire,  \* the connection: queries to the server, answers back, open, timeouts
  i2cWait,  \* the bus whose read awaits the server, or 0
  i2cDrv    \* the drivers

i2cVars == <<i2c, i2cWire, i2cWait, i2cDrv>>

-----------------------------------------------------------------------------
(* Who answers a read of byte idx from register reg                        *)

(* Register values are served high byte first, the low byte from then on.  *)
HiLo(idx) == IF idx = 0 THEN "hi" ELSE "lo"

(* The EEPROM's address bits are in the device address; reading advances   *)
(* across the blocks.                                                      *)
Builtin(a, reg, idx) ==
  IF a = "tmp" THEN <<"reg", reg, HiLo(idx)>>
  ELSE <<"eeprom", ((IF a = "eep1" THEN Block ELSE 0) + reg + idx) % (2 * Block)>>

(* serve_device: an image is served from reg + idx, a register override    *)
(* for its register; "-" defers.                                           *)
Defer == <<"-">>
ServerAnswer(a, reg, idx) ==
  CASE a \notin Overridden -> Defer
    [] a \in Overridden \ {"tmp"} -> <<"image", (reg + idx) % ImageLen>>
    [] OTHER -> IF reg = 0 THEN <<"injected", HiLo(idx)>> ELSE Defer

-----------------------------------------------------------------------------
(* The controller                                                          *)

Cr2Start_KeepIdx(c, a, read) ==
  [c EXCEPT !.active = TRUE, !.addr = a, !.writing = ~read, !.wrote_ptr = @ /\ read]

(* CR2 with START.                                                         *)
Cr2Start(c, a, read) ==
  IF read THEN [c EXCEPT !.active = TRUE, !.addr = a, !.read_idx = 0, !.writing = FALSE]
  ELSE [c EXCEPT !.active = TRUE, !.addr = a, !.writing = TRUE, !.wrote_ptr = FALSE]

Cr2Stop(c) == [c EXCEPT !.active = FALSE]

(* TXDR: the first byte of a write phase is the register pointer.          *)
Txdr(c, byte) ==
  IF c.writing /\ ~c.wrote_ptr THEN [c EXCEPT !.reg_ptr = byte, !.wrote_ptr = TRUE] ELSE c

-----------------------------------------------------------------------------
(* Drivers                                                                 *)

NoTransfer == [st |-> "idle", a |-> "tmp", ptr |-> 0, n |-> 0, got |-> <<>>]

Free == i2cWait = 0

StartWrite(b, a, ptr, n) ==
  /\ Free /\ i2cDrv[b].st = "idle"
  /\ i2c' = [i2c EXCEPT ![b] = Cr2Start(@, a, FALSE)]
  /\ i2cDrv' = [i2cDrv EXCEPT ![b] = [st |-> "ptr", a |-> a, ptr |-> ptr, n |-> n, got |-> <<>>]]
  /\ UNCHANGED <<i2cWire, i2cWait>>

WritePtr(b) ==
  /\ Free /\ i2cDrv[b].st = "ptr"
  /\ i2c' = [i2c EXCEPT ![b] = Txdr(@, i2cDrv[b].ptr)]
  /\ i2cDrv' = [i2cDrv EXCEPT ![b].st = "body"]
  /\ UNCHANGED <<i2cWire, i2cWait>>

(* A register is written: further bytes of the write phase.                *)
WriteData(b, byte) ==
  /\ Free /\ i2cDrv[b].st = "body"
  /\ i2c' = [i2c EXCEPT ![b] = Txdr(@, byte)]
  /\ i2cDrv' = [i2cDrv EXCEPT ![b].st = "stop"]
  /\ UNCHANGED <<i2cWire, i2cWait>>

(* Repeated start: the read phase.                                         *)
StartRead(b) ==
  /\ Free /\ i2cDrv[b].st = "body"
  /\ i2c' = [i2c EXCEPT ![b] = Cr2Start(@, i2cDrv[b].a, TRUE)]
  /\ i2cDrv' = [i2cDrv EXCEPT ![b].st = "read"]
  /\ UNCHANGED <<i2cWire, i2cWait>>

Stop(b) ==
  /\ Free /\ i2cDrv[b].st = "stop"
  /\ i2c' = [i2c EXCEPT ![b] = Cr2Stop(@)]
  /\ i2cDrv' = [i2cDrv EXCEPT ![b] = NoTransfer]
  /\ UNCHANGED <<i2cWire, i2cWait>>

(* The byte RXDR returns, after which the index advances.                  *)
Rx(b, byte) ==
  LET got == Append(i2cDrv[b].got, byte)
  IN  /\ i2c' = [i2c EXCEPT ![b].read_idx = @ + 1]
      /\ i2cDrv' = [i2cDrv EXCEPT ![b].got = got,
                                  ![b].st = IF Len(got) = i2cDrv[b].n THEN "stop" ELSE "read"]

BuiltinOf(b) == Builtin(i2c[b].addr, i2c[b].reg_ptr, i2c[b].read_idx)

(* A read of RXDR: without a server the built-in model answers, otherwise  *)
(* the query goes out and the whole emulator waits.                        *)
ReadLocal(b) ==
  /\ Free /\ i2cDrv[b].st = "read" /\ ~i2cWire.open
  /\ Rx(b, BuiltinOf(b))
  /\ UNCHANGED <<i2cWire, i2cWait>>

Query(b) ==
  /\ Free /\ i2cDrv[b].st = "read" /\ i2cWire.open
  /\ i2cWire' = [i2cWire EXCEPT !.up = Append(@, <<i2c[b].addr, i2c[b].reg_ptr, i2c[b].read_idx>>)]
  /\ i2cWait' = b
  /\ UNCHANGED <<i2c, i2cDrv>>

OnRead(b) ==
  /\ i2cWait = b /\ i2cWire.down # <<>>
  /\ LET ans == Head(i2cWire.down) IN Rx(b, IF ans = Defer THEN BuiltinOf(b) ELSE ans)
  /\ i2cWire' = [i2cWire EXCEPT !.down = Tail(@)]
  /\ i2cWait' = 0

(* No line in time: the built-in model answers; the line may still come.   *)
OnTimeout(b) ==
  /\ i2cWait = b /\ i2cWire.down = <<>> /\ i2cWire.timeouts < MaxTimeouts
  /\ Rx(b, BuiltinOf(b))
  /\ i2cWire' = [i2cWire EXCEPT !.timeouts = @ + 1]
  /\ i2cWait' = 0

(* End of the stream.                                                      *)
OnEof(b) ==
  /\ i2cWait = b /\ ~i2cWire.open /\ i2cWire.down = <<>>
  /\ Rx(b, BuiltinOf(b))
  /\ UNCHANGED i2cWire
  /\ i2cWait' = 0

-----------------------------------------------------------------------------
(* The server                                                              *)

Serve ==
  /\ i2cWire.up # <<>>
  /\ LET line == Head(i2cWire.up)
     IN  i2cWire' = [i2cWire EXCEPT !.up = Tail(@),
                       !.down = Append(@, ServerAnswer(line[1], line[2], line[3]))]
  /\ UNCHANGED <<i2c, i2cWait, i2cDrv>>

Disconnect ==
  /\ i2cWire.open
  /\ i2cWire' = [i2cWire EXCEPT !.open = FALSE, !.up = <<>>]
  /\ UNCHANGED <<i2c, i2cWait, i2cDrv>>

I2cReset ==
  /\ Free /\ \E b \in Buses : i2cDrv[b].st # "idle"
  /\ i2cDrv' = [b \in Buses |-> NoTransfer]
  /\ UNCHANGED <<i2c, i2cWire, i2cWait>>

I2cInit ==
  /\ i2c = [b \in Buses |-> [active |-> FALSE, addr |-> "tmp", reg_ptr |-> 0, read_idx |-> 0,
                             writing |-> FALSE, wrote_ptr |-> FALSE]]
  /\ i2cWire = [up |-> <<>>, down |-> <<>>, open |-> TRUE, timeouts |-> 0]
  /\ i2cWait = 0
  /\ i2cDrv = [b \in Buses |-> NoTransfer]

I2cNext ==
  \/ \E b \in Buses :
       \/ \E a \in DevAddrs, ptr \in Pointers, n \in 1..ReadLen : StartWrite(b, a, ptr, n)
       \/ \E byte \in Pointers : WriteData(b, byte)
       \/ WritePtr(b) \/ StartRead(b) \/ Stop(b) \/ ReadLocal(b) \/ Query(b)
       \/ OnRead(b) \/ OnEof(b)
  \/ Serve \/ Disconnect \/ I2cReset

I2cSpec == I2cInit /\ [][I2cNext]_i2cVars

(* With answers that come too late.                                        *)
I2cLateNext == I2cNext \/ \E b \in Buses : OnTimeout(b)

-----------------------------------------------------------------------------
(* Properties                                                              *)

\* Byte k of a driver's read is that of the device and register it named, at
\* position k: the server's answer to that very query, or the built-in model's.
\* Whatever the other bus does on the shared connection, an SP reset cut short
\* before, or a connection lost at any moment (on_read, RXDR, CR2, TXDR).
I2cReadsDevice ==
  \A b \in Buses : \A k \in 1..Len(i2cDrv[b].got) :
    LET d == i2cDrv[b] IN
    d.got[k] \in {ServerAnswer(d.a, d.ptr, k - 1), Builtin(d.a, d.ptr, k - 1)} \ {Defer}
=============================================================================
