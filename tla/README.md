# Formal models of sp-emu

TLA+ models of [sp-emu](../src/README.md), the emulator of an Oxide service processor (SP, an
STM32H7) and its root of trust (RoT, an LPC55S69): TLC configurations that check the models on
small instances, and TLAPS proofs of the results that hold for every instance. Source paths below
are relative to `src/src/`.

## 1. The system

One process emulates one SP. It runs the SP core on the main thread and, unless a shared RoT
service is used, the RoT core on a second thread. The firmwares are the real Hubris images and are
not part of the repository; the emulator supplies the buses, the peripherals, the debug ports and
the wires between the two chips.

| Component | Source | State it keeps | Operations |
|---|---|---|---|
| Sprot link | `sprot.rs` | request and reply FIFO, chip select, rot-irq, SSA/SSD/SOT latches, posted PINT edges, two condition variables | TXDR byte exchange, FIFORD, FIFOWR, FIFOCFG, STAT clear, rot-irq pin, wait and wake of either side |
| Chip select | `soc.rs` GPIO | PE4 level | assert (with pacing), deassert |
| SP serve loop | `gdb.rs` `serve` | burst gating, prompt-halt servicing, `prev_rot_irq`, SysTick credit, idle park | one iteration: burst, resets, SWD drain, pin reset, coupling, park |
| RoT thread | `gdb.rs` `rot_thread_main` | `armed_sp_reset`, `endo` progress, its own halt state | preboot, quantum, PINT consumption, park |
| SP debug port | `debugport.rs` | DP/AP registers, posted read, DEMCR, sticky reset, halt causes | AP/DP transfers, pin reset, AIRCR reset, vector catch |
| RoT SWD master | `rotswd.rs` | request queue, read result, phase | read, write, stalled poll |
| Glasgow probe server | `glasgow.rs` | one session over a port of its own | run, halt, reset, detach |
| SP flash | `flash.rs` | two banks, three views of the swap option byte, locks, key sequences, image file, `.nv` file | unlock, erase, program, stage, commit, reset latch, write-through |
| Commands | `main.rs` | none of their own | flash, erase, run, gdb, boot |
| Core | `cpu.rs`, `mem.rs` | registers, SysTick, exceptions, NVIC, Ethernet rings | step, tick, interrupt, reset |
| SP buses and devices | `soc.rs` | SPI framing and slave registers, QSPI transfer and NOR array, I2C transfer state | register accesses of each controller |
| RoT flash, PUF, HASHCRYPT, ROM API | `rot_flash.rs`, `puf.rs`, `hashcrypt.rs`, `romapi.rs` | command engine, erased pages, key indices, digest state | commands, handshakes |
| Shared RoT | `rot_service.rs` | one RoT for many SPs, a request at a time | exchange, client retry |
| Bridges | `bridge.rs`, `host.rs`, `i2c_bridge.rs` | learned views, last peer per view, backlog toward the SP, pending query | forward, evict, answer, query with timeout |
| Identity, bundle, configuration | `identity.rs`, `bundle.rs`, `sp-emu-config` | files | one-shot parse and write |

How they interact:

- **Shared state under one mutex.** The threads share `LinkCell` (mutex-guarded `SprotLink`, one
  condvar per side), `SwdLink` (its own mutex) and the atomics of `RotShared`. Every access is a
  short critical section; a notify is made after the lock is dropped.
- **Calls.** A store by the SP firmware to PE4 or to TXDR blocks the SP thread inside the
  emulator until the RoT thread makes progress or a stall budget runs out. A RoT read over SWD
  stalls the RoT core until the SP thread's serve loop answers it.
- **Messages.** `SwdLink` is a queue of ADIv5 accesses from the RoT to the SP loop with a one-slot
  result. `sp_reset_pint` and `jtag_pint` are edges posted by the SP for the RoT,
  `sp_reset_release` is one posted by the RoT for the SP.
- **Files.** Flash contents and the option byte survive the process; it may be killed anywhere.

What is hard here: check-then-wait on either thread against notifies of the other; bounded waits
that give up while the peer is still busy; latches consumed by one thread and set by the other; the
order in which two pieces of shared state are read (queue and pin, edge and arming flag); freezes
that must end; debug halt causes that outlive the halt; a record and an image file rewritten by
truncation; option bytes with a committed and an effective value. `PROJECT.json` lists these under
`hazards`, each at its line.

What makes the components correct:

- *link*: the FIFOs stay bounded, a request reaches the RoT whole, in order and with SOT on its
  first frame, a reply byte is never invented, nobody sleeps with work owed, a stalled store ends;
- *reset and debug*: a caught or serviced SP has executed nothing past its reset vector, the
  freeze ends, DFSR and S_RESET_ST describe what happened, each SWD read gets its own answer;
- *flash*: what completed is durable, an update killed anywhere leaves a bootable selection, a
  committed swap changes the record at once and the map at the next reset;
- *core*: ticks granted to a frozen SP match the RoT's progress, an interrupt is neither lost
  nor taken twice, exception entry and return nest;
- *instructions*: result, carry and overflow are those of the exact integer operation, a condition
  is the comparison it names, shifts and fields move the bits their encoding names;
- *devices*: a byte means what its own command says, also after a transfer was cut short; an
  acknowledged write is in the file;
- *RoT flash and boot*: a page reads back what the last completed command made of it, erased pages
  do not read as data, only an authenticated slot is booted and measured;
- *network and services*: an answer goes to the client that asked, once and in order; a quiet
  client is not starved by a busy one; every exchange ends, with its own reply or none.

## 2. Modules

### SprotLink

State: the fields of `SprotLink` under the lock; for each thread where it is (`spPc`, `rotPc`);
the stall budget; whether the condvar was notified during the present wait. A byte is the pair
of its transfer and its position in it, so order and loss are visible; reply bytes are counted.
One action is one critical section, and the notify after it (`WakeRot`, `WakeSp`) is an action
of its own, so another thread's step can fall between.

- SP thread: `GpioCsAssert`, `GpioCsDeassert` (soc.rs, PE4), `TxdrWrite` and its two waits
  (sprot.rs, TXDR), `PostPint`, `SampleRotIrq`, `ParkSp` (gdb.rs, serve), `ExtiClear`.
- RoT thread: register accesses `FifoStat`, `FifoRd`, `FifoWr`, `FifoCfg`, `StatClear`, `SetRotIrq`;
  its loop `GoLive`, `ConsumePints`, `RotIdles`, `ParkRot` and the two ways out of the park.
- RoT firmware (external): it waits for SSA, receives while rot-irq is clear or sends while it is
  held, and cleans up after SSD. It polls FIFOSTAT before FIFORD and FIFOWR. The SP firmware is
  unconstrained. What the properties say is therefore about the bridge under a RoT
  that keeps its side of the protocol.

A transfer is *degraded* when it began before the RoT was live or when one of its stalls gave
up: the code then clocks on, and delivery is not promised.

### ResetService

State: the SP core's debug flags and where its PC is; the SP's debug port; the SWD queue; the edges
and flags shared with the RoT; the serve loop's position and servicing counter. One iteration
of `serve` is cut at its accesses to shared state: the burst with its resets (`BurstPlain`,
`BurstBkpt`, `BurstReset`), the load of `armed_sp_reset` (`EnterService`), one step per drained access
(`DrainOne`, `DrainEnds`), the take of `sp_reset_release` (`PinReset`, `NoPinReset`). The probe
session (`ProbeAttach` ... `ProbeDetach`) replaces iterations. The RoT issues accesses and
pulses in any order and stalls on a read as `RotSwdSpi` does.

### FlashBanks and DurableFlash

`FlashBanks` has the two files, the process and `struct Flash`. A word is the set of its one
bits, so programming is intersection and erasing is the full set. Registers are actions
(`KeyR2`, `OptKeyR`, `Cr2`, `OptSrPrg`, `OptCr`, ...), as are the commands on a stopped
instance (`CmdFlash`, `CmdErase`, `Start`) and the resets. A kill between two actions is `Kill`; a kill
inside a file rewrite is `KillInSaveNvm`, `KillInFlashNv`, `KillInSeed`, `KillInErase` or
`KillInCommit`, each leaving the bytes that rewrite can leave. With `Faults`, host writes fail.

`DurableFlash` is what that promises from outside: two banks that keep what was programmed, a
recorded selection, power that can go at any time, and nothing volatile but which bank executes,
unless the host refused a write. `FlashBanks` implements it under the mapping: the bank contents are
`mem` while the process runs and `file` otherwise, the selection and archive are those of the `.nv` file,
the executing bank is `effective`.

### TickCoupling

State: per core the SysTick countdown, its credit and its freeze; the SP's debug state; the shared
flag and counters; the serve loop's and the RoT loop's position. `Instruction` is one instruction
with the `maybe_tick` after it, a WFI or not. The serve loop's coupling is cut at its shared
accesses (`SampleLink`, `StoreEndo`, `Publish`, `CreditSp`), the RoT's at its own (`RotTop`, `RotSwap`,
`RotPublish`). Counters are kept as differences, cut off at `CREDIT_CAP` where the code takes the
minimum with it, so the state space is finite without further bounds. The history variable `owed`
is the other core's progress a frozen clock has not caught up with; the tick already due when
a freeze begins (`due`) is not charged.

### ThumbOps

The data half of the interpreter: flags, conditions, ALU operations, shifts, multiplication, bit
fields, packing, IT blocks, addressing modes, block transfers and wide branches. A word has `W` bits (32 in the
code), so every constant of the code that depends on the width does so here. A step executes one
instruction on one choice of operands; the properties compare it with a definition that is not the
code's: exact integers, a shift repeated one bit at a time, bits picked one by one.

### CoreExceptions and TaskContexts

One action is one slot of the run loop: the instruction, then `maybe_tick`, then
`maybe_interrupt`, each a function from the pair of `Cpu` and `Bus` to the next. State: the core's
mode, stack pointers, FPCA, IT count, masks and SysTick; the bus's stacks, NVIC bits, latched device
events. The firmware is external: boot code, tasks, a kernel that saves PSP and EXC_RETURN, handlers
that push a frame and disable their line. History variables: `mspBase` (MSP when the first task
started), `owed` (events raised and not yet entered), `waited` (slots a PendSV has waited).

`TaskContexts` is what this promises a task: its context changes by its own instructions alone.
`CoreExceptions` implements it under the mapping that reads a task's context from the core while it
runs and from its stack otherwise.

### SpiSlaves, NorFlash, I2cBus

`SpiSlaves` has the four controllers (SPI4 with the KSZ8463, SPI2 with VSC7448, SPI2 shared
by chip select, SPI5 with the FPGA), the framing state each keeps between bytes and its slave's
registers. The driver starts a command, sends ahead of what it fetches and may stop at any
byte. `NorFlash` is the QUADSPI controller with its NOR array and the backing file; commands may be
cut by an SP reset, writes to the file may fail or be cut by a kill. `I2cBus` has the controllers,
the built-in devices, the delegate connection they share and the example device server.
`I2cLateNext` adds answers that come after the timeout.

### EthBridge and RotService

`EthBridge` follows a request from a client's socket through the bridge's backlog, the pump, the DMA
descriptor ring and interrupt 61 to the net task, and the answer back. A frame is its client,
kind, view and number. `RotService` has the SP processes' clients, the connection threads, the
worker with its cache and the phases of `rot_exchange` over the link; connections break, the RoT may
be slower than the iteration budget.

### RotFlash and RotBoot

`RotFlash` is the LPC55 flash engine: commands, page buffer, erased set, and the two files written one
after the other by every command that changes flash. Either write may fail before or after it has changed its
file, with the process running on, or be cut by a kill: the array file then keeps any prefix of the words
(`WriteArray`), the bitset, which is truncated and rewritten, its old value or the first pages of the new one
(`WriteBits`). Firmware gives any word numbers, reversed or beyond the array too; an erase that begins there panics in
`persist_pages` while the file is open. `rfAck` records what the last command made of each page and `rfStored` the
pages for which each file has that, so the property can say what a restart must bring back: a page in both. `RotBoot` is the boot path: parked ROM call,
HASHCRYPT blocks, PUF key streams, CFPA selection, preempted by interrupts at any step.

The modules in one MC module share no state. A variable `focus`, chosen in `Init`, says which of
them a behaviour runs, so one run checks them side by side and not in product.

## 3. Runs

| Run | Checks | Bounds |
|---|---|---|
| `link_safety` | `FifoBound`, `NoLostWakeup`, `InOrderDelivery`, `ReplyNoUnderrun` | FIFO 2, budget 2, 3 transfers of 4 bytes, both PINT lines |
| `link_liveness` | a stalled SP runs again (`SpUnblocks`), an ended transfer is acknowledged (`SsdServed`) | FIFO 2, budget 2, 2 transfers of 2 bytes, SP sampling and parking |
| `reset` | `BkptReportIsCurrent`, `FrozenAtVector`, `NoPhantomReset`, `RdbuffReturnsLastRead`, `FreezeEnds`, `ReadAnswered` | 2 accesses, 2 resets, 1 probe session, backstop 2 |
| `flash_update` | `UpdateSurvivesKill` | 2 banks of 2 words of 1 bit, boot overrides |
| `flash_durable` | refinement of `DurableFlash` | 2 banks of 1 word of 1 bit, boot overrides, failing writes |
| `tick` | `SpNeverAhead`, `RotNeverAhead`, `FrozenClockMoves` | reload 2, 2 instructions per ms, cap 1, bursts of 1, debugging |
| `core` | five properties of the instructions; `MainStackLevel`, `EventKept`, `SwitchLatency`, refinement of `TaskContexts` | words of 4 bits, accumulators 0, 1, 7, 15; 2 tasks, 2 interrupts, a tick every 5 slots, masks 0 and 2 |
| `sp_devices` | `SpiFraming`, `NorAckedPersist`, `NorWholeWrites`, `I2cReadsDevice` | 4 controllers, 2 bytes ahead; NOR of 2 sectors of 2 bytes, transfers of 2; 2 buses, reads of 2 |
| `rot_devices` | `RfReadBack`, `BootedImageVerified`, `IdentityIsBound` | 2 pages of 2 rows, addresses within and beyond them in any order, contents all 0xFF or not; images of 2 blocks of 2 words, keys of 2 words, 3 interrupts |
| `bridges` | `AnswerReachesAsker`, `RequestsInOrder`, `EvictionIsFair`, `RingInStep`, `RequestAnswered`; `OwnReplyOrNone`, `ExchangeReturns` | 2 clients with 2 and 1 requests, ring 2, backlog 2; 2 SPs with 2 calls of 2 requests, 1 broken connection, 7 iterations |
| `i2c_late` | expected violation: a late answer is given to the next query | as `sp_devices`, 1 late answer |
| `eth_reset` | expected violation: the DMA's ring position survives an SP reset | 1 client, 2 requests, ring 2, 1 reset |

The type invariants (`TypeOK`) of `SprotLink`, `ResetService`, `FlashBanks` and `TickCoupling` document their state
and are not among the runs' properties; all four are proved (section 4).

Why the bounds are enough. *Link*: a depth of 2 is the smallest that FIFORD and FIFOWR, which move
two bytes, can use; four clocks fill the FIFO, drain it and fill it again, and take an odd
number of bytes between two FIFOWR; three transfers give a request, its reply and a request after
one that gave up. The FIFO depth, budget, transfers and clocks are arbitrary in the proofs.
*Reset*: two accesses are an arming write and a read, or a read overtaken by another; two resets separate a caught from
an uncaught one; two service iterations separate "still waiting" from "backstop". *Flash*: two words
tell a whole image from a torn one; one bit is enough for NOR programming, which acts on
every bit alike. Failing writes are checked with one word because they multiply the states.
*Tick*: two instructions per millisecond give a remainder and a whole millisecond; the cap is
reached and cut. *Instructions*: four bits make a byte one bit and a halfword two, enough for sign extension, for
shift amounts below, at and beyond the width, and for every carry and overflow case; all operand pairs are
tried. *Exceptions*: two tasks of which one starts with a floating-point frame give every pair of frame sizes
across a switch; of the two interrupts the lower-numbered one is polled and masked by BASEPRI, so it can hide the
other, which is a level and is not. Five slots are the shortest tick period for two interrupts that `SwitchIsTimely`
covers; at four TLC finds a switch that waits for too long, so its condition cannot be weakened to
`Rvr >= Cardinality(Irqs) + 2`.
*NOR, RoT flash*: a transfer of two bytes can wrap past the end and cross a sector; two pages of two rows tell
a torn page from a neighbour's, and a bitset cut after one page from a whole one. *Network*: a backlog of two and a ring of two are both overrun by three requests and
the bridge's own frames. *RoT service*: seven iterations are enough for an exchange to finish and few
enough for a slow one to give up.

What the expected violations show (each quotes its comment under `findings`):

- `i2c_late`: after a timeout the connection stays open, and the line that arrives late is read as the
  answer to the next query, of another register or another bus.
- `eth_reset`: `rx_next` is not reset with the SP, nor by the driver's soft reset of the DMA, so frames go
  to descriptors the restarted driver looks at only once the ring has filled.

Four more disagreements have a configuration to be run by hand, each of which TLC refutes:

- `MCSprotLink_sppark.cfg` (`ParkedSpIsWoken`): rot-irq is sampled under one lock and the park taken under
  another, so an edge in between is noticed only after the idle timeout.
- `MCResetService_pinrace.cfg` (`ArmedBeforePinReset`): the RoT can queue its arming writes and release the
  reset pin after the drain saw an empty queue and before the pin is looked at; the reset comes first.
- `MCFlashBanks_latch.cfg` (`LatchedAtEveryReset`): resets through a debug port or the reset pin
  never call `reset_latch`.
- `MCTickCoupling_reset.cfg` (`WfiDrainsCredit`): a reset leaves a countdown of zero; if a request is in
  flight when the firmware turns SysTick on again, neither WFI (which wants more than one) nor the
  frozen `maybe_tick` (which wants exactly one) moves it, and the SP's clock stands still until the RoT answers.

Some faults are constants that the runs leave empty, because with them the stated property does
not hold: `Faults` of `NorFlash` (`"seed"`: the file's creation cut short leaves a file that loads as
erased where it ends; `"open"`: an existing file that cannot be opened is replaced by a blank array that later
writes store over it), and `MaxTimeouts` of `I2cBus`.

Further divergences between comments and code, read in the source and not given a run:

- link and threads: `miso` may hold one byte more than its comment says (`sprot.rs:30`; the exact bound is
  `FifoBound`); a notify that does not unblock a stall spends an iteration of its "2000ms" (`sprot.rs:38`); a JTAG
  edge the RoT never arms keeps the idle RoT from parking (`gdb.rs:127`); the instruction slot of a BKPT
  still ticks and takes interrupts (`gdb.rs:783`, `gdb.rs:855`); a tick due when a freeze begins fires
  without credit (`cpu.rs:83`);
- debug port: an uncaught firmware reset is not reported in S_RESET_ST (`debugport.rs:60`) and leaves
  `vcatch_halt` set, so a later halt request reads as a vector catch (`debugport.rs:106`); a halt and an end
  of debug drained in one iteration are not seen as the RoT taking control, and the SP stays frozen until the
  backstop (`gdb.rs:100`); a SYSRESETREQ of the RoT itself is never consumed;
- SP flash: the serve loop's resets do not deposit the measurement token (`main.rs:1058`); starting the
  server writes the mirrored bank to the file (`flash.rs:163`); a programmed word is written to the file at
  once (`flash.rs:340`);
- core: `maybe_interrupt` looks at the lowest-numbered pending interrupt only, so one that BASEPRI
  masks hides a higher-numbered one it does not; an SVC inside an IT block stacks the IT state of the call itself,
  and a nested SVC from a handler would leave its frame on MSP (the kernel makes none);
- devices: SPI4 and SPI2 latch their chip-select target at the first byte, where a comment says
  at SPE 0 to 1; SPI5 looks at its chip select on writes only; a Tofino debug request is not cleared by an aborted one;
- RoT flash: `RotFlash::new` says that persisted state takes precedence over the bootleby override
  (`rot_flash.rs:243`) and warns that it is ignored (`rot_flash.rs:256`), but `main.rs:820` then loads bootleby over
  page 0 of the persisted array and writes it back; `RotFlash` follows the code, so after such a start page 0
  is bootleby's. `rot_flash.rs:538` says BlankCheck fails "at the first non-0xFF word", while the code below it, and its
  own comment, go by the erased set: a programmed page of 0xFF is not blank, and the property says so. Every erase
  and program truncates and rewrites the whole erased set (`rot_flash.rs:673`): a kill or a full disk there makes
  pages the command never touched read as erased after a restart, where a missing set is refused as corrupt
  (`rot_flash.rs:265`) and a short one is not. A failed write of the array closes that file while the erased set goes on
  being written. An erase range that lies beyond the array, or runs backwards over pages, is clipped in
  `cmd_erase` (`rot_flash.rs:501`) and then panics in the slice of `persist_pages` (`rot_flash.rs:644`);
- RoT: the
  hand-off digest is that of the image passed on the command line although the persisted flash wins (`main.rs:781`);
- shared RoT: an exchange that runs out of iterations leaves a reply which the next exchange
  takes and the cache keeps (`OwnReplyOrNone` ends there), and the short-reply fallback leaves chip select asserted.

### Fairness

`SprotLink`: weak fairness of each thread's own next step (a wait that returns, the notify after
a critical section, going live, parking, waking when notified), which is that the host schedules
both threads. Strong fairness of the RoT firmware noticing SSA and SSD and clearing the latches:
its clean up is finite, so it does not loop in it for ever. Nothing is assumed of `UnparkRotTimeout`: a RoT
that sleeps too long is woken by a notify or the property fails. `ResetService`: weak fairness of
the serve loop, whose steps are all finite, and of the RoT's poll; strong fairness of the end of a
probe session, which the code bounds by its idle timeout or the client's close. `TickCoupling`: weak
fairness of both loops' steps, and strong fairness of each core's WFI, since an idle Hubris kernel
executes it again and again. `bridges`: weak fairness of `Pump` (the serve loop pumps the
bridge between bursts), of `SpRuns` (the core executes, so the net task gets to its next step) and
of `TakeJob` and `Exchange` (the worker thread is scheduled, and each iteration of its loop is finite).
Nothing is assumed of clients, of connections or of the RoT's speed. The other runs check safety only.

## 4. Proofs

A module `XProofs` extends `X` and proves about it, from the named assumptions on its constants
(`FifoAssumption`, `ReloadAssumption`, ...) and nothing else, what the runs check on one
small instance. Every safety result has the same shape: an inductive invariant, checked with TLC first; that
`Init` implies it; one step per action that the action keeps it; and the property as a consequence.

| Module | Theorem | Statement |
|---|---|---|
| `SprotLinkProofs` | `TypeCorrect` | `TypeOK`; the stall budget never underflows |
| | `FifosBounded` | `FifoBound` |
| | `NoWakeupLost` | `NoLostWakeup` |
| | `InOrder` | `InOrderDelivery` |
| | `NoUnderrun` | `ReplyNoUnderrun` |
| `TickCouplingProofs` | `TypeCorrect` | `TypeOK`; countdowns and credits stay within their caps |
| | `SpClockBehind`, `RotClockBehind` | `SpNeverAhead`, `RotNeverAhead` |
| `ResetServiceProofs` | `TypeCorrect` | `TypeOK` |
| | `BkptCurrent` | `BkptReportIsCurrent` |
| | `HeldAtVector` | `FrozenAtVector` |
| | `StickyTruthful` | `NoPhantomReset` |
| | `RdbuffCorrect` | `RdbuffReturnsLastRead` |
| `FlashBanksProofs` | `TypeCorrect` | `TypeOK` |
| | `UpdateSafe` | `UpdateSurvivesKill` |
| | `ImplementsDurable` | the step simulation of `DurableFlash` |
| `CoreExceptionsProofs` | `TypeCorrect` | `TypeOK` |
| | `MainStackIsLevel` | `MainStackLevel` |
| | `EventsAreKept` | `EventKept` |
| | `ImplementsTaskContexts` | the step simulation of `TaskContexts` |
| | `SwitchIsTimely` | `SwitchLatency`, if `Rvr > Cardinality(Irqs) + 2` |
| `SpDevicesProofs` | `I2cReadsAreTheDevices` | `I2cReadsDevice` |
| | `NorPersists` | `NorAckedPersist`, if `Faults = {}` |
| | `NorWritesWhole` | `NorWholeWrites`, if `Faults = {}` |
| `RotDevicesProofs` | `OnlyVerifiedBoots` | `BootedImageVerified` |
| | `BootIdentity` | `IdentityIsBound` |
| | `FlashReadsBack` | `RfReadBack`, whatever host writes fail or are cut |
| `BridgesProofs` | `RingStaysInStep` | `RingInStep`, of `EthSpec` |
| | `RequestOrder` | `RequestsInOrder` |
| | `FairEviction` | `EvictionIsFair` |
| | `AnswersReachTheirAsker` | `AnswerReachesAsker` |
| | `RepliesAreOwn` | `OwnReplyOrNone` |

`Invariance`, `I2cInvariance`, `NorInvariance`, `BootInvariance`, `FlashInvariance`, `EthInvariance`,
`RsInvariance` and `LatencyInvariance` state the inductive invariants themselves. `Rvr > Cardinality(Irqs) + 2` says that the tick period,
in instructions, exceeds the number of interrupts by more than two; the firmware reloads SysTick with the core clock
divided by the tick rate, many thousands, where the NVIC has at most a few hundred lines. `Faults = {}` is the assumption under which the run checks
`NorAckedPersist`, and without which it is false (section 3): it excludes a NOR file cut short
while it is created and one that exists and does not open, and no other failure or kill. Parameters are otherwise arbitrary: FIFO depth, stall budget, transfers and clocks;
reload value, divisor, cap and burst; backstop and number of accesses; banks and words; tasks,
interrupts, priorities and tick period; buses and device sizes; array, sector and transfer sizes; pages,
rows, block and key lengths, interrupts; clients (finitely many, as ports are), views, ring length and backlog;
SPs, requests, FIFO depth and marks, quiet and iteration limits.

### SprotLink

Each part of `IInv` is needed by another:

- `WaitInv`: what a blocked store knew when it started to wait still holds when it returns (chip
  select, a live RoT, clocks left). Without it the store completes outside its transfer.
- `RoomInv`: `FifoBound` is not inductive alone: FIFOWR acts on an earlier poll, so the poll's
  answer must stay valid, which it does because only the RoT fills `miso`.
- `NoLostWakeup`: inductive as it stands, because check and wait are one critical section and
  every change that creates work is followed by a notify that is still owed.
- `PhaseInv`: the RoT firmware's phase against the wires.
- `PacedInv`: while a paced transfer is clocked the RoT is still receiving it, so it neither
  cleans up nor moves rot-irq. This is what the chip-select wait is for.
- `StreamInv`: the request FIFO holds exactly the bytes clocked and not yet read. It gives
  `InOrderDelivery`; with `PacedInv` it survives every action of the other thread.

### TickCoupling

The two properties say that ticks of a frozen clock are paid for by the other core's progress. They
need `FrozenShort` (a frozen countdown stands at 1 only if that tick was due when the freeze began,
otherwise `maybe_tick` would fire one nobody paid for) and `OffAtZero` (after a reset the
countdown is zero until SysTick is turned on, so WFI has nothing to collapse). The rest is arithmetic of the
credit: what is taken out of the shared counter, divided and cut at the cap is never worth more than was
put in. `Reload >= 2` is used: a reload of 1 would put a frozen clock at 1 again.

### ResetService

`FrozenAtVector` and `NoPhantomReset` are in the invariant as they stand, with `EdgeInv`: a reset edge that
the serve loop has not looked at yet left the core at its vector, which survives the steps between the burst and
`EnterService`. `BkptInv` ties DFSR to the halt that set it. `RdbuffReturnsLastRead` needs the
shape of the queue (`QueueInv`): the RoT waits for a read before it issues anything else, so a queue holds
writes and at most one read, at its end; the history variable `lastAp` names that read until it is
popped and what the port has latched afterwards.

### FlashBanks

`WrittenThrough` (the image file is the memory until a write-through fails), `Recorded` (the `.nv` file is the
option bytes until a save fails) and `WholeImage` (on the update protocol's path, the recorded bank holds a whole
image). The last gives `UpdateSurvivesKill` at every step, the torn rewrites of a kill included. The
refinement maps each action to a step of `DurableFlash` or a stutter with the first two: without
`Recorded`, a boot could enter a bank that the abstract flash does not know of.

### CoreExceptions

`Shape` says where MSP and PSP are in thread and in handler mode, in the boot code and in a task: a
handler runs on the main stack, and its EXC_RETURN leads back to the stack of the one it
interrupted. `SavedShape` says the same of the contexts the kernel has put away. A slot is a composition of functions
(instruction, `maybe_tick`, `maybe_interrupt`), so the proof goes function by function: what
entry pushes and what return pops are described once (`EntryResult`, `ReturnResult`), the tick and the
interrupt that may follow an instruction are shown to keep stacks and contexts (`Continues`), and actions
are combined from these by `FromSlot`. `Kept` is
the bookkeeping of events; `ContextsOK` lets the refinement choose the abstract task's register.
`ImplementsTaskContexts` then says that each slot changes the context of the task that ran by its own
instruction, or of no task at all.

`LatencyInv` bounds how long a PendSV waits. Masks are the boot code's alone and nothing waits then
(`Unmasked`); in thread mode nothing waits either: handlers ask for the switch, and the slot in which one returns
enters PendSV or another handler.
So the wait is a chain of handlers, each of two slots, and `Accounted` pays for them: each is either that of an interrupt
now `Spent` (its handler disables the line, so it does not come again before the switch) or that of one of
`k` ticks. The ticks are a period apart, which bounds `k * Rvr` by the slots waited; a third would need a wait of
more than two periods, and two periods exceed what all interrupts and two ticks take (`NextTick`). This is where the condition on `Rvr` is
used, and the only place. `JustEntered` is needed for the step in which a handler's body asks for the switch: it says that
the tick or interrupt that entered it is already paid for.

### I2cBus

The property is about the bytes a driver collected; the invariant adds what the controller has latched for it
(`I2cBusesOK`) and that the connection carries only the query or the answer of the bus that waits
(`I2cOneLine`): this is what a late answer, in `i2c_late`, breaks.

### NorFlash

`QspiOK`: an open file is whole and holds the array, and no file exists until the first write creates it.
`NorPromise`: what a restart may bring back includes what the file and the array hold; a write cut short
leaves bytes of either. `NorLink` ties the controller to the driver's command: the write-enable latch is a WREN
issued and not used, and the buffer is what was sent for this command alone, whatever command a
reset cut short; from it `NorWholeWrites`. Commands are compositions of functions returning sets of outcomes, so
the proof describes each function's outcomes once: nothing written (`NorQuiet`), or the array changed at
the command's bytes and the file with it (`NorStored`). An erase needs that a sector is an interval (`SectorInterval`),
a program that its two segments cover what wraps past the end (`SegmentsCover`).

### RotBoot

A ROM call is parked on a trap address while interrupts come and go. `FramesOK` and `CallOK` say that
bootleby's own frame is at the bottom of the stack, whatever is stacked above, so the verdict is put into the registers
of the call that asked. `VerdictOK` carries the slot from `rom_dispatch` to the jump, `HashOK` the words digested
so far, `KeyOK` the words of the key handed out before the index is blocked.

### RotFlash

`RfReadBack` only looks at answers; the invariant is about where they come from. `MemOK`: the running engine has every
page as the last command made it, whatever became of the files. `DiskOK` says the same of each file for the
pages stored in it, separately (`BitMatches` of the bitset, `FileMatches` of the array), because the two come apart: a
command whose array write fails still writes the bitset, and a bitset cut short drops pages which a later
command's puts back. `KnownOK`: with no process, only pages in both files are known, so whatever `new()` loads agrees with
all that is known (`LoadedMatches`). `DrvOK` follows a page write row by row into the page buffer, `AnswerOK` drops the answer of
a killed process. What a command leaves in the files is stated once, for every outcome (`Saved`): each word as
before or as in the engine, the pages of a whole write as in the engine; from that one lemma, `SettleKeeps`, serves erase,
program and start. Where a check concerns a range of words, the proof takes the least word that fails
(`LeastElement`).

### EthBridge

The theorems are about `EthSpec`, in which the SP is not reset; with resets `RingInStep` is false (`eth_reset`).
`EthInv` describes the two directions:

- *Way in* (`RequestsOK`, `RingPart`). A client's requests are numbered, and its frames lie in rising order in
  the sockets, then in the bridge's queue, then in the ring, all after the last one the driver has taken
  (`net.last`). `RequestsInOrder` alone says only what has happened; it is kept because eviction and control
  frames remove from the queue and never reorder it (`RemovalKeepsLine`), and because the filled descriptors are
  one segment of the ring, from the driver's position up to the DMA's (`Seg`), which is `RingInStep`.
- *Way out* (`RepliesOK`). A reply is for a request already seen and lies in one place only: the task's list, the
  frames waiting for the pump, or what a client got. So no client gets one twice, and its flow and view are
  still those of the request, since a packet carries the tag of its own slot's context (`WalkTakes`).

`pump_eth` and `eth_tx_walk` are loops, in the model functions from a position to the set of states
reached. Instead of induction over the frames, `RunsTrail` picks one path through such a function and
`TrailInv` takes its least position at which an invariant fails; every loop body then has one lemma (`PassOne`, `PassTwo`,
`PassThree`, `WalkTakes`). `FairEviction` counts: if the busiest client has `load` frames, the
queue has at most `load` for each client besides the control frames (`ShareBound`), and it has
`BacklogCap + 1` at that moment.

### RotService

`RsGood` says where the exchange under way stands: receiving the request, working, rot-irq raised, selected for the
reply, sending, collected, ended. Each stage fixes the wires, the RoT's state and the bytes
collected (`Receiving` ... `Ended`), and an iteration of `rot_exchange` leads from a stage to itself or to the next
(`IterationStage`); in particular the leading zero and the declared length leave exactly the
reply (`TailSending`). `QueueOK` says that the jobs queued for one client are of different connections and only the
last is current, so `Answer` gives a reply to nobody whose request it is not, also when a broken connection left a
job behind. Once an exchange has run out of iterations nothing but the types is claimed (`RsShape`): the
RoT is then in the middle of a reply the next exchange will take for its own (section 3).

### Only model-checked

- Liveness (`SpUnblocks`, `SsdServed`, `FreezeEnds`, `ReadAnswered`, `FrozenClockMoves`, `RequestAnswered`,
  `ExchangeReturns`) and the deadlock freedom of every run: fairness and `ENABLED` are outside TLAPS's reach.
- `ThumbOps`, for every operand of a small word: it uses `Bitwise`, which the prover does not support.
- `SpiFraming`: the expected frame is a fold over the bytes sent, so a proof would need induction over data.
- `SwitchLatency` for periods up to `Cardinality(Irqs) + 2`: it is false for some (four, with two interrupts) and holds for
  others, where ticks always fall into handlers (three); no firmware uses such a period.

## 5. Plan

Every module of the original plan exists, and eleven of them have proofs. Left:

- precedence of seed sources and configuration migration as pure functions.

## 6. Not modelled

The instruction decoder (a library) and the dispatch over its operands; floating-point arithmetic, which
is the host's; DSP and exclusive accesses. Register blocks that only echo or count: UARTs, RNG, timers,
HASH of the SP, MDIO. Of the load and store encodings `MemAddr32` has the immediate form with write-back (T4), and a
load whose destination is its base register is not told apart. An AIRCR.SYSRESETREQ written by the RoT over its SWD port
(`debugport.rs:309`), which by the comment at line 336 it never does; the order in which one poll visits the bridge's sockets
(`bridge.rs:557`): `EthBridge` takes host frames in order of arrival, which is the same for each client; the
length check of a reply (`rot_service.rs:182`): the RoT's replies in `RotService` are well formed. Layouts of packets, frames, CMPA and CFPA pages; digests, ciphers and
signatures, which are taken to be injective or to be oracles. The `nack_all` switch of I2C. Identity, bundle and
configuration: files parsed or written once at start, with nothing beside them. Logging, debug flags, the
stuck-link watchdog, the memory map tables and the offline analyser. `PROJECT.json` gives
the status of every component. Both firmwares are external: the models use them as the code
in `src/` does.
