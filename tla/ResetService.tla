---------------------------- MODULE ResetService -----------------------------
(***************************************************************************)
(* How the RoT thread takes hold of the SP core: the SW-DP of the SP       *)
(* (src/src/debugport.rs), the SWD request queue between the threads       *)
(* (src/src/rotswd.rs), and the part of the SP serve loop that resets the  *)
(* core, freezes it for an armed RoT and drains that queue (src/src/gdb.rs).*)
(*                                                                         *)
(* An iteration of the serve loop is four steps, each ending at its access *)
(* to shared state: the burst up to posting sp_reset_pint, the load of     *)
(* armed_sp_reset, one step per SWD request drained, and the take of       *)
(* sp_reset_release with what follows it.  A pop and the store of its      *)
(* result are one step: the RoT's only step between them is a stalled poll.*)
(*                                                                         *)
(* The RoT firmware is outside the repository: it issues SWD accesses and  *)
(* reset pulses in any order, waiting for the result of a read.            *)
(***************************************************************************)
EXTENDS Naturals, Sequences

CONSTANTS
  HaltIters,   \* SP_RESET_HALT_ITERS
  MaxReqs,     \* bound: SWD accesses the RoT issues
  MaxResets,   \* bound: resets of the SP asked for
  MaxProbes    \* bound: debug probe sessions on the SP

ASSUME IterAssumption  == HaltIters \in Nat \ {0}
ASSUME BoundAssumption == MaxReqs \in Nat /\ MaxResets \in Nat /\ MaxProbes \in Nat

VARIABLES
  \* SP core
  halted, debug_en, bkpt_hit,
  pcAt,            \* "vector" (nothing run since reset) or "code"
  reset_pending,   \* AIRCR.SYSRESETREQ written, not applied yet
  \* sp_swdp
  vc,              \* DEMCR.VC_CORERESET
  reset_sticky, vcatch_halt,
  posted,          \* the pipelined AP read, named by the access that latched it
  \* SwdLink
  req, resp,
  \* SprotLink and RotShared
  sp_reset_release, sp_reset_pint, armed_sp_reset,
  \* serve loop
  loop,            \* "burst", "armed", "drain", "pin", "probe"
  sp_reset_edge, servicing, iters,
  \* RoT side
  phase,           \* RotSwdSpi: "Idle" or "ReadData"
  irq4Enabled,     \* the RoT's swd task armed SP_RESET
  lastAp,          \* the RoT's last AP read
  \* history
  issued,          \* SWD accesses issued
  issuedAtRelease, \* value of issued when the reset pin was released
  resets, probes,  \* resets asked for, probe sessions
  haltCause,       \* "none", "request", "bkpt", "vcatch"
  resetUnread,     \* the core was reset since DHCSR was read
  probed           \* a probe drove the SP since its last reset

core    == <<halted, debug_en, bkpt_hit, pcAt, reset_pending>>
port    == <<vc, reset_sticky, vcatch_halt, posted>>
links   == <<req, resp, sp_reset_release, sp_reset_pint, armed_sp_reset>>
serve   == <<loop, sp_reset_edge, servicing, iters>>
rot     == <<phase, irq4Enabled, lastAp>>
history == <<issued, issuedAtRelease, resets, probes, haltCause, resetUnread, probed>>
vars    == <<core, port, links, serve, rot, history>>

None   == 0                                     \* resp and ids: no access
Writes == {"halt", "resume", "end", "vcOn", "vcOff"}
Reads  == {"DHCSR", "DFSR", "RDBUFF"}
Access == [op : Writes \cup Reads, id : 1..MaxReqs]

Init ==
  /\ halted = FALSE /\ debug_en = FALSE /\ bkpt_hit = FALSE /\ pcAt = "vector"
  /\ reset_pending = FALSE
  /\ vc = FALSE /\ reset_sticky = FALSE /\ vcatch_halt = FALSE /\ posted = None
  /\ req = <<>> /\ resp = None
  /\ sp_reset_release = FALSE /\ sp_reset_pint = FALSE /\ armed_sp_reset = FALSE
  /\ loop = "burst" /\ sp_reset_edge = FALSE /\ servicing = FALSE /\ iters = 0
  /\ phase = "Idle" /\ irq4Enabled = FALSE /\ lastAp = None
  /\ issued = 0 /\ issuedAtRelease = 0 /\ resets = 0 /\ probes = 0 /\ haltCause = "none"
  /\ resetUnread = FALSE /\ probed = FALSE

-----------------------------------------------------------------------------
(* Resets of the SP core.                                                  *)

\* Mutant of ResetCore: BKPT state survives a reset.
ResetCore_keepsBkpt(fromPort) ==
  /\ halted' = vc /\ haltCause' = IF vc THEN "vcatch" ELSE "none"
  /\ pcAt' = "vector"
  /\ vcatch_halt' = (vcatch_halt \/ vc)
  /\ reset_sticky' = (reset_sticky \/ vc \/ fromPort)
  /\ resetUnread' = TRUE /\ probed' = FALSE
  /\ UNCHANGED <<debug_en, bkpt_hit, vc, posted>>

(* reset_for_reboot, reset_exception_sources and honor_vector_catch, with  *)
(* the sticky flag set whenever a debug-port reset did it.                 *)
ResetCore(fromPort) ==
  /\ halted' = vc /\ haltCause' = IF vc THEN "vcatch" ELSE "none"
  /\ bkpt_hit' = FALSE /\ pcAt' = "vector"
  /\ vcatch_halt' = (vcatch_halt \/ vc)
  /\ reset_sticky' = (reset_sticky \/ vc \/ fromPort)
  /\ resetUnread' = TRUE /\ probed' = FALSE
  /\ UNCHANGED <<debug_en, vc, posted>>

-----------------------------------------------------------------------------
(* Serve loop: the burst.                                                  *)

\* Mutant of Frozen: servicing does not hold the core.
Frozen_onlyHalted == halted

(* sp_burst_for: a halted core and one being serviced do not run.          *)
Frozen == halted \/ servicing

PostEdge(edge) ==
  /\ sp_reset_edge' = edge
  /\ sp_reset_pint' = (sp_reset_pint \/ edge)
  /\ loop' = "armed"
  /\ UNCHANGED <<req, resp, sp_reset_release, armed_sp_reset, servicing, iters, rot, issued,
                 issuedAtRelease, probes>>

(* No instruction runs, or some do and the burst ends without an event.    *)
BurstPlain ==
  /\ loop = "burst" /\ ~reset_pending
  /\ pcAt' = IF Frozen THEN pcAt ELSE "code"
  /\ PostEdge(FALSE)
  /\ UNCHANGED <<halted, debug_en, bkpt_hit, reset_pending, port, resets, haltCause,
                 resetUnread, probed>>

(* The burst reaches a BKPT under debug.  (The maybe_tick and              *)
(* maybe_interrupt after it may still enter a handler, with the core       *)
(* halted there.)                                                          *)
BurstBkpt ==
  /\ loop = "burst" /\ ~reset_pending /\ ~Frozen /\ debug_en
  /\ halted' = TRUE /\ bkpt_hit' = TRUE /\ haltCause' = "bkpt"
  /\ pcAt' = "code"
  /\ PostEdge(FALSE)
  /\ UNCHANGED <<debug_en, reset_pending, port, resets, resetUnread, probed>>

(* The firmware resets the SP, in this burst or in an earlier session.     *)
BurstReset ==
  /\ loop = "burst"
  /\ \/ reset_pending /\ UNCHANGED resets
     \/ ~reset_pending /\ ~Frozen /\ resets < MaxResets /\ resets' = resets + 1
  /\ ResetCore(FALSE)
  /\ reset_pending' = FALSE
  /\ PostEdge(TRUE)

-----------------------------------------------------------------------------
(* Serve loop: prompt-halt servicing.                                      *)

(* enter_sp_reset_service, after the load of armed_sp_reset.               *)
EnterService ==
  /\ loop = "armed"
  /\ LET enter == sp_reset_edge /\ armed_sp_reset /\ ~halted
     IN /\ servicing' = (servicing \/ enter)
        /\ iters' = IF enter THEN HaltIters ELSE iters
  /\ loop' = "drain"
  /\ UNCHANGED <<core, port, links, sp_reset_edge, rot, issued, issuedAtRelease, resets, probes,
                 haltCause, resetUnread, probed>>

\* Mutant of ContinueService: the backstop is never spent.
ContinueService_noBackstop(h, d) ==
  /\ servicing' = (servicing /\ ~h /\ ~d)
  /\ UNCHANGED iters

(* continue_sp_reset_service on the core's flags after the drain.          *)
ContinueService(h, d) ==
  IF ~servicing \/ h \/ d
  THEN servicing' = FALSE /\ UNCHANGED iters
  ELSE /\ iters' = IF iters > 0 THEN iters - 1 ELSE 0
       /\ servicing' = (iters' # 0)

-----------------------------------------------------------------------------
(* Serve loop: the SWD drain.                                              *)

(* write_dhcsr with C_DEBUGEN|C_HALT, with C_DEBUGEN alone, and with zero. *)
WriteDhcsr(op) ==
  /\ debug_en' = (op # "end")
  /\ halted' = (op = "halt")
  /\ haltCause' = IF op # "halt" THEN "none" ELSE IF halted THEN haltCause ELSE "request"
  /\ bkpt_hit' = (bkpt_hit /\ op = "halt")
  /\ vcatch_halt' = (vcatch_halt /\ op = "halt")

WriteDemcr(op) == vc' = (op = "vcOn")

\* Mutants of Answer: S_RESET_ST is not cleared by the read; RDBUFF latches like an AP
\* read; the word latched at power-on is not handed back.
Answer_keepsSticky(a) ==
  /\ resp' = IF posted = None THEN MaxReqs + 1 ELSE posted
  /\ posted' = IF a.op = "RDBUFF" THEN posted ELSE a.id
  /\ resetUnread' = (resetUnread /\ a.op # "DHCSR")
  /\ UNCHANGED reset_sticky

Answer_rdbuffLatches(a) ==
  /\ resp' = IF posted = None THEN MaxReqs + 1 ELSE posted
  /\ posted' = a.id
  /\ reset_sticky' = (reset_sticky /\ a.op # "DHCSR")
  /\ resetUnread' = (resetUnread /\ a.op # "DHCSR")

Answer_dropsFirst(a) ==
  /\ resp' = posted
  /\ posted' = IF a.op = "RDBUFF" THEN posted ELSE a.id
  /\ reset_sticky' = (reset_sticky /\ a.op # "DHCSR")
  /\ resetUnread' = (resetUnread /\ a.op # "DHCSR")

(* An AP read answers with the word latched before it and latches its own; *)
(* RDBUFF answers with the latched word.                                   *)
Answer(a) ==
  /\ resp' = IF posted = None THEN MaxReqs + 1 ELSE posted
  /\ posted' = IF a.op = "RDBUFF" THEN posted ELSE a.id
  /\ reset_sticky' = (reset_sticky /\ a.op # "DHCSR")
  /\ resetUnread' = (resetUnread /\ a.op # "DHCSR")

(* One ADIv5 access, run against the SP's debug port.                      *)
DrainOne ==
  /\ loop = "drain" /\ req # <<>>
  /\ LET a == Head(req)
     IN /\ IF a.op \in {"halt", "resume", "end"}
           THEN WriteDhcsr(a.op)
           ELSE UNCHANGED <<debug_en, halted, haltCause, bkpt_hit, vcatch_halt>>
        /\ IF a.op \in {"vcOn", "vcOff"} THEN WriteDemcr(a.op) ELSE UNCHANGED vc
        /\ IF a.op \in Reads
           THEN Answer(a)
           ELSE UNCHANGED <<resp, posted, reset_sticky, resetUnread>>
  /\ req' = Tail(req)
  /\ UNCHANGED <<pcAt, reset_pending, sp_reset_release, sp_reset_pint, armed_sp_reset, serve,
                 rot, issued, issuedAtRelease, resets, probes, probed>>

(* The queue is seen empty: the drain loop breaks.                         *)
DrainEnds ==
  /\ loop = "drain" /\ req = <<>>
  /\ loop' = "pin"
  /\ UNCHANGED <<core, port, links, sp_reset_edge, servicing, iters, rot, history>>

-----------------------------------------------------------------------------
(* Serve loop: the reset pin, then the end of the iteration.               *)

PinReset ==
  /\ loop = "pin" /\ sp_reset_release
  /\ sp_reset_release' = FALSE
  /\ ResetCore(TRUE)
  /\ ContinueService(vc, debug_en)
  /\ loop' = "burst"
  /\ UNCHANGED <<reset_pending, req, resp, sp_reset_pint, armed_sp_reset, sp_reset_edge, rot,
                 issued, issuedAtRelease, resets, probes>>

NoPinReset ==
  /\ loop = "pin" /\ ~sp_reset_release
  /\ ContinueService(halted, debug_en)
  /\ loop' = "burst"
  /\ UNCHANGED <<core, port, links, sp_reset_edge, rot, history>>

-----------------------------------------------------------------------------
(* Serve loop: a probe session, with a debug port of its own.              *)

ProbeAttach ==
  /\ loop = "burst" /\ probes < MaxProbes
  /\ loop' = "probe"
  /\ probes' = probes + 1 /\ probed' = TRUE
  /\ UNCHANGED <<core, port, links, sp_reset_edge, servicing, iters, rot, issued,
                 issuedAtRelease, resets, haltCause, resetUnread>>

(* The session runs the core, until it halts it or a BKPT does, and the    *)
(* firmware it runs may ask for a reset.                                   *)
ProbeRun(halt, resetReq) ==
  /\ loop = "probe" /\ (resetReq => resets < MaxResets)
  /\ debug_en' = TRUE
  /\ halted' = (halt # "none") /\ haltCause' = halt /\ bkpt_hit' = (halt = "bkpt")
  /\ pcAt' = "code"
  /\ reset_pending' = (reset_pending \/ resetReq)
  /\ resets' = IF resetReq THEN resets + 1 ELSE resets
  /\ UNCHANGED <<port, links, serve, rot, issued, issuedAtRelease, probes, resetUnread,
                 probed>>

(* The session resets the core through its own port, with its own catch.   *)
ProbeReset(catch) ==
  /\ loop = "probe" /\ resets < MaxResets
  /\ resets' = resets + 1
  /\ halted' = catch /\ haltCause' = IF catch THEN "vcatch" ELSE "none"
  /\ bkpt_hit' = FALSE /\ pcAt' = "vector" /\ resetUnread' = TRUE
  /\ UNCHANGED <<debug_en, reset_pending, port, links, serve, rot, issued, issuedAtRelease,
                 probes, probed>>

ProbeDetach ==
  /\ loop = "probe"
  /\ halted' = FALSE /\ debug_en' = FALSE /\ bkpt_hit' = FALSE
  /\ haltCause' = "none"
  /\ loop' = "burst"
  /\ UNCHANGED <<pcAt, reset_pending, port, links, sp_reset_edge, servicing, iters, rot, issued,
                 issuedAtRelease, resets, probes, resetUnread, probed>>

-----------------------------------------------------------------------------
(* RoT thread: FLEXCOMM5 accesses (rotswd.rs, fifowr) and the pins.        *)

RotRead(op) ==
  /\ phase = "Idle" /\ issued < MaxReqs
  /\ issued' = issued + 1
  /\ req' = Append(req, [op |-> op, id |-> issued + 1])
  /\ phase' = "ReadData"
  /\ lastAp' = IF op = "RDBUFF" THEN lastAp ELSE issued + 1
  /\ UNCHANGED <<core, port, resp, sp_reset_release, sp_reset_pint, armed_sp_reset, serve,
                 irq4Enabled, issuedAtRelease, resets, probes, haltCause, resetUnread, probed>>

RotWrite(op) ==
  /\ phase = "Idle" /\ issued < MaxReqs
  /\ issued' = issued + 1
  /\ req' = Append(req, [op |-> op, id |-> issued + 1])
  /\ UNCHANGED <<core, port, resp, sp_reset_release, sp_reset_pint, armed_sp_reset, serve, rot,
                 issuedAtRelease, resets, probes, haltCause, resetUnread, probed>>

(* maybe_supply_read_data: the poll finds the result.                      *)
RotTakeRead ==
  /\ phase = "ReadData" /\ resp # None
  /\ resp' = None /\ phase' = "Idle"
  /\ UNCHANGED <<core, port, req, sp_reset_release, sp_reset_pint, armed_sp_reset, serve,
                 irq4Enabled, lastAp, history>>

(* LpcGpio: ROT_TO_SP_RESET_L goes low and high again.                     *)
RotReleaseReset ==
  /\ phase = "Idle" /\ ~sp_reset_release /\ resets < MaxResets
  /\ sp_reset_release' = TRUE /\ resets' = resets + 1
  /\ issuedAtRelease' = issued
  /\ UNCHANGED <<core, port, req, resp, sp_reset_pint, armed_sp_reset, serve, rot, issued,
                 probes, haltCause, resetUnread, probed>>

RotArms ==
  /\ irq4Enabled' = ~irq4Enabled
  /\ UNCHANGED <<core, port, links, serve, phase, lastAp, history>>

(* Top of the RoT loop: take the edge, publish whether IRQ 4 is enabled.   *)
RotTop ==
  /\ sp_reset_pint' = FALSE
  /\ armed_sp_reset' = irq4Enabled
  /\ <<sp_reset_pint', armed_sp_reset'>> # <<sp_reset_pint, armed_sp_reset>>
  /\ UNCHANGED <<core, port, req, resp, sp_reset_release, serve, rot, history>>

-----------------------------------------------------------------------------
ServeStep ==
  \/ BurstPlain \/ BurstBkpt \/ BurstReset
  \/ EnterService \/ DrainOne \/ DrainEnds \/ PinReset \/ NoPinReset
  \/ ProbeDetach

RotStep ==
  \/ \E op \in Reads : RotRead(op)
  \/ \E op \in Writes : RotWrite(op)
  \/ RotTakeRead \/ RotReleaseReset \/ RotArms \/ RotTop

Next ==
  \/ ServeStep \/ RotStep
  \/ ProbeAttach
  \/ \E halt \in {"none", "request", "bkpt"}, r \in BOOLEAN : ProbeRun(halt, r)
  \/ \E catch \in BOOLEAN : ProbeReset(catch)

Spec == Init /\ [][Next]_vars

(* The serve loop keeps iterating: every step of it is finite, and a probe *)
(* session ends by itself (the client closes, or five idle seconds pass).  *)
(* A stalled RoT keeps polling for its result.                             *)
Fairness == WF_vars(ServeStep) /\ WF_vars(RotTakeRead) /\ SF_vars(ProbeDetach)
FairSpec == Spec /\ Fairness

-----------------------------------------------------------------------------
(* Properties.                                                             *)

(* Every variable keeps its type.                                          *)
TypeOK ==
  /\ {halted, debug_en, bkpt_hit, reset_pending, vc, reset_sticky, vcatch_halt, sp_reset_release,
      sp_reset_pint, armed_sp_reset, sp_reset_edge, servicing, irq4Enabled, resetUnread,
      probed} \subseteq BOOLEAN
  /\ pcAt \in {"vector", "code"}
  /\ posted \in 0..MaxReqs /\ lastAp \in 0..MaxReqs
  /\ req \in Seq(Access) /\ resp \in 0..(MaxReqs + 1)
  /\ loop \in {"burst", "armed", "drain", "pin", "probe"}
  /\ iters \in 0..HaltIters
  /\ phase \in {"Idle", "ReadData"}
  /\ issued \in 0..MaxReqs /\ issuedAtRelease \in 0..MaxReqs /\ resets \in 0..MaxResets
  /\ probes \in 0..MaxProbes
  /\ haltCause \in {"none", "request", "bkpt", "vcatch"}

(* What mem_read_word synthesizes for DFSR.                                *)
DfsrValue ==
  CASE bkpt_hit               -> "BKPT"
    [] ~bkpt_hit /\ vcatch_halt /\ halted -> "VCATCH"
    [] ~bkpt_hit /\ ~vcatch_halt /\ halted -> "HALTED"
    [] ~bkpt_hit /\ ~halted -> "0"

(* A DFSR that says BKPT says it of the halt the core is in: no reset,     *)
(* resume, end of debug or probe session leaves the report behind.         *)
BkptReportIsCurrent == DfsrValue = "BKPT" => (halted /\ haltCause = "bkpt")

(* While an armed RoT is expected to halt it, the SP stays at its reset    *)
(* vector, having run nothing, whatever the RoT does meanwhile; only a     *)
(* probe session moves it.                                                 *)
FrozenAtVector == (servicing /\ ~probed) => pcAt = "vector"

(* S_RESET_ST never reports a reset that did not happen since the last     *)
(* read of DHCSR.                                                          *)
NoPhantomReset == reset_sticky => resetUnread

(* With no AP read after it in the queue, the word RDBUFF will return is   *)
(* the one the RoT's last AP read latched: no write in between loses it.   *)
RdbuffReturnsLastRead == (phase = "Idle" /\ lastAp # None) => posted = lastAp

(* The freeze ends: the RoT takes control or the backstop expires.         *)
FreezeEnds == servicing ~> ~servicing

(* A read the RoT stalls on is answered, across probe sessions too.        *)
ReadAnswered == (phase = "ReadData") ~> (phase = "Idle")

-----------------------------------------------------------------------------
(* What a comment of the code says, and the code does not do.              *)

(* gdb.rs, before pin_reset: "Done after draining the SWD link so the      *)
(* DHCSR/DEMCR writes that arm the vector catch are already applied".  The *)
(* RoT may issue them and release the pin after the drain saw its queue    *)
(* empty.                                                                  *)
ArmedBeforePinReset ==
  [][(sp_reset_release /\ ~sp_reset_release') => issued - Len(req) >= issuedAtRelease]_vars
=============================================================================
