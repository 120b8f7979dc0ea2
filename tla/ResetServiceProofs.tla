------------------------- MODULE ResetServiceProofs --------------------------
(***************************************************************************)
(* Proofs about how the RoT takes hold of the SP core, for every length of *)
(* the backstop and any number of SWD accesses, resets and probe sessions. *)
(***************************************************************************)
EXTENDS ResetService, SequenceTheorems, TLAPS

USE IterAssumption, BoundAssumption

(* What is reported of a BKPT is true of the core now.                     *)
BkptInv == bkpt_hit => (halted /\ haltCause = "bkpt")

(* A reset edge not looked at yet left the core at its vector, and only a  *)
(* core a probe has driven is in a probe session.                          *)
EdgeInv ==
  /\ (loop = "armed" /\ sp_reset_edge) => pcAt = "vector"
  /\ loop = "probe" => probed

(* The RoT waits for a read that the SP has not popped yet.                *)
ReadQueued == phase = "ReadData" /\ resp = None

(* What RDBUFF would return now.                                           *)
Latched == lastAp # None => posted = lastAp

(* A read is the last access of the queue and the only one: the RoT waits  *)
(* for its result before it issues another.  Until an AP read is popped,   *)
(* lastAp names it; otherwise lastAp is what the port has latched.         *)
QueueInv ==
  /\ phase = "Idle" => resp = None
  /\ ~ReadQueued => Latched /\ \A i \in 1..Len(req) : req[i].op \in Writes
  /\ ReadQueued =>
       /\ Len(req) > 0 /\ req[Len(req)].op \in Reads
       /\ \A i \in 1..(Len(req) - 1) : req[i].op \in Writes
       /\ IF req[Len(req)].op = "RDBUFF" THEN Latched ELSE lastAp = req[Len(req)].id

IInv ==
  /\ TypeOK /\ BkptInv /\ EdgeInv /\ FrozenAtVector /\ NoPhantomReset /\ QueueInv

-----------------------------------------------------------------------------
(* Type correctness.                                                       *)

(* The flags of TypeOK, one by one.                                        *)
FlagsOK ==
  /\ halted \in BOOLEAN /\ debug_en \in BOOLEAN /\ bkpt_hit \in BOOLEAN
  /\ reset_pending \in BOOLEAN /\ vc \in BOOLEAN /\ reset_sticky \in BOOLEAN
  /\ vcatch_halt \in BOOLEAN /\ sp_reset_release \in BOOLEAN /\ sp_reset_pint \in BOOLEAN
  /\ armed_sp_reset \in BOOLEAN /\ sp_reset_edge \in BOOLEAN /\ servicing \in BOOLEAN
  /\ irq4Enabled \in BOOLEAN /\ resetUnread \in BOOLEAN /\ probed \in BOOLEAN

DataOK ==
  /\ pcAt \in {"vector", "code"}
  /\ posted \in 0..MaxReqs /\ lastAp \in 0..MaxReqs
  /\ req \in Seq(Access) /\ resp \in 0..(MaxReqs + 1)
  /\ loop \in {"burst", "armed", "drain", "pin", "probe"}
  /\ iters \in 0..HaltIters
  /\ phase \in {"Idle", "ReadData"}
  /\ issued \in 0..MaxReqs /\ issuedAtRelease \in 0..MaxReqs /\ resets \in 0..MaxResets
  /\ probes \in 0..MaxProbes
  /\ haltCause \in {"none", "request", "bkpt", "vcatch"}

LEMMA TypeParts == (TypeOK <=> FlagsOK /\ DataOK) /\ (TypeOK' <=> FlagsOK' /\ DataOK')
  BY DEF TypeOK, FlagsOK, DataOK

(* A reset of the core keeps the types of what it writes.                  *)
LEMMA ResetCoreType ==
  ASSUME FlagsOK, NEW p \in BOOLEAN, ResetCore(p)
  PROVE  /\ halted' \in BOOLEAN /\ bkpt_hit' \in BOOLEAN /\ vcatch_halt' \in BOOLEAN
         /\ reset_sticky' \in BOOLEAN /\ resetUnread' \in BOOLEAN /\ probed' \in BOOLEAN
         /\ debug_en' \in BOOLEAN /\ vc' \in BOOLEAN
         /\ pcAt' \in {"vector", "code"} /\ haltCause' \in {"none", "request", "bkpt", "vcatch"}
         /\ UNCHANGED posted
  BY DEF FlagsOK, ResetCore

(* The backstop counts down and never below zero.                          *)
LEMMA ContinueType ==
  ASSUME DataOK, FlagsOK, NEW h \in BOOLEAN, NEW d \in BOOLEAN, ContinueService(h, d)
  PROVE  iters' \in 0..HaltIters /\ servicing' \in BOOLEAN /\ (servicing' => servicing)
<1>1. CASE ~servicing \/ h \/ d
  BY <1>1 DEF DataOK, ContinueService
<1>2. CASE ~(~servicing \/ h \/ d)
  <2>1. iters' = (IF iters > 0 THEN iters - 1 ELSE 0) /\ servicing' = (iters' # 0)
    BY <1>2 DEF ContinueService
  <2>2. iters' \in 0..HaltIters
    BY <2>1 DEF DataOK
  <2> QED BY <1>2, <2>1, <2>2
<1> QED BY <1>1, <1>2

(* Every access the RoT issues is one of Access.                           *)
LEMMA IssueType ==
  ASSUME DataOK, NEW op \in Writes \cup Reads, issued < MaxReqs
  PROVE  /\ [op |-> op, id |-> issued + 1] \in Access
         /\ Append(req, [op |-> op, id |-> issued + 1]) \in Seq(Access)
         /\ issued + 1 \in 1..MaxReqs
<1>1. issued + 1 \in 1..MaxReqs
  BY DEF DataOK
<1>2. [op |-> op, id |-> issued + 1] \in Access
  BY <1>1 DEF Access
<1> QED BY <1>1, <1>2 DEF DataOK

(* The burst steps.                                                        *)
LEMMA BurstType ==
  ASSUME FlagsOK, DataOK, BurstPlain \/ BurstBkpt \/ BurstReset
  PROVE  FlagsOK' /\ DataOK'
<1>1. ASSUME NEW e \in BOOLEAN, PostEdge(e)
      PROVE  /\ sp_reset_edge' \in BOOLEAN /\ sp_reset_pint' \in BOOLEAN /\ loop' = "armed"
             /\ UNCHANGED <<req, resp, sp_reset_release, armed_sp_reset, servicing, iters, rot,
                            issued, issuedAtRelease, probes>>
  BY <1>1 DEF PostEdge, FlagsOK
<1>2. CASE BurstPlain
  <2>1. PostEdge(FALSE)
    BY <1>2 DEF BurstPlain
  <2>2. FlagsOK'
    BY <1>1, <1>2, <2>1 DEF BurstPlain, FlagsOK, port, rot
  <2>3. DataOK'
    BY <1>1, <1>2, <2>1 DEF BurstPlain, DataOK, port, rot
  <2> QED BY <2>2, <2>3
<1>3. CASE BurstBkpt
  <2>1. PostEdge(FALSE)
    BY <1>3 DEF BurstBkpt
  <2>2. FlagsOK'
    BY <1>1, <1>3, <2>1 DEF BurstBkpt, FlagsOK, port, rot
  <2>3. DataOK'
    BY <1>1, <1>3, <2>1 DEF BurstBkpt, DataOK, port, rot
  <2> QED BY <2>2, <2>3
<1>4. CASE BurstReset
  <2>1. resets' \in 0..MaxResets /\ reset_pending' \in BOOLEAN
    <3>1. reset_pending' = FALSE
          /\ (resets' = resets \/ (resets < MaxResets /\ resets' = resets + 1))
      BY <1>4 DEF BurstReset
    <3>2. resets' \in 0..MaxResets
      BY <3>1 DEF DataOK
    <3> QED BY <3>1, <3>2
  <2>2. ResetCore(FALSE) /\ PostEdge(TRUE)
    BY <1>4 DEF BurstReset
  <2> QED BY <1>1, <2>1, <2>2, ResetCoreType DEF FlagsOK, DataOK, rot
<1> QED BY <1>2, <1>3, <1>4

(* The rest of an iteration of the serve loop.                             *)
LEMMA ServeType ==
  ASSUME FlagsOK, DataOK, EnterService \/ DrainOne \/ DrainEnds \/ PinReset \/ NoPinReset
  PROVE  FlagsOK' /\ DataOK'
<1>1. CASE EnterService
  BY <1>1 DEF EnterService, FlagsOK, DataOK, core, port, links, rot
<1>2. CASE DrainOne
  <2> DEFINE a == Head(req)
  <2>1. a \in Access /\ Tail(req) \in Seq(Access)
    BY <1>2 DEF DrainOne, DataOK
  <2>2. a.id \in 1..MaxReqs /\ a.op \in Writes \cup Reads
    BY <2>1 DEF Access
  <2>3. /\ IF a.op \in {"halt", "resume", "end"}
           THEN WriteDhcsr(a.op)
           ELSE UNCHANGED <<debug_en, halted, haltCause, bkpt_hit, vcatch_halt>>
        /\ IF a.op \in {"vcOn", "vcOff"} THEN WriteDemcr(a.op) ELSE UNCHANGED vc
        /\ IF a.op \in Reads
           THEN Answer(a)
           ELSE UNCHANGED <<resp, posted, reset_sticky, resetUnread>>
        /\ req' = Tail(req)
        /\ UNCHANGED <<pcAt, reset_pending, sp_reset_release, sp_reset_pint, armed_sp_reset, serve,
                       rot, issued, issuedAtRelease, resets, probes, probed>>
    BY <1>2 DEF DrainOne
  <2> HIDE DEF a
  <2>4. /\ debug_en' \in BOOLEAN /\ halted' \in BOOLEAN /\ bkpt_hit' \in BOOLEAN
        /\ vcatch_halt' \in BOOLEAN /\ haltCause' \in {"none", "request", "bkpt", "vcatch"}
    BY <2>3 DEF WriteDhcsr, FlagsOK, DataOK
  <2>5. vc' \in BOOLEAN
    BY <2>3 DEF WriteDemcr, FlagsOK
  <2>6. /\ resp' \in 0..(MaxReqs + 1) /\ posted' \in 0..MaxReqs
        /\ reset_sticky' \in BOOLEAN /\ resetUnread' \in BOOLEAN
    <3>1. CASE a.op \in Reads
      <4>1. Answer(a)
        BY <2>3, <3>1
      <4>2. resp' \in 0..(MaxReqs + 1) /\ posted' \in 0..MaxReqs
        BY <2>2, <4>1 DEF Answer, DataOK
      <4>3. reset_sticky' \in BOOLEAN /\ resetUnread' \in BOOLEAN
        BY <4>1 DEF Answer, FlagsOK
      <4> QED BY <4>2, <4>3
    <3>2. CASE a.op \notin Reads
      BY <2>3, <3>2 DEF FlagsOK, DataOK
    <3> QED BY <3>1, <3>2
  <2> QED BY <2>1, <2>3, <2>4, <2>5, <2>6 DEF FlagsOK, DataOK, serve, rot
<1>3. CASE DrainEnds
  BY <1>3 DEF DrainEnds, FlagsOK, DataOK, core, port, links, rot, history
<1>4. CASE PinReset
  <2>1. vc \in BOOLEAN /\ debug_en \in BOOLEAN
    BY DEF FlagsOK
  <2>2. iters' \in 0..HaltIters /\ servicing' \in BOOLEAN
    BY <1>4, <2>1, ContinueType DEF PinReset
  <2> QED BY <1>4, <2>2, ResetCoreType DEF PinReset, FlagsOK, DataOK, rot
<1>5. CASE NoPinReset
  <2>1. halted \in BOOLEAN /\ debug_en \in BOOLEAN
    BY DEF FlagsOK
  <2>2. iters' \in 0..HaltIters /\ servicing' \in BOOLEAN
    BY <1>5, <2>1, ContinueType DEF NoPinReset
  <2> QED BY <1>5, <2>2 DEF NoPinReset, FlagsOK, DataOK, core, port, links, rot, history
<1> QED BY <1>1, <1>2, <1>3, <1>4, <1>5

(* The probe session's steps.                                              *)
LEMMA ProbeType ==
  ASSUME FlagsOK, DataOK,
         \/ ProbeAttach \/ ProbeDetach
         \/ \E halt \in {"none", "request", "bkpt"}, r \in BOOLEAN : ProbeRun(halt, r)
         \/ \E catch \in BOOLEAN : ProbeReset(catch)
  PROVE  FlagsOK' /\ DataOK'
<1>1. CASE ProbeAttach
  <2>1. DataOK'
    BY <1>1 DEF ProbeAttach, DataOK, core, port, links, rot
  <2>2. FlagsOK'
    BY <1>1 DEF ProbeAttach, FlagsOK, core, port, links, rot
  <2> QED BY <2>1, <2>2
<1>2. CASE ProbeDetach
  <2>1. DataOK'
    BY <1>2 DEF ProbeDetach, DataOK, port, links, rot
  <2>2. FlagsOK'
    BY <1>2 DEF ProbeDetach, FlagsOK, port, links, rot
  <2> QED BY <2>1, <2>2
<1>3. ASSUME NEW halt \in {"none", "request", "bkpt"}, NEW r \in BOOLEAN, ProbeRun(halt, r)
      PROVE  FlagsOK' /\ DataOK'
  <2>1. resets' \in 0..MaxResets
    BY <1>3 DEF ProbeRun, DataOK
  <2>2. DataOK'
    BY <1>3, <2>1 DEF ProbeRun, DataOK, port, links, serve, rot
  <2>3. FlagsOK'
    BY <1>3 DEF ProbeRun, FlagsOK, port, links, serve, rot
  <2> QED BY <2>2, <2>3
<1>4. ASSUME NEW catch \in BOOLEAN, ProbeReset(catch)
      PROVE  FlagsOK' /\ DataOK'
  <2>1. DataOK'
    BY <1>4 DEF ProbeReset, DataOK, port, links, serve, rot
  <2>2. FlagsOK'
    <3>1. halted' \in BOOLEAN /\ bkpt_hit' \in BOOLEAN /\ resetUnread' \in BOOLEAN
      BY <1>4 DEF ProbeReset
    <3> QED BY <1>4, <3>1 DEF ProbeReset, FlagsOK, port, links, serve, rot
  <2> QED BY <2>1, <2>2
<1> QED BY <1>1, <1>2, <1>3, <1>4

(* The RoT thread's steps.                                                 *)
LEMMA RotType ==
  ASSUME FlagsOK, DataOK, RotStep
  PROVE  FlagsOK' /\ DataOK'
<1>1. ASSUME NEW op \in Reads, RotRead(op) PROVE FlagsOK' /\ DataOK'
  <2>1. Append(req, [op |-> op, id |-> issued + 1]) \in Seq(Access) /\ issued + 1 \in 1..MaxReqs
    BY <1>1, IssueType DEF RotRead
  <2>2. DataOK'
    BY <1>1, <2>1 DEF RotRead, DataOK, core, port, serve
  <2>3. FlagsOK'
    BY <1>1 DEF RotRead, FlagsOK, core, port, serve
  <2> QED BY <2>2, <2>3
<1>2. ASSUME NEW op \in Writes, RotWrite(op) PROVE FlagsOK' /\ DataOK'
  <2>1. Append(req, [op |-> op, id |-> issued + 1]) \in Seq(Access) /\ issued + 1 \in 1..MaxReqs
    BY <1>2, IssueType DEF RotWrite
  <2>2. DataOK'
    BY <1>2, <2>1 DEF RotWrite, DataOK, core, port, serve, rot
  <2>3. FlagsOK'
    BY <1>2 DEF RotWrite, FlagsOK, core, port, serve, rot
  <2> QED BY <2>2, <2>3
<1>3. CASE RotTakeRead
  <2>1. DataOK'
    BY <1>3 DEF RotTakeRead, DataOK, None, core, port, serve, history
  <2>2. FlagsOK'
    BY <1>3 DEF RotTakeRead, FlagsOK, core, port, serve, history
  <2> QED BY <2>1, <2>2
<1>4. CASE RotReleaseReset
  <2>1. DataOK'
    BY <1>4 DEF RotReleaseReset, DataOK, core, port, serve, rot
  <2>2. FlagsOK'
    BY <1>4 DEF RotReleaseReset, FlagsOK, core, port, serve, rot
  <2> QED BY <2>1, <2>2
<1>5. CASE RotArms
  <2>1. DataOK'
    BY <1>5 DEF RotArms, DataOK, core, port, links, serve, history
  <2>2. FlagsOK'
    BY <1>5 DEF RotArms, FlagsOK, core, port, links, serve, history
  <2> QED BY <2>1, <2>2
<1>6. CASE RotTop
  <2>1. DataOK'
    BY <1>6 DEF RotTop, DataOK, core, port, serve, rot, history
  <2>2. FlagsOK'
    <3>1. sp_reset_pint' \in BOOLEAN /\ armed_sp_reset' \in BOOLEAN
      BY <1>6 DEF RotTop, FlagsOK
    <3>2. UNCHANGED <<core, port, req, resp, sp_reset_release, serve, rot, history>>
      BY <1>6 DEF RotTop
    <3> QED BY <3>1, <3>2 DEF FlagsOK, core, port, serve, rot, history
  <2> QED BY <2>1, <2>2
<1> QED BY <1>1, <1>2, <1>3, <1>4, <1>5, <1>6 DEF RotStep

(* Every step keeps every variable's type.                                 *)
LEMMA NextType == TypeOK /\ [Next]_vars => TypeOK'
<1> SUFFICES ASSUME FlagsOK, DataOK, [Next]_vars PROVE FlagsOK' /\ DataOK'
  BY TypeParts
<1>1. CASE UNCHANGED vars
  BY <1>1 DEF vars, core, port, links, serve, rot, history, FlagsOK, DataOK
<1> QED
  BY <1>1, BurstType, ServeType, ProbeType, RotType DEF Next, ServeStep

-----------------------------------------------------------------------------
(* The core's flags.                                                       *)

(* No step of the RoT thread reaches into the SP core, its debug port or   *)
(* the serve loop: SWD accesses are queued, pins are latched.              *)
LEMMA RotFrame ==
  ASSUME RotStep \/ UNCHANGED vars
  PROVE  UNCHANGED <<core, port, serve, haltCause, resetUnread, probed>>
<1>1. CASE RotTop
  <2>1. UNCHANGED <<core, port, serve, history>>
    BY <1>1 DEF RotTop
  <2> QED BY <2>1 DEF history
<1>2. CASE ~RotTop
  BY <1>2 DEF RotStep, RotRead, RotWrite, RotTakeRead, RotReleaseReset, RotArms, history, vars
<1> QED BY <1>1, <1>2

(* A BKPT is reported until whatever ends that halt: each of these clears  *)
(* the report with it.                                                     *)
LEMMA BkptStep ==
  ASSUME TypeOK, BkptInv, [Next]_vars
  PROVE  BkptInv'
<1> USE DEF BkptInv
<1>1. CASE UNCHANGED <<bkpt_hit, halted, haltCause>>
  BY <1>1
<1>2. ASSUME NEW p \in BOOLEAN, ResetCore(p) PROVE BkptInv'
  BY <1>2 DEF ResetCore
<1>3. CASE BurstPlain
  BY <1>3 DEF BurstPlain
<1>4. CASE BurstBkpt
  BY <1>4 DEF BurstBkpt
<1>5. CASE DrainOne
  <2>1. CASE Head(req).op \in {"halt", "resume", "end"}
    BY <1>5, <2>1 DEF DrainOne, WriteDhcsr
  <2>2. CASE Head(req).op \notin {"halt", "resume", "end"}
    BY <1>1, <1>5, <2>2 DEF DrainOne
  <2> QED BY <2>1, <2>2
<1>6. CASE \E halt \in {"none", "request", "bkpt"}, r \in BOOLEAN : ProbeRun(halt, r)
  BY <1>6 DEF ProbeRun
<1>7. CASE ProbeDetach \/ \E catch \in BOOLEAN : ProbeReset(catch)
  BY <1>7 DEF ProbeDetach, ProbeReset
<1>8. CASE EnterService \/ DrainEnds \/ NoPinReset \/ ProbeAttach
  BY <1>1, <1>8 DEF EnterService, DrainEnds, NoPinReset, ProbeAttach, core, history
<1>9. CASE BurstReset \/ PinReset
  BY <1>2, <1>9 DEF BurstReset, PinReset
<1>10. CASE RotStep \/ UNCHANGED vars
  BY <1>1, <1>10, RotFrame DEF core
<1> QED
  BY <1>3, <1>4, <1>5, <1>6, <1>7, <1>8, <1>9, <1>10 DEF Next, ServeStep

(* A reset edge is posted with the core at its vector and looked at before *)
(* the core runs again; a probe session is entered as one.                 *)
LEMMA EdgeStep ==
  ASSUME TypeOK, EdgeInv, [Next]_vars
  PROVE  EdgeInv'
<1> USE DEF EdgeInv
<1>1. CASE BurstPlain \/ BurstBkpt
  BY <1>1 DEF BurstPlain, BurstBkpt, PostEdge
<1>2. CASE BurstReset
  BY <1>2 DEF BurstReset, ResetCore, PostEdge
<1>3. CASE EnterService \/ DrainEnds \/ PinReset \/ NoPinReset \/ ProbeDetach \/ ProbeAttach
  BY <1>3 DEF EnterService, DrainEnds, PinReset, NoPinReset, ProbeDetach, ProbeAttach
<1>4. CASE DrainOne
  BY <1>4 DEF DrainOne, serve
<1>5. CASE \E halt \in {"none", "request", "bkpt"}, r \in BOOLEAN : ProbeRun(halt, r)
  BY <1>5 DEF ProbeRun, serve
<1>6. CASE \E catch \in BOOLEAN : ProbeReset(catch)
  BY <1>6 DEF ProbeReset, serve
<1>7. CASE RotStep \/ UNCHANGED vars
  BY <1>7, RotFrame DEF core, serve
<1> QED
  BY <1>1, <1>2, <1>3, <1>4, <1>5, <1>6, <1>7 DEF Next, ServeStep

(* Servicing starts only from a reset edge, and a serviced core does not   *)
(* run.                                                                    *)
LEMMA FrozenStep ==
  ASSUME TypeOK, EdgeInv, FrozenAtVector, [Next]_vars
  PROVE  FrozenAtVector'
<1> USE DEF FrozenAtVector
<1>0. FlagsOK /\ DataOK
  BY TypeParts
<1>1. CASE BurstPlain
  BY <1>1 DEF BurstPlain, Frozen, PostEdge
<1>2. CASE BurstBkpt
  BY <1>2 DEF BurstBkpt, Frozen, PostEdge
<1>3. CASE BurstReset \/ PinReset
  BY <1>3 DEF BurstReset, PinReset, ResetCore
<1>4. CASE EnterService
  BY <1>4 DEF EnterService, EdgeInv, core
<1>5. CASE DrainOne
  BY <1>5 DEF DrainOne, serve
<1>6. CASE NoPinReset
  <2>1. halted \in BOOLEAN /\ debug_en \in BOOLEAN
    BY <1>0 DEF FlagsOK
  <2>2. servicing' => servicing
    BY <1>0, <1>6, <2>1, ContinueType DEF NoPinReset
  <2> QED BY <1>6, <2>2 DEF NoPinReset, core, history
<1>7. CASE \E halt \in {"none", "request", "bkpt"}, r \in BOOLEAN : ProbeRun(halt, r)
  BY <1>7 DEF ProbeRun, EdgeInv
<1>8. CASE \E catch \in BOOLEAN : ProbeReset(catch)
  BY <1>8 DEF ProbeReset
<1>9. CASE DrainEnds \/ ProbeDetach \/ ProbeAttach
  BY <1>9 DEF DrainEnds, ProbeDetach, ProbeAttach, core, history
<1>10. CASE RotStep \/ UNCHANGED vars
  BY <1>10, RotFrame DEF core, serve
<1> QED
  BY <1>1, <1>2, <1>3, <1>4, <1>5, <1>6, <1>7, <1>8, <1>9, <1>10 DEF Next, ServeStep

(* The sticky flag is set by resets alone and cleared by the read that     *)
(* reports it.                                                             *)
LEMMA StickyStep ==
  ASSUME TypeOK, NoPhantomReset, [Next]_vars
  PROVE  NoPhantomReset'
<1> USE DEF NoPhantomReset
<1>1. CASE UNCHANGED <<reset_sticky, resetUnread>>
  BY <1>1
<1>2. CASE BurstReset \/ PinReset
  BY <1>2 DEF BurstReset, PinReset, ResetCore
<1>3. CASE DrainOne
  <2>1. CASE Head(req).op \in Reads
    BY <1>3, <2>1 DEF DrainOne, Answer
  <2>2. CASE Head(req).op \notin Reads
    BY <1>1, <1>3, <2>2 DEF DrainOne
  <2> QED BY <2>1, <2>2
<1>4. CASE BurstPlain \/ BurstBkpt \/ EnterService \/ DrainEnds \/ NoPinReset
  BY <1>1, <1>4 DEF BurstPlain, BurstBkpt, EnterService, DrainEnds, NoPinReset, port, history
<1>5. CASE \/ ProbeAttach \/ ProbeDetach
           \/ \E halt \in {"none", "request", "bkpt"}, r \in BOOLEAN : ProbeRun(halt, r)
  BY <1>1, <1>5 DEF ProbeAttach, ProbeDetach, ProbeRun, port
<1>6. CASE \E catch \in BOOLEAN : ProbeReset(catch)
  BY <1>6 DEF ProbeReset
<1>7. CASE RotStep \/ UNCHANGED vars
  BY <1>1, <1>7, RotFrame DEF port
<1> QED
  BY <1>2, <1>3, <1>4, <1>5, <1>6, <1>7 DEF Next, ServeStep

-----------------------------------------------------------------------------
(* The SWD queue.                                                          *)

(* Steps that leave the queue and the latch alone keep the invariant.      *)
LEMMA QueueFrame ==
  ASSUME QueueInv, UNCHANGED <<phase, resp, req, lastAp, posted>>
  PROVE  QueueInv'
  BY DEF QueueInv, ReadQueued, Latched

(* The RoT issues an access: it is Idle, so the queue holds writes only.   *)
LEMMA QueueIssue ==
  ASSUME TypeOK, QueueInv, (\E op \in Reads : RotRead(op)) \/ (\E op \in Writes : RotWrite(op))
  PROVE  QueueInv'
<1>0. FlagsOK /\ DataOK
  BY TypeParts
<1>1. req \in Seq(Access) /\ Len(req) \in Nat /\ issued \in Nat /\ issued + 1 # 0
  BY <1>0 DEF DataOK
<1>2. ASSUME phase = "Idle"
      PROVE  resp = None /\ Latched /\ \A i \in 1..Len(req) : req[i].op \in Writes
  BY <1>2 DEF QueueInv, ReadQueued
<1>3. ASSUME NEW op \in Reads, RotRead(op) PROVE QueueInv'
  <2> DEFINE a == [op |-> op, id |-> issued + 1]
  <2>1. phase = "Idle" /\ req' = Append(req, a) /\ phase' = "ReadData" /\ issued < MaxReqs
        /\ lastAp' = (IF op = "RDBUFF" THEN lastAp ELSE issued + 1)
        /\ UNCHANGED <<resp, posted>>
    BY <1>3 DEF RotRead, port
  <2>2. a \in Access /\ a.op = op /\ a.id = issued + 1
    BY <1>0, <2>1, IssueType
  <2> HIDE DEF a
  <2>3. Len(req') = Len(req) + 1 /\ req'[Len(req')] = a
        /\ \A i \in 1..Len(req) : req'[i] = req[i]
    BY <1>1, <2>1, <2>2
  <2>4. ReadQueued'
    BY <1>2, <2>1 DEF ReadQueued
  <2>5. \A i \in 1..(Len(req') - 1) : req'[i].op \in Writes
    BY <1>1, <1>2, <2>1, <2>3
  <2>6. Len(req') > 0 /\ req'[Len(req')].op \in Reads
    BY <1>1, <1>3, <2>2, <2>3
  <2>7. IF req'[Len(req')].op = "RDBUFF" THEN Latched' ELSE lastAp' = req'[Len(req')].id
    BY <1>2, <2>1, <2>2, <2>3 DEF Latched
  <2> QED BY <2>1, <2>4, <2>5, <2>6, <2>7 DEF QueueInv
<1>4. ASSUME NEW op \in Writes, RotWrite(op) PROVE QueueInv'
  <2> DEFINE a == [op |-> op, id |-> issued + 1]
  <2>1. phase = "Idle" /\ req' = Append(req, a) /\ issued < MaxReqs
        /\ UNCHANGED <<phase, lastAp, resp, posted>>
    BY <1>4 DEF RotWrite, port, rot
  <2>2. a \in Access /\ a.op = op
    BY <1>0, <2>1, IssueType
  <2> HIDE DEF a
  <2>3. Len(req') = Len(req) + 1 /\ req'[Len(req')] = a
        /\ \A i \in 1..Len(req) : req'[i] = req[i]
    BY <1>1, <2>1, <2>2
  <2>4. \A i \in 1..Len(req') : req'[i].op \in Writes
    BY <1>1, <1>2, <1>4, <2>1, <2>2, <2>3
  <2>5. ~ReadQueued' /\ Latched'
    BY <1>2, <2>1 DEF ReadQueued, Latched
  <2> QED BY <1>2, <2>1, <2>4, <2>5 DEF QueueInv
<1> QED BY <1>3, <1>4

(* The SP pops an access.  A write leaves what is behind it; a read is the *)
(* last of the queue, and its answer is what the RoT waits for.            *)
LEMMA QueueDrain ==
  ASSUME TypeOK, QueueInv, DrainOne
  PROVE  QueueInv'
<1>0. FlagsOK /\ DataOK
  BY TypeParts
<1> DEFINE a == Head(req)
<1>1. /\ req \in Seq(Access) /\ req # <<>> /\ Len(req) \in Nat /\ Len(req) > 0
      /\ a = req[1] /\ a \in Access /\ req' = Tail(req)
      /\ UNCHANGED <<phase, lastAp>>
  BY <1>0 DEF DataOK, DrainOne, rot
<1>2. Len(req') = Len(req) - 1 /\ \A i \in 1..Len(req') : req'[i] = req[i + 1]
  BY <1>1
<1>3. a.id \in 1..MaxReqs /\ a.op \in Writes \cup Reads /\ posted \in 0..MaxReqs
  BY <1>0, <1>1 DEF Access, DataOK
<1>4. Reads \cap Writes = {}
  BY DEF Reads, Writes
<1>5. CASE a.op \in Writes
  <2>1. UNCHANGED <<resp, posted>>
    BY <1>4, <1>5 DEF DrainOne
  <2>2. CASE ReadQueued
    <3>1. Len(req) > 1
      BY <1>1, <1>4, <1>5, <2>2 DEF QueueInv
    <3>2. Len(req') > 0 /\ req'[Len(req')] = req[Len(req)]
      BY <1>1, <1>2, <3>1
    <3>3. \A i \in 1..(Len(req') - 1) : req'[i].op \in Writes
      BY <1>1, <1>2, <2>2, <3>1 DEF QueueInv
    <3>4. ReadQueued' /\ (Latched => Latched')
      BY <1>1, <2>1, <2>2 DEF ReadQueued, Latched
    <3> QED BY <1>1, <2>1, <2>2, <3>2, <3>3, <3>4 DEF QueueInv
  <2>3. CASE ~ReadQueued
    <3>1. \A i \in 1..Len(req') : req'[i].op \in Writes
      BY <1>1, <1>2, <2>3 DEF QueueInv
    <3>2. ~ReadQueued' /\ (Latched => Latched')
      BY <1>1, <2>1, <2>3 DEF ReadQueued, Latched
    <3> QED BY <1>1, <2>1, <2>3, <3>1, <3>2 DEF QueueInv
  <2> QED BY <2>2, <2>3
<1>6. CASE a.op \in Reads
  <2>1. ReadQueued /\ phase = "ReadData"
    BY <1>1, <1>4, <1>6 DEF QueueInv, ReadQueued
  <2>2. Len(req) = 1
    <3>1. \A i \in 1..(Len(req) - 1) : req[i].op \in Writes
      BY <2>1 DEF QueueInv
    <3>2. Len(req) # 1 => 1 \in 1..(Len(req) - 1)
      <4> DEFINE n == Len(req)
      <4>1. n \in Nat /\ n > 0
        BY <1>1
      <4> HIDE DEF n
      <4>2. n # 1 => 1 \in 1..(n - 1)
        BY <4>1
      <4> QED BY <4>2 DEF n
    <3>3. req[1].op \notin Writes
      BY <1>1, <1>4, <1>6
    <3> QED BY <3>1, <3>2, <3>3
  <2>3. Answer(a)
    BY <1>6 DEF DrainOne
  <2>4. resp' # None /\ (posted' = IF a.op = "RDBUFF" THEN posted ELSE a.id)
    BY <1>3, <2>3 DEF Answer, None
  <2>5. Latched'
    BY <1>1, <2>1, <2>2, <2>4 DEF QueueInv, Latched
  <2>6. ~ReadQueued' /\ Len(req') = 0
    BY <1>1, <1>2, <2>2, <2>4 DEF ReadQueued
  <2> QED BY <1>1, <2>1, <2>5, <2>6 DEF QueueInv
<1> QED BY <1>3, <1>5, <1>6

(* Every step keeps the order of the queue and the meaning of the latch.   *)
LEMMA QueueStep ==
  ASSUME TypeOK, QueueInv, [Next]_vars
  PROVE  QueueInv'
<1>1. CASE DrainOne
  BY <1>1, QueueDrain
<1>2. CASE (\E op \in Reads : RotRead(op)) \/ (\E op \in Writes : RotWrite(op))
  BY <1>2, QueueIssue
<1>3. CASE RotTakeRead
  <2>1. /\ phase = "ReadData" /\ resp # None /\ phase' = "Idle" /\ resp' = None
        /\ UNCHANGED <<req, lastAp, posted>>
    BY <1>3 DEF RotTakeRead, port
  <2> QED BY <2>1 DEF QueueInv, ReadQueued, Latched
<1>4. CASE BurstPlain \/ BurstBkpt \/ BurstReset \/ PinReset
  BY <1>4, QueueFrame DEF BurstPlain, BurstBkpt, BurstReset, PinReset, PostEdge, ResetCore, port, rot
<1>5. CASE EnterService \/ DrainEnds \/ NoPinReset
  BY <1>5, QueueFrame DEF EnterService, DrainEnds, NoPinReset, port, links, rot
<1>6. CASE \/ ProbeAttach \/ ProbeDetach
           \/ \E halt \in {"none", "request", "bkpt"}, r \in BOOLEAN : ProbeRun(halt, r)
           \/ \E catch \in BOOLEAN : ProbeReset(catch)
  BY <1>6, QueueFrame DEF ProbeAttach, ProbeDetach, ProbeRun, ProbeReset, port, links, rot
<1>7. CASE RotReleaseReset \/ RotArms
  BY <1>7, QueueFrame DEF RotReleaseReset, RotArms, port, links, rot
<1>8. CASE RotTop
  <2>1. UNCHANGED <<port, req, resp, rot>>
    BY <1>8 DEF RotTop
  <2> QED BY <2>1, QueueFrame DEF port, rot
<1>9. CASE UNCHANGED vars
  BY <1>9, QueueFrame DEF vars, port, links, rot
<1> QED
  BY <1>1, <1>2, <1>3, <1>4, <1>5, <1>6, <1>7, <1>8, <1>9 DEF Next, ServeStep, RotStep

-----------------------------------------------------------------------------
(* The serve loop starts with a running core and an empty queue.           *)
LEMMA InitIInv == Init => IInv
<1> SUFFICES ASSUME Init PROVE IInv
  OBVIOUS
<1>1. FlagsOK
  BY DEF Init, FlagsOK
<1>2. DataOK
  BY DEF Init, DataOK, None
<1>3. BkptInv /\ EdgeInv /\ FrozenAtVector /\ NoPhantomReset
  BY DEF Init, BkptInv, EdgeInv, FrozenAtVector, NoPhantomReset
<1>4. Len(req) = 0 /\ ~ReadQueued /\ Latched /\ resp = None
  BY DEF Init, ReadQueued, Latched
<1>5. QueueInv
  BY <1>4 DEF QueueInv
<1> QED BY <1>1, <1>2, <1>3, <1>5, TypeParts DEF IInv

(* The inductive invariant holds of every behaviour.                       *)
THEOREM Invariance == Spec => []IInv
<1>1. IInv /\ [Next]_vars => IInv'
  BY NextType, BkptStep, EdgeStep, FrozenStep, StickyStep, QueueStep DEF IInv
<1> QED BY <1>1, InitIInv, PTL DEF Spec

(* The core, its debug port, the queue and the serve loop keep their types *)
(* and the backstop stays within SP_RESET_HALT_ITERS.                      *)
THEOREM TypeCorrect == Spec => []TypeOK
<1>1. IInv => TypeOK
  BY DEF IInv
<1> QED BY <1>1, Invariance, PTL

(* A DFSR that reports BKPT reports the halt the core is in now, across    *)
(* resets, resumes and probe sessions.                                     *)
THEOREM BkptCurrent == Spec => []BkptReportIsCurrent
<1>1. IInv => BkptReportIsCurrent
  <2> SUFFICES ASSUME IInv, DfsrValue = "BKPT" PROVE halted /\ haltCause = "bkpt"
    BY DEF BkptReportIsCurrent
  <2>1. bkpt_hit \in BOOLEAN /\ vcatch_halt \in BOOLEAN /\ halted \in BOOLEAN
    BY TypeParts DEF IInv, FlagsOK
  <2>2. bkpt_hit
    BY <2>1 DEF DfsrValue
  <2> QED BY <2>2 DEF IInv, BkptInv
<1> QED BY <1>1, Invariance, PTL

(* Held for the RoT, the SP has executed nothing since its reset unless a  *)
(* probe drove it.                                                         *)
THEOREM HeldAtVector == Spec => []FrozenAtVector
<1>1. IInv => FrozenAtVector
  BY DEF IInv
<1> QED BY <1>1, Invariance, PTL

(* S_RESET_ST reports only resets that happened since DHCSR was read.      *)
THEOREM StickyTruthful == Spec => []NoPhantomReset
<1>1. IInv => NoPhantomReset
  BY DEF IInv
<1> QED BY <1>1, Invariance, PTL

(* RDBUFF returns the RoT's last AP read, however many writes and resets   *)
(* were queued and drained in between.                                     *)
THEOREM RdbuffCorrect == Spec => []RdbuffReturnsLastRead
<1>1. IInv => RdbuffReturnsLastRead
  BY DEF IInv, QueueInv, ReadQueued, Latched, RdbuffReturnsLastRead
<1> QED BY <1>1, Invariance, PTL
=============================================================================
