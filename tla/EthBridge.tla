------------------------------ MODULE EthBridge -------------------------------
(***************************************************************************)
(* The management network: MGS clients send requests to the host sockets   *)
(* of the bridge (src/src/bridge.rs), one socket per VLAN; pump_eth hands  *)
(* them to the SP through the Ethernet DMA's descriptor rings              *)
(* (src/src/mem.rs), and the SP's net task, woken by interrupt 61, answers *)
(* through the same path.  The net task and the clients are external.      *)
(*                                                                         *)
(* A frame is [flow, kind, vid, id]; flow is the client's port, 0 for the  *)
(* frames the bridge makes itself.  Of the SP's own frames, "ns" stands    *)
(* for those the bridge answers (neighbor solicitation, echo request) and  *)
(* "beacon" for those it absorbs.  Reset is an SP reset.                   *)
(***************************************************************************)
EXTENDS Integers, Sequences, FiniteSets, Bags, SequencesExt

CONSTANTS
  Flows,        \* the clients' ports, positive numbers
  Vids,         \* the VLANs (switch views)
  View,         \* the VLAN each client talks to
  RingLen,      \* descriptors of a ring
  BacklogCap,   \* RX_BACKLOG_CAP
  Quota,        \* bound: requests of each client
  MaxPings,     \* bound: echo requests and solicitations of the SP
  MaxSpResets   \* bound: SP resets

ASSUME EthAssumption ==
  /\ Flows \subseteq Nat \ {0} /\ IsFiniteSet(Flows) /\ RingLen \in Nat \ {0} /\ BacklogCap \in Nat \ {0}
  /\ Quota \in [Flows -> Nat] /\ 0 \notin Vids /\ View \in [Flows -> Vids] /\ {MaxPings, MaxSpResets} \subseteq Nat

Slots == 0..RingLen - 1

VARIABLES
  bridge,  \* learned VLANs, the last peer heard on each, frames queued for the SP
  eth,     \* the DMA: RX ring, position, interrupt, TX ring
  net,     \* the net task: ring positions, interrupt state, answers to send
  mgs      \* the clients: requests sent, host sockets, answers, what was dropped

ethVars == <<bridge, eth, net, mgs>>

Frame(flow, kind, vid, id) == [flow |-> flow, kind |-> kind, vid |-> vid, id |-> id]
Control(vid) == Frame(0, "control", vid, 0)     \* an advertisement or an echo reply
NoFrame == Frame(0, "none", 0, 0)
Empty == [own |-> TRUE, frame |-> NoFrame]
Taken == [own |-> FALSE, frame |-> NoFrame]

-----------------------------------------------------------------------------
(* Bridge: the queue toward the SP                                         *)

At(q, flow) == {i \in 1..Len(q) : q[i].flow = flow}
Load(q, flow) == Cardinality(At(q, flow))
Oldest(q, flow) == Min(At(q, flow))
Without(q, flow) == RemoveAt(q, Oldest(q, flow))

(* The busiest client loses its oldest frame; between equals the hash map  *)
(* decides.  A queue of control frames only loses its oldest.              *)
Busiest(q) == {f \in Flows : Load(q, f) > 0 /\ \A g \in Flows : Load(q, g) <= Load(q, f)}

Victims_Oldest(q) == {Head(q).flow}

Victims(q) == IF Busiest(q) # {} THEN Busiest(q) ELSE {0}

(* b: the bridge and what it evicted, with the loads at that moment.       *)
Evict(b, q, v) ==
  [b EXCEPT !.rx = Without(q, v),
            !.evicted = @ \cup {[frame |-> q[Oldest(q, v)], load |-> Load(q, v), control |-> Load(q, 0)]}]

PushRx(b, f) ==
  LET q == Append(b.rx, f)
  IN  IF Len(q) <= BacklogCap THEN {[b EXCEPT !.rx = q]} ELSE {Evict(b, q, v) : v \in Victims(q)}

PopRx_Newest(b) == [frame |-> Last(b.rx), rest |-> Front(b.rx)]

(* eth_rx: control frames first, then the oldest.                          *)
NextFlow(q) == IF Load(q, 0) > 0 THEN 0 ELSE Head(q).flow

PopRx(b) == [frame |-> b.rx[Oldest(b.rx, NextFlow(b.rx))], rest |-> Without(b.rx, NextFlow(b.rx))]

-----------------------------------------------------------------------------
(* SP to host: handle_tx                                                   *)

(* The first frame on a VLAN teaches the SP's address there and is greeted *)
(* with a neighbor advertisement.                                          *)
Learn(b, vid) ==
  IF vid \in b.learned THEN {b}
  ELSE PushRx([b EXCEPT !.learned = @ \cup {vid}], Control(vid))

(* s: the bridge, the answers sent and the frames lost.  A reply leaves by *)
(* the socket of its VLAN, to the port it is addressed to, once some       *)
(* client was heard there; the send may fail.                              *)
SendTo(s, f) == {[s EXCEPT !.answers = @ (+) SetToBag({f})], [s EXCEPT !.unsent = @ \cup {f}]}

HandleUdpTx_LastPeer(s, f) ==
  IF s.b.peers[f.vid] = 0 THEN {s} ELSE SendTo(s, [f EXCEPT !.flow = s.b.peers[f.vid]])

HandleUdpTx(s, f) == IF s.b.peers[f.vid] = 0 THEN {s} ELSE SendTo(s, f)

Forward(s, f) ==
  CASE f.kind = "reply" -> HandleUdpTx(s, f)
    [] f.kind = "ns" -> {[s EXCEPT !.b = c] : c \in PushRx(s.b, Control(f.vid))}
    [] OTHER -> {s}

HandleTx(s, f) == UNION {Forward([s EXCEPT !.b = b], f) : b \in Learn(s.b, f.vid)}

(* Host to SP: poll_host, for one datagram.                                *)
HandleHost(s, f) ==
  LET b == [s.b EXCEPT !.peers = [s.b.peers EXCEPT ![f.vid] = f.flow]]
  IN  IF f.vid \notin b.learned THEN {[s EXCEPT !.b = b, !.unsent = @ \cup {f}]}
      ELSE {[s EXCEPT !.b = c] : c \in PushRx(b, f)}

Upto(n) == [i \in 1..n |-> i]

(* F over a queue of frames, from any of the states S.                     *)
Through(F(_, _), S, q) ==
  LET R[i \in 0..Len(q)] == IF i = 0 THEN S ELSE UNION {F(s, q[i]) : s \in R[i - 1]}
  IN  R[Len(q)]

-----------------------------------------------------------------------------
(* The DMA                                                                 *)

HasSpace(e) == e.ready /\ e.ring[e.rx_next].own

Fill(e, f, next, irq) ==
  [e EXCEPT !.ring = [e.ring EXCEPT ![e.rx_next] = [own |-> FALSE, frame |-> f]], !.rx_next = next, !.irq = irq]

Inject_NoWrap(e, f) == Fill(e, f, IF e.rx_next + 1 \in Slots THEN e.rx_next + 1 ELSE e.rx_next, TRUE)
Inject_Silent(e, f) == Fill(e, f, (e.rx_next + 1) % RingLen, e.irq)

Inject(e, f) == Fill(e, f, (e.rx_next + 1) % RingLen, TRUE)

(* Frames are delivered while the ring has room: p is bridge and DMA.      *)
DeliverOne(p, n) ==
  IF ~HasSpace(p.e) \/ p.b.rx = <<>> THEN {p}
  ELSE {[b |-> [p.b EXCEPT !.rx = x.rest], e |-> Inject(p.e, x.frame)] : x \in {PopRx(p.b)}}

(* The TX ring, two descriptors a slot: the VLAN's context, then the       *)
(* packet.  The walk takes every descriptor it owns, in ring order, and    *)
(* tags a packet with the last context it met.                             *)
TakeContext(e, i, vid) == [e EXCEPT !.tx = [e.tx EXCEPT ![i] = Taken], !.pending_vid = {vid}]

TakePacket(e, i, f) ==
  [e EXCEPT !.tx = [e.tx EXCEPT ![i] = Taken], !.pending_vid = {}, !.irq = TRUE, !.tx_frames = Append(@, f)]

TxDescriptor(e, i) ==
  LET d == e.tx[i]
      vids == IF e.pending_vid = {} THEN {0} ELSE e.pending_vid
  IN  CASE ~d.own -> {e}
        [] d.own /\ d.frame.kind = "context" -> {TakeContext(e, i, d.frame.vid)}
        [] OTHER -> {TakePacket(e, i, [d.frame EXCEPT !.vid = vid]) : vid \in vids}

TxWalk(e) == Through(TxDescriptor, {e}, [i \in 1..2 * RingLen |-> i - 1])

-----------------------------------------------------------------------------
(* The serve loop                                                          *)

(* pump_eth: forward what the SP sent, read the sockets once, deliver.     *)
Pump ==
  LET s0 == [b |-> bridge, answers |-> EmptyBag, unsent |-> {}]
  IN  \E s1 \in Through(HandleTx, {s0}, eth.tx_frames) :
      \E s2 \in Through(HandleHost, {s1}, mgs.sockets) :
      \E p \in Through(DeliverOne, {[b |-> s2.b, e |-> [eth EXCEPT !.tx_frames = <<>>]]}, Upto(RingLen)) :
        /\ bridge' = p.b /\ eth' = p.e
        /\ mgs' = [mgs EXCEPT !.sockets = <<>>, !.unsent = mgs.unsent \cup s2.unsent, !.got = mgs.got (+) s2.answers]
        /\ UNCHANGED net

-----------------------------------------------------------------------------
(* The net task                                                            *)

(* Interrupt 61: the kernel posts a notification and masks the interrupt.  *)
EthIrq ==
  /\ net.up /\ eth.irq /\ net.irq_en
  /\ eth' = [eth EXCEPT !.irq = FALSE]
  /\ net' = [net EXCEPT !.irq_en = FALSE, !.note = TRUE]
  /\ UNCHANGED <<bridge, mgs>>

OnInterrupt ==
  /\ net.up /\ net.note
  /\ net' = [net EXCEPT !.note = FALSE, !.irq_en = TRUE, !.awake = TRUE]
  /\ UNCHANGED <<bridge, eth, mgs>>

(* A frame is taken and its descriptor given back.                         *)
Receive ==
  LET d == eth.ring[net.next]
      f == d.frame
      next == (net.next + 1) % RingLen
  IN  /\ net.up /\ net.awake /\ ~d.own
      /\ eth' = [eth EXCEPT !.ring = [eth.ring EXCEPT ![net.next] = Empty]]
      /\ net' = IF f.kind # "request" THEN [net EXCEPT !.next = next]
                ELSE [net EXCEPT !.next = next,
                                 !.out = Append(net.out, [f EXCEPT !.kind = "reply"]),
                                 !.last = [net.last EXCEPT ![f.flow] = f.id],
                                 !.late = net.late \/ f.id <= net.last[f.flow]]
      /\ UNCHANGED <<bridge, mgs>>

Sleep ==
  /\ net.up /\ net.awake /\ eth.ring[net.next].own
  /\ net' = [net EXCEPT !.awake = FALSE]
  /\ UNCHANGED <<bridge, eth, mgs>>

(* A slot is filled and the tail pointer written, which starts the walk.   *)
Posted(e, t, f) ==
  [e EXCEPT !.tx = [e.tx EXCEPT ![2 * t] = [own |-> TRUE, frame |-> Frame(0, "context", f.vid, 0)],
                                ![2 * t + 1] = [own |-> TRUE, frame |-> [f EXCEPT !.vid = 0]]]]

Transmit(f) ==
  LET t == net.txnext
  IN  /\ net.up /\ ~eth.tx[2 * t].own /\ ~eth.tx[2 * t + 1].own
      /\ eth' \in TxWalk(Posted(eth, t, f))
      /\ net' = [net EXCEPT !.txnext = (t + 1) % RingLen,
                            !.out = IF f.kind = "reply" THEN Tail(net.out) ELSE net.out,
                            !.pings = IF f.kind = "reply" THEN net.pings ELSE net.pings + 1]
      /\ UNCHANGED <<bridge, mgs>>

SendReply == net.out # <<>> /\ Transmit(Head(net.out))

SendOwn(kind, vid) == net.pings < MaxPings /\ Transmit(Frame(0, kind, vid, 0))

FreshTx == [i \in 0..2 * RingLen - 1 |-> Taken]

(* Initialisation of the rings by the driver.                              *)
NetStart ==
  /\ ~net.up
  /\ eth' = [eth EXCEPT !.ready = TRUE, !.ring = [i \in Slots |-> Empty], !.tx = FreshTx]
  /\ net' = [net EXCEPT !.up = TRUE, !.next = 0, !.txnext = 0, !.irq_en = TRUE, !.note = FALSE,
                        !.awake = TRUE, !.out = <<>>]
  /\ UNCHANGED <<bridge, mgs>>

(* Request f is with the SP: in the ring or in the task.                   *)
WithSp == {eth.ring[i].frame : i \in {j \in Slots : ~eth.ring[j].own}}
          \cup {[net.out[i] EXCEPT !.kind = "request"] : i \in 1..Len(net.out)}

(* An SP reset.  The interrupt controller is cleared, the DMA is not.      *)
Reset ==
  /\ net.up /\ net.resets < MaxSpResets
  /\ net' = [net EXCEPT !.up = FALSE, !.resets = @ + 1, !.irq_en = FALSE, !.note = FALSE]
  /\ mgs' = [mgs EXCEPT !.unsent = @ \cup WithSp]
  /\ UNCHANGED <<bridge, eth>>

-----------------------------------------------------------------------------
(* The clients                                                             *)

Request(f) ==
  /\ Len(mgs.sent[f]) < Quota[f]
  /\ LET r == Frame(f, "request", View[f], Len(mgs.sent[f]) + 1)
     IN  mgs' = [mgs EXCEPT !.sent = [mgs.sent EXCEPT ![f] = Append(mgs.sent[f], r)],
                            !.sockets = Append(mgs.sockets, r)]
  /\ UNCHANGED <<bridge, eth, net>>

EthInit ==
  /\ bridge = [learned |-> {}, peers |-> [v \in Vids |-> 0], rx |-> <<>>, evicted |-> {}]
  /\ eth = [ready |-> FALSE, ring |-> [i \in Slots |-> Taken], rx_next |-> 0,
            irq |-> FALSE, tx |-> FreshTx, tx_frames |-> <<>>, pending_vid |-> {}]
  /\ net = [up |-> FALSE, next |-> 0, txnext |-> 0, irq_en |-> FALSE, note |-> FALSE, awake |-> FALSE,
            out |-> <<>>, last |-> [f \in Flows |-> 0], late |-> FALSE, pings |-> 0, resets |-> 0]
  /\ mgs = [sent |-> [f \in Flows |-> <<>>], sockets |-> <<>>, got |-> EmptyBag, unsent |-> {}]

EthNext ==
  \/ Pump \/ EthIrq \/ OnInterrupt \/ Receive \/ Sleep \/ SendReply \/ NetStart
  \/ \E kind \in {"ns", "beacon"}, vid \in Vids : SendOwn(kind, vid)
  \/ \E f \in Flows : Request(f)

(* The serve loop pumps between bursts and the core executes: the task     *)
(* runs until it has nothing to do.                                        *)
SpRuns == EthIrq \/ OnInterrupt \/ Receive \/ SendReply \/ NetStart

EthFairness ==
  WF_ethVars(Pump) /\ WF_ethVars(SpRuns)

EthSpec == EthInit /\ [][EthNext]_ethVars /\ EthFairness

EthResetSpec == EthInit /\ [][EthNext \/ Reset]_ethVars /\ EthFairness

-----------------------------------------------------------------------------
(* Properties                                                              *)

\* An answer reaches the client that asked, by the view it asked on, once:
\* whatever other clients and views do meanwhile (handle_udp_tx, poll_host,
\* eth_tx_walk).
AnswerReachesAsker ==
  \A r \in DOMAIN mgs.got :
    /\ \E j \in 1..Len(mgs.sent[r.flow]) : mgs.sent[r.flow][j] = [r EXCEPT !.kind = "request"]
    /\ mgs.got[r] = 1

\* The SP sees the requests of a client in the order it sent them on a view
\* (push_rx evicts the oldest, eth_rx overtakes with control frames only, the
\* ring is written and read in step).
RequestsInOrder ==
  ~net.late

\* Backlog eviction is fair to flows: a client that keeps no more than its share
\* of the queue never loses a frame, and a control frame is lost only to a
\* queue of control frames (push_rx).
EvictionIsFair ==
  \A x \in bridge.evicted :
    IF x.frame.flow = 0 THEN x.control = BacklogCap + 1
    ELSE x.load * Cardinality(Flows) + x.control > BacklogCap

\* A frame in the RX ring is one the driver will look at: the DMA fills the
\* descriptors in the order the driver reads them (eth_rx_inject).
RingInStep ==
  net.up /\ (\E i \in Slots : ~eth.ring[i].own) => ~eth.ring[net.next].own

Waiting(r) ==
  /\ [r EXCEPT !.kind = "reply"] \notin DOMAIN mgs.got
  /\ {r, [r EXCEPT !.kind = "reply"]} \cap mgs.unsent = {}
  /\ \A x \in bridge.evicted : x.frame # r
AllServed == \A f \in Flows : \A i \in 1..Len(mgs.sent[f]) : ~Waiting(mgs.sent[f][i])

\* Every request is answered unless it was evicted, came before the SP was known
\* on its view, or the host refused the answer: none waits for ever in the
\* bridge or in the ring (pump_eth, eth_rx_inject's interrupt).  The clients
\* send finitely many.
RequestAnswered == []<>AllServed
=============================================================================
