---------------------------- MODULE BridgesProofs ----------------------------
(***************************************************************************)
(* The safety properties of the management network (EthBridge) and of the  *)
(* shared RoT service (RotService), for every value of their constants.    *)
(*                                                                         *)
(* EthBridge.  A request passes sockets, bridge queue and RX ring on its   *)
(* way in; its reply passes the task's and the DMA's queues on its way     *)
(* out.  The invariant says that the places of the way in hold a client's  *)
(* requests in order, all after the last one seen, and that no reply is at *)
(* two places of the way out.  The loops of pump_eth and of eth_tx_walk    *)
(* (Through) are reasoned about with loop invariants (TrailInv).           *)
(*                                                                         *)
(* RotService.  An exchange passes seven stages; each fixes what is in the *)
(* FIFOs and what the RoT holds, so that the reply collected at the end    *)
(* is the one to the request that was fed.                                 *)
(***************************************************************************)
EXTENDS EthBridge, RotService, SequenceTheorems, FiniteSetTheorems, NaturalsInduction, WellFoundedInduction, TLAPS

-----------------------------------------------------------------------------
(* Loops                                                                   *)

(* The order of the natural numbers is well founded.                       *)
LEMMA LessIsWellFounded == IsWellFoundedOn({ss \in Nat \X Nat : ss[1] < ss[2]}, Nat)
  BY NatLessThanWellFounded, Zenon DEF OpToRel

(* A set of natural numbers that is not empty has a least element: the     *)
(* proofs below argue by the first index at which something would fail.    *)
LEMMA LeastElement ==
  ASSUME NEW T \in SUBSET Nat, T # {}
  PROVE  \E x \in T : \A y \in T : x <= y
<1> DEFINE R == {ss \in Nat \X Nat : ss[1] < ss[2]}
<1>1. \A x, y \in Nat : x < y => <<x, y>> \in R
  OBVIOUS
<1>2. IsWellFoundedOn(R, Nat)
  BY LessIsWellFounded
<1> HIDE DEF R
<1>3. PICK x \in T : \A y \in T : ~(<<y, x>> \in R)
  BY <1>2, WFMin, Zenon
<1>4. ASSUME NEW y \in T PROVE x <= y
  <2>1. x \in Nat /\ y \in Nat
    OBVIOUS
  <2>2. ~(y < x)
    BY <1>1, <1>3, <2>1
  <2> QED BY <2>1, <2>2
<1> QED BY <1>4

(* The four steps that Through repeats: handle_tx, poll_host's datagram,   *)
(* the delivery of one frame, the walk's descriptor.                       *)
Pass(k, s, x) ==
  CASE k = "tx" -> HandleTx(s, x)
    [] k = "host" -> HandleHost(s, x)
    [] k = "deliver" -> DeliverOne(s, x)
    [] OTHER -> TxDescriptor(s, x)

(* R is the recursive function of Through, over the first n elements of q. *)
Runs(k, n, S, q, R) == R = [i \in 0..n |-> IF i = 0 THEN S ELSE UNION {Pass(k, s, q[i]) : s \in R[i - 1]}]

(* Such a function exists: the recursion is over the natural numbers.      *)
LEMMA PassExists ==
  ASSUME NEW k, NEW S, NEW q, NEW n \in Nat
  PROVE  \E R : Runs(k, n, S, q, R)
<1> DEFINE Bad == {m \in Nat : ~\E R : Runs(k, m, S, q, R)}
<1>1. SUFFICES ASSUME Bad # {} PROVE FALSE
  OBVIOUS
<1>2. PICK m \in Bad : \A y \in Bad : m <= y
  <2>1. Bad \in SUBSET Nat
    OBVIOUS
  <2> HIDE DEF Bad
  <2> QED BY <1>1, <2>1, LeastElement
<1>3. m # 0
  <2>1. Runs(k, 0, S, q, [i \in 0..0 |-> S])
    BY DEF Runs
  <2> QED BY <2>1
<1>4. m \in Nat /\ m - 1 \in Nat /\ m - 1 < m
  BY <1>3
<1>5. PICK R : Runs(k, m - 1, S, q, R)
  BY <1>2, <1>4
<1> DEFINE U == UNION {Pass(k, s, q[m]) : s \in R[m - 1]}
           Z == [i \in 0..m |-> IF i = m THEN U ELSE R[i]]
<1>6. \A i \in 0..m - 1 : R[i] = IF i = 0 THEN S ELSE UNION {Pass(k, s, q[i]) : s \in R[i - 1]}
  BY <1>5 DEF Runs
<1>7. \A i \in 0..m - 1 : Z[i] = R[i]
  BY <1>4
<1>8. Z[m] = U
  BY <1>4
<1>9. ASSUME NEW i \in 0..m PROVE Z[i] = IF i = 0 THEN S ELSE UNION {Pass(k, s, q[i]) : s \in Z[i - 1]}
  <2>1. CASE i = m
    <3>1. Z[i - 1] = R[m - 1]
      BY <1>4, <1>7, <2>1
    <3> HIDE DEF Z
    <3> QED BY <1>3, <1>8, <2>1, <3>1
  <2>2. CASE i = 0
    <3>1. 0 \in 0..m - 1
      BY <1>4
    <3>2. Z[0] = R[0] /\ R[0] = S
      BY <1>6, <1>7, <3>1
    <3> HIDE DEF Z
    <3> QED BY <2>2, <3>2, Zenon
  <2>3. CASE i # m /\ i # 0
    <3>1. i \in 0..m - 1 /\ i - 1 \in 0..m - 1
      BY <1>4, <2>3
    <3>2. Z[i] = R[i] /\ Z[i - 1] = R[i - 1]
      BY <1>7, <3>1
    <3> HIDE DEF Z
    <3> QED BY <1>6, <2>3, <3>1, <3>2
  <2> QED BY <2>1, <2>2, <2>3
<1>10. Runs(k, m, S, q, Z)
  <2>1. Z = [i \in 0..m |-> Z[i]]
    OBVIOUS
  <2> HIDE DEF Z
  <2> QED BY <1>9, <2>1 DEF Runs
<1> QED BY <1>2, <1>10

(* R is the history of a pass over q that starts in S and ends in T.       *)
Trail(k, S, q, R, T) ==
  /\ T = R[Len(q)] /\ R[0] = S
  /\ \A i \in 1..Len(q) : \A t \in R[i] : \E s \in R[i - 1] : t \in Pass(k, s, q[i])

(* The recursive function is such a history.                               *)
LEMMA RunsTrail ==
  ASSUME NEW k, NEW S, NEW q, Len(q) \in Nat, NEW R, Runs(k, Len(q), S, q, R)
  PROVE  Trail(k, S, q, R, R[Len(q)])
<1>1. \A i \in 0..Len(q) : R[i] = IF i = 0 THEN S ELSE UNION {Pass(k, s, q[i]) : s \in R[i - 1]}
  BY DEF Runs
<1> DEFINE n == Len(q)
<1> HIDE DEF n
<1>0. n \in Nat /\ n = Len(q)
  BY DEF n
<1>2. R[0] = S
  <2>1. 0 \in 0..n
    BY <1>0
  <2> QED BY <1>0, <1>1, <2>1, Zenon
<1>3. ASSUME NEW i \in 1..Len(q) PROVE R[i] = UNION {Pass(k, s, q[i]) : s \in R[i - 1]}
  <2>1. i \in 0..n /\ i # 0
    BY <1>0
  <2> QED BY <1>0, <1>1, <2>1, Zenon
<1> QED BY <1>2, <1>3 DEF Trail

(* What pump_eth's first loop computes: every frame the SP sent goes       *)
(* through handle_tx, in order.                                            *)
LEMMA ThroughTx ==
  ASSUME NEW S, NEW q, Len(q) \in Nat
  PROVE  \E R : Trail("tx", S, q, R, Through(HandleTx, S, q))
<1> DEFINE G(R) == R = [i \in 0..Len(q) |-> IF i = 0 THEN S ELSE UNION {HandleTx(s, q[i]) : s \in R[i - 1]}]
           C == CHOOSE R : G(R)
<1>1. \A s, x : Pass("tx", s, x) = HandleTx(s, x)
  BY DEF Pass
<1>2. \A R : Runs("tx", Len(q), S, q, R) <=> G(R)
  BY <1>1 DEF Runs
<1>3. Through(HandleTx, S, q) = C[Len(q)]
  BY DEF Through
<1> HIDE DEF G
<1>4. Runs("tx", Len(q), S, q, C)
  BY <1>2, PassExists
<1> QED BY <1>3, <1>4, RunsTrail

(* The same for the loop of poll_host.                                     *)
LEMMA ThroughHost ==
  ASSUME NEW S, NEW q, Len(q) \in Nat
  PROVE  \E R : Trail("host", S, q, R, Through(HandleHost, S, q))
<1> DEFINE G(R) == R = [i \in 0..Len(q) |-> IF i = 0 THEN S ELSE UNION {HandleHost(s, q[i]) : s \in R[i - 1]}]
           C == CHOOSE R : G(R)
<1>1. \A s, x : Pass("host", s, x) = HandleHost(s, x)
  BY DEF Pass
<1>2. \A R : Runs("host", Len(q), S, q, R) <=> G(R)
  BY <1>1 DEF Runs
<1>3. Through(HandleHost, S, q) = C[Len(q)]
  BY DEF Through
<1> HIDE DEF G
<1>4. Runs("host", Len(q), S, q, C)
  BY <1>2, PassExists
<1> QED BY <1>3, <1>4, RunsTrail

(* The same for the loop that fills the RX ring.                           *)
LEMMA ThroughDeliver ==
  ASSUME NEW S, NEW q, Len(q) \in Nat
  PROVE  \E R : Trail("deliver", S, q, R, Through(DeliverOne, S, q))
<1> DEFINE G(R) == R = [i \in 0..Len(q) |-> IF i = 0 THEN S ELSE UNION {DeliverOne(s, q[i]) : s \in R[i - 1]}]
           C == CHOOSE R : G(R)
<1>1. \A s, x : Pass("deliver", s, x) = DeliverOne(s, x)
  BY DEF Pass
<1>2. \A R : Runs("deliver", Len(q), S, q, R) <=> G(R)
  BY <1>1 DEF Runs
<1>3. Through(DeliverOne, S, q) = C[Len(q)]
  BY DEF Through
<1> HIDE DEF G
<1>4. Runs("deliver", Len(q), S, q, C)
  BY <1>2, PassExists
<1> QED BY <1>3, <1>4, RunsTrail

(* The same for the loop of eth_tx_walk.                                   *)
LEMMA ThroughWalk ==
  ASSUME NEW S, NEW q, Len(q) \in Nat
  PROVE  \E R : Trail("walk", S, q, R, Through(TxDescriptor, S, q))
<1> DEFINE G(R) == R = [i \in 0..Len(q) |-> IF i = 0 THEN S ELSE UNION {TxDescriptor(s, q[i]) : s \in R[i - 1]}]
           C == CHOOSE R : G(R)
<1>1. \A s, x : Pass("walk", s, x) = TxDescriptor(s, x)
  BY DEF Pass
<1>2. \A R : Runs("walk", Len(q), S, q, R) <=> G(R)
  BY <1>1 DEF Runs
<1>3. Through(TxDescriptor, S, q) = C[Len(q)]
  BY DEF Through
<1> HIDE DEF G
<1>4. Runs("walk", Len(q), S, q, C)
  BY <1>2, PassExists
<1> QED BY <1>3, <1>4, RunsTrail

(* A loop invariant: sets G[i] that contain the states before the loop and *)
(* that every step respects contain the states after it.                   *)
LEMMA TrailInv ==
  ASSUME NEW k, NEW S, NEW q, NEW R, NEW T, Len(q) \in Nat, Trail(k, S, q, R, T),
         NEW G, R[0] \subseteq G[0],
         \A i \in 1..Len(q) : \A s \in G[i - 1] : \A t \in R[i] : t \in Pass(k, s, q[i]) => t \in G[i]
  PROVE  T \subseteq G[Len(q)]
<1> DEFINE n == Len(q)
           Bad == {i \in 0..n : ~(R[i] \subseteq G[i])}
<1>1. n \in Nat /\ T = R[n]
  BY DEF Trail
<1>2. SUFFICES ASSUME Bad # {} PROVE FALSE
  <2>1. n \in 0..n
    BY <1>1
  <2> QED BY <1>1, <2>1
<1>3. Bad \in SUBSET Nat
  OBVIOUS
<1>4. PICK m \in Bad : \A y \in Bad : m <= y
  <2> HIDE DEF Bad
  <2> QED BY <1>2, <1>3, LeastElement
<1>5. m \in 1..n /\ m - 1 \in 0..n /\ ~(m <= m - 1)
  <2>1. m # 0 /\ m \in 0..n
    OBVIOUS
  <2> HIDE DEF n, Bad
  <2> QED BY <1>1, <2>1
<1>6. R[m - 1] \subseteq G[m - 1]
  BY <1>4, <1>5
<1>7. \A t \in R[m] : \E s \in R[m - 1] : t \in Pass(k, s, q[m])
  BY <1>5 DEF Trail
<1>8. R[m] \subseteq G[m]
  BY <1>5, <1>6, <1>7
<1> QED BY <1>8

(* What the assumption on the constants says.                              *)
LEMMA EthConstants ==
  /\ Flows \subseteq Nat \ {0} /\ 0 \notin Flows /\ IsFiniteSet(Flows)
  /\ RingLen \in Nat /\ 0 < RingLen /\ BacklogCap \in Nat /\ 0 < BacklogCap
  /\ 0 \notin Vids /\ View \in [Flows -> Vids]
  BY EthAssumption

-----------------------------------------------------------------------------
(* The management network: frames and queues                               *)

(* The frames, by kind: what goes to the SP (clients' requests, the        *)
(* bridge's control frames) and what comes from it (replies, its own       *)
(* frames).                                                                *)
Kinds == {"request", "reply", "control", "ns", "beacon", "context", "none"}
FrameType == [flow : Nat, kind : Kinds, vid : Vids \cup {0}, id : Nat]
ReqFrames == {x \in FrameType : x.kind = "request" /\ x.flow \in Flows /\ x.vid = View[x.flow]}
RepFrames == {x \in FrameType : x.kind = "reply" /\ x.flow \in Flows /\ x.vid = View[x.flow]}
CtlFrames == {x \in FrameType : x.kind = "control" /\ x.flow = 0 /\ x.vid \in Vids}
OwnFrames == {x \in FrameType : x.kind \in {"ns", "beacon"} /\ x.flow = 0 /\ x.vid \in Vids}
ToSp == ReqFrames \cup CtlFrames
FromSp == RepFrames \cup OwnFrames

BridgeType == [learned : SUBSET Vids, peers : [Vids -> Flows \cup {0}], rx : Seq(ToSp),
               evicted : SUBSET [frame : FrameType, load : Nat, control : Nat]]

(* A frame made of parts of the right type is a frame.                     *)
LEMMA FrameIsTyped ==
  ASSUME NEW a \in Nat, NEW k \in Kinds, NEW v \in Vids \cup {0}, NEW i \in Nat
  PROVE  Frame(a, k, v, i) \in FrameType
  BY Zenon DEF Frame, FrameType

(* Of two frames of one client, x was sent first.                          *)
Earlier(x, y) == x.flow = y.flow /\ x.flow \in Flows => x.id < y.id

(* A queue holds the frames of every client in the order they were sent.   *)
Sorted(q) == \A i, j \in 1..Len(q) : i < j => Earlier(q[i], q[j])

(* A request that has not reached the driver yet: it is above what the net *)
(* task has seen of its client, it was sent, and every frame of that       *)
(* client in the RX ring is before it.                                     *)
Fits(x, ring, last, sent) ==
  x.flow \in Flows =>
    /\ last[x.flow] < x.id /\ x.id <= Len(sent[x.flow])
    /\ \A i \in Slots : ring[i].own = FALSE => Earlier(ring[i].frame, x)

(* All of a queue are.                                                     *)
AllFit(q, ring, last, sent) == \A i \in 1..Len(q) : Fits(q[i], ring, last, sent)

(* The frames of q come before those of the sockets from k + 1 on.         *)
Ahead(q, sk, k) == \A i \in 1..Len(q) : \A j \in k + 1..Len(sk) : Earlier(q[i], sk[j])

(* The bridge's queue, while poll_host has handled k of the datagrams sk.  *)
Line(q, sk, k, ring, last, sent) == Sorted(q) /\ AllFit(q, ring, last, sent) /\ Ahead(q, sk, k)

(* What EvictionIsFair asks of an eviction.                                *)
Fair(x) ==
  IF x.frame.flow = 0 THEN x.control = BacklogCap + 1
  ELSE x.load * Cardinality(Flows) + x.control > BacklogCap

(* The bridge: its type, the bound of its queue, the fairness of what it   *)
(* dropped.                                                                *)
BridgeOK(b) == b \in BridgeType /\ Len(b.rx) <= BacklogCap /\ \A x \in b.evicted : Fair(x)

(* A queue without its element o: the later ones move up.                  *)
LEMMA Removal ==
  ASSUME NEW A, NEW q \in Seq(A), NEW o \in 1..Len(q)
  PROVE  /\ RemoveAt(q, o) \in Seq(A) /\ Len(RemoveAt(q, o)) = Len(q) - 1
         /\ \A i \in 1..Len(q) - 1 : RemoveAt(q, o)[i] = IF i < o THEN q[i] ELSE q[i + 1]
<1> DEFINE n == Len(q)
           a == SubSeq(q, 1, o - 1)
           c == SubSeq(q, o + 1, n)
<1>1. n \in Nat /\ o \in 1..n
  OBVIOUS
<1>2. a \in Seq(A) /\ Len(a) = o - 1 /\ \A i \in 1..o - 1 : a[i] = q[i]
  <2>1. Len(a) = IF 1 <= o - 1 THEN o - 1 - 1 + 1 ELSE 0
    BY <1>1, SubSeqProperties
  <2>2. a \in Seq(A) /\ \A i \in 1..o - 1 : a[i] = q[1 + i - 1]
    BY <1>1, SubSeqProperties
  <2> QED BY <1>1, <2>1, <2>2
<1>3. c \in Seq(A) /\ Len(c) = n - o /\ \A i \in 1..n - o : c[i] = q[o + i]
  <2>1. Len(c) = IF o + 1 <= n THEN n - (o + 1) + 1 ELSE 0
    BY <1>1, SubSeqProperties
  <2>2. c \in Seq(A) /\ \A i \in 1..n - (o + 1) + 1 : c[i] = q[(o + 1) + i - 1]
    BY <1>1, SubSeqProperties
  <2> QED BY <1>1, <2>1, <2>2
<1>4. RemoveAt(q, o) = a \o c
  BY DEF RemoveAt
<1> HIDE DEF a, c
<1>5. /\ a \o c \in Seq(A) /\ Len(a \o c) = Len(a) + Len(c)
      /\ \A i \in 1..Len(a) + Len(c) : (a \o c)[i] = IF i <= Len(a) THEN a[i] ELSE c[i - Len(a)]
  BY <1>2, <1>3, ConcatProperties
<1> DEFINE w == a \o c
<1> HIDE DEF w, n
<1>6. w \in Seq(A) /\ Len(w) = n - 1 /\ \A i \in 1..n - 1 : w[i] = IF i <= o - 1 THEN a[i] ELSE c[i - (o - 1)]
  BY <1>1, <1>2, <1>3, <1>5 DEF w
<1>7. ASSUME NEW i \in 1..n - 1 PROVE w[i] = IF i < o THEN q[i] ELSE q[i + 1]
  <2>1. CASE i < o
    BY <1>1, <1>2, <1>6, <2>1
  <2>2. CASE ~(i < o)
    <3>1. i - (o - 1) \in 1..n - o /\ o + (i - (o - 1)) = i + 1 /\ ~(i <= o - 1)
      BY <1>1, <2>2
    <3> QED BY <1>3, <1>6, <2>2, <3>1
  <2> QED BY <2>1, <2>2
<1> QED BY <1>4, <1>6, <1>7 DEF w, n

(* Dropping a frame, as push_rx and eth_rx do, disturbs no order.          *)
LEMMA RemovalKeepsLine ==
  ASSUME NEW q \in Seq(ToSp), NEW o \in 1..Len(q), NEW sk, NEW k, NEW ring, NEW last, NEW sent,
         Line(q, sk, k, ring, last, sent)
  PROVE  Line(RemoveAt(q, o), sk, k, ring, last, sent)
<1> DEFINE n == Len(q)
           w == RemoveAt(q, o)
<1>1. n \in Nat /\ o \in 1..n
  OBVIOUS
<1>2. Len(w) = n - 1 /\ \A i \in 1..n - 1 : w[i] = IF i < o THEN q[i] ELSE q[i + 1]
  BY Removal
<1> HIDE DEF n, w
<1>3. ASSUME NEW i \in 1..n - 1
      PROVE  \E j \in 1..n : w[i] = q[j] /\ i <= j /\ (j = IF i < o THEN i ELSE i + 1)
  <2>1. CASE i < o
    BY <1>1, <1>2, <2>1
  <2>2. CASE ~(i < o)
    BY <1>1, <1>2, <2>2
  <2> QED BY <2>1, <2>2
<1>4. Sorted(w)
  <2> SUFFICES ASSUME NEW i \in 1..n - 1, NEW j \in 1..n - 1, i < j PROVE Earlier(w[i], w[j])
    BY <1>2 DEF Sorted
  <2>1. PICK a \in 1..n : w[i] = q[a] /\ (a = IF i < o THEN i ELSE i + 1)
    BY <1>3
  <2>2. PICK b \in 1..n : w[j] = q[b] /\ (b = IF j < o THEN j ELSE j + 1)
    BY <1>3
  <2>3. a < b
    BY <1>1, <2>1, <2>2
  <2>4. Earlier(q[a], q[b])
    BY <2>3 DEF Line, Sorted, n
  <2> QED BY <2>1, <2>2, <2>4
<1>5. AllFit(w, ring, last, sent)
  BY <1>2, <1>3 DEF Line, AllFit, n
<1>6. Ahead(w, sk, k)
  BY <1>2, <1>3 DEF Line, Ahead, n
<1> QED BY <1>4, <1>5, <1>6 DEF Line, w

(* A control frame, or the next datagram of the sockets, joins the queue.  *)
LEMMA AppendKeepsLine ==
  ASSUME NEW q \in Seq(ToSp), NEW f \in ToSp, NEW sk, NEW k \in Nat, NEW m \in Nat, NEW ring, NEW last, NEW sent,
         k <= m, Len(sk) \in Nat, Line(q, sk, k, ring, last, sent),
         f.flow \notin Flows \/ (k < Len(sk) /\ m = k + 1 /\ f = sk[k + 1] /\ Sorted(sk) /\ Fits(f, ring, last, sent))
  PROVE  Line(Append(q, f), sk, m, ring, last, sent)
<1> DEFINE n == Len(q)
           w == Append(q, f)
           l == Len(sk)
<1>1. n \in Nat /\ Len(w) = n + 1 /\ w[n + 1] = f /\ \A i \in 1..n : w[i] = q[i]
  BY AppendProperties
<1>0. l \in Nat
  OBVIOUS
<1>2. ASSUME NEW i \in 1..n PROVE Earlier(q[i], f)
  <2>1. CASE f.flow \notin Flows
    BY <2>1 DEF Earlier
  <2>2. CASE k < Len(sk) /\ f = sk[k + 1]
    <3>1. k + 1 \in k + 1..l
      BY <1>0, <2>2
    <3> QED BY <2>2, <3>1 DEF Line, Ahead
  <2> QED BY <2>1, <2>2
<1>3. \A i \in 1..n : \A j \in 1..n : i < j => Earlier(q[i], q[j])
  BY DEF Line, Sorted
<1>4. ASSUME NEW j \in m + 1..l PROVE Earlier(f, sk[j])
  <2>1. CASE f.flow \notin Flows
    BY <2>1 DEF Earlier
  <2>2. CASE k < l /\ m = k + 1 /\ f = sk[k + 1] /\ Sorted(sk)
    <3>1. k + 1 \in 1..l /\ j \in 1..l /\ k + 1 < j
      BY <1>0, <2>2
    <3> QED BY <2>2, <3>1 DEF Sorted
  <2> QED BY <2>1, <2>2
<1>5. \A i \in 1..n : \A j \in m + 1..l : Earlier(q[i], sk[j])
  <2>1. \A j \in m + 1..l : j \in k + 1..l
    BY <1>0
  <2> QED BY <2>1 DEF Line, Ahead
<1>6. Fits(f, ring, last, sent)
  BY DEF Fits
<1>7. \A i \in 1..n : Fits(q[i], ring, last, sent)
  BY DEF Line, AllFit
<1> HIDE DEF n, w, l
<1>8. \A i \in 1..n + 1 : i = n + 1 \/ i \in 1..n
  BY <1>1
<1>9. AllFit(w, ring, last, sent)
  BY <1>1, <1>6, <1>7, <1>8 DEF AllFit
<1>10. Sorted(w)
  <2> SUFFICES ASSUME NEW i \in 1..n + 1, NEW j \in 1..n + 1, i < j PROVE Earlier(w[i], w[j])
    BY <1>1 DEF Sorted
  <2>1. i \in 1..n
    BY <1>1
  <2>2. w[i] = q[i]
    BY <1>1, <2>1
  <2> QED BY <1>1, <1>2, <1>3, <1>8, <2>1, <2>2
<1>11. Ahead(w, sk, m)
  <2> SUFFICES ASSUME NEW i \in 1..n + 1, NEW j \in m + 1..l PROVE Earlier(w[i], sk[j])
    BY <1>1 DEF Ahead, l
  <2> QED BY <1>1, <1>4, <1>5, <1>8
<1> QED BY <1>9, <1>10, <1>11 DEF Line, w

(* The number of frames a client has in the queue, as push_rx counts them. *)
LEMMA LoadFacts ==
  ASSUME NEW q \in Seq(ToSp), NEW v
  PROVE  /\ At(q, v) \subseteq 1..Len(q) /\ IsFiniteSet(At(q, v)) /\ Load(q, v) \in Nat /\ Load(q, v) <= Len(q)
         /\ Load(q, v) = 0 <=> At(q, v) = {}
<1>1. Len(q) \in Nat
  OBVIOUS
<1>2. IsFiniteSet(1..Len(q)) /\ Cardinality(1..Len(q)) = Len(q)
  <2>1. IsFiniteSet(1..Len(q)) /\ Cardinality(1..Len(q)) = IF 1 > Len(q) THEN 0 ELSE Len(q) - 1 + 1
    BY <1>1, FS_Interval
  <2> QED BY <1>1, <2>1
<1>3. At(q, v) \in SUBSET (1..Len(q))
  BY DEF At
<1>4. IsFiniteSet(At(q, v)) /\ Cardinality(At(q, v)) <= Cardinality(1..Len(q))
  BY <1>2, <1>3, FS_Subset
<1>5. Cardinality(At(q, v)) \in Nat
  BY <1>4, FS_CardinalityType
<1>6. Cardinality(At(q, v)) = 0 <=> At(q, v) = {}
  BY <1>4, FS_EmptySet
<1> QED BY <1>2, <1>3, <1>4, <1>5, <1>6 DEF Load

(* The first frame of a client is one of its frames, and none of them is   *)
(* before it.                                                              *)
LEMMA OldestFacts ==
  ASSUME NEW q \in Seq(ToSp), NEW v, At(q, v) # {}
  PROVE  /\ Oldest(q, v) \in 1..Len(q) /\ q[Oldest(q, v)].flow = v
         /\ \A i \in 1..Len(q) : q[i].flow = v => Oldest(q, v) <= i
<1> DEFINE A == At(q, v)
<1>1. A \in SUBSET Nat /\ A # {}
  BY DEF At
<1>2. \E x \in A : \A y \in A : x <= y
  <2> HIDE DEF A
  <2> QED BY <1>1, LeastElement
<1>3. Oldest(q, v) \in A /\ \A y \in A : Oldest(q, v) <= y
  <2> HIDE DEF A
  <2>1. Min(A) \in A /\ \A y \in A : Min(A) <= y
    BY <1>2, Zenon DEF Min
  <2> QED BY <2>1 DEF Oldest, A
<1> QED BY <1>3 DEF At

(* The frames of a set of clients.                                         *)
OfFlows(q, S) == {i \in 1..Len(q) : q[i].flow \in S}

(* There are finitely many.                                                *)
LEMMA OfFlowsFinite ==
  ASSUME NEW q \in Seq(ToSp), NEW S
  PROVE  IsFiniteSet(OfFlows(q, S)) /\ Cardinality(OfFlows(q, S)) \in Nat
<1>1. Len(q) \in Nat
  OBVIOUS
<1>2. IsFiniteSet(1..Len(q))
  BY <1>1, FS_Interval
<1>3. OfFlows(q, S) \in SUBSET (1..Len(q))
  BY DEF OfFlows
<1>4. IsFiniteSet(OfFlows(q, S))
  BY <1>2, <1>3, FS_Subset
<1> QED BY <1>4, FS_CardinalityType

(* The size of a union is at most the sum of the sizes.                    *)
LEMMA UnionBound ==
  ASSUME NEW A, NEW B, IsFiniteSet(A), IsFiniteSet(B)
  PROVE  Cardinality(A \cup B) <= Cardinality(A) + Cardinality(B)
<1>1. IsFiniteSet(A \cap B)
  <2>1. A \cap B \in SUBSET A
    OBVIOUS
  <2> QED BY <2>1, FS_Subset
<1>2. Cardinality(A \cap B) \in Nat /\ Cardinality(A) \in Nat /\ Cardinality(B) \in Nat
  BY <1>1, FS_CardinalityType
<1>3. Cardinality(A \cup B) = Cardinality(A) + Cardinality(B) - Cardinality(A \cap B)
  BY FS_Union
<1> QED BY <1>2, <1>3

(* If no client has more than L frames queued, n clients have at most n *  *)
(* L: by induction over the number of clients.                             *)
LEMMA ShareOfFlows ==
  ASSUME NEW q \in Seq(ToSp), NEW L \in Nat, \A g \in Flows : Load(q, g) <= L, NEW S0 \in SUBSET Flows
  PROVE  Cardinality(OfFlows(q, S0)) <= L * Cardinality(S0)
<1> USE EthConstants
<1> DEFINE Bad == {n \in Nat : \E S \in SUBSET Flows : Cardinality(S) = n /\ ~(Cardinality(OfFlows(q, S)) <= L * n)}
<1>0. \A S \in SUBSET Flows : IsFiniteSet(S) /\ Cardinality(S) \in Nat
  BY FS_Subset, FS_CardinalityType
<1>1. SUFFICES ASSUME Bad # {} PROVE FALSE
  BY <1>0
<1>2. Bad \in SUBSET Nat
  OBVIOUS
<1>3. PICK m \in Bad : \A y \in Bad : m <= y
  <2> HIDE DEF Bad
  <2> QED BY <1>1, <1>2, LeastElement
<1>4. PICK S \in SUBSET Flows : Cardinality(S) = m /\ ~(Cardinality(OfFlows(q, S)) <= L * m)
  BY <1>3
<1>5. m \in Nat /\ IsFiniteSet(S)
  BY <1>0, <1>2, <1>3
<1>6. S # {}
  <2> SUFFICES ASSUME S = {} PROVE FALSE
    OBVIOUS
  <2>1. OfFlows(q, S) = {}
    BY DEF OfFlows
  <2>2. Cardinality(OfFlows(q, S)) = 0 /\ m = 0
    BY <1>4, <2>1, FS_EmptySet
  <2>3. L * 0 = 0
    OBVIOUS
  <2> QED BY <1>4, <2>2, <2>3
<1>7. PICK x \in S : TRUE
  BY <1>6
<1> DEFINE S1 == S \ {x}
<1>8. S1 \in SUBSET Flows /\ Cardinality(S1) = m - 1 /\ m - 1 \in Nat
  <2>1. Cardinality(S1) = Cardinality(S) - 1
    BY <1>5, <1>7, FS_RemoveElement
  <2>2. S1 \in SUBSET Flows
    OBVIOUS
  <2> QED BY <1>0, <1>4, <2>1, <2>2
<1>9. Cardinality(OfFlows(q, S1)) <= L * (m - 1)
  <2>1. m - 1 \notin Bad
    <3> HIDE DEF Bad, S1
    <3> QED BY <1>3, <1>5, <1>8
  <2> QED BY <1>8, <2>1
<1>10. OfFlows(q, S) = OfFlows(q, S1) \cup At(q, x)
  BY <1>7 DEF OfFlows, At
<1> DEFINE u == Cardinality(OfFlows(q, S))
           u1 == Cardinality(OfFlows(q, S1))
           a == Load(q, x)
<1>11. u <= u1 + a /\ u \in Nat /\ u1 \in Nat /\ a \in Nat /\ a <= L
  <2>1. IsFiniteSet(OfFlows(q, S1)) /\ IsFiniteSet(At(q, x)) /\ Load(q, x) \in Nat
    BY OfFlowsFinite, LoadFacts
  <2>2. u <= u1 + Cardinality(At(q, x))
    BY <1>10, <2>1, UnionBound
  <2> QED BY <1>7, <2>1, <2>2, OfFlowsFinite DEF Load
<1>12. L * m = L * (m - 1) + L
  BY <1>5
<1> DEFINE lm == L * m
           lm1 == L * (m - 1)
<1>13. lm = lm1 + L /\ lm1 \in Nat /\ u1 <= lm1 /\ ~(u <= lm) /\ lm \in Nat
  BY <1>4, <1>5, <1>8, <1>9, <1>12
<1> HIDE DEF lm, lm1, u, u1, a
<1> QED BY <1>11, <1>13

(* So the whole queue is at most L times the number of clients, and the    *)
(* control frames.                                                         *)
LEMMA ShareBound ==
  ASSUME NEW q \in Seq(ToSp), NEW L \in Nat, \A g \in Flows : Load(q, g) <= L
  PROVE  Len(q) <= L * Cardinality(Flows) + Load(q, 0)
<1> USE EthConstants
<1> DEFINE u == Cardinality(OfFlows(q, Flows))
           lf == L * Cardinality(Flows)
           n == Len(q)
<1>1. \A i \in 1..Len(q) : q[i] \in ToSp
  OBVIOUS
<1>2. \A x \in ToSp : x.flow \in Flows \/ x.flow = 0
  BY DEF ToSp, ReqFrames, CtlFrames
<1>3. 1..Len(q) = OfFlows(q, Flows) \cup At(q, 0)
  BY <1>1, <1>2 DEF OfFlows, At
<1>4. IsFiniteSet(OfFlows(q, Flows)) /\ u \in Nat /\ IsFiniteSet(At(q, 0)) /\ Load(q, 0) \in Nat
  BY OfFlowsFinite, LoadFacts
<1>5. Cardinality(1..Len(q)) <= u + Load(q, 0)
  BY <1>3, <1>4, UnionBound DEF Load
<1>6. Cardinality(1..Len(q)) = IF 1 > Len(q) THEN 0 ELSE Len(q) - 1 + 1
  BY FS_Interval
<1>7. n \in Nat /\ n <= u + Load(q, 0)
  BY <1>5, <1>6
<1>8. u <= lf
  <2>1. Flows \in SUBSET Flows
    OBVIOUS
  <2> QED BY <2>1, ShareOfFlows
<1>9. lf \in Nat
  BY FS_CardinalityType
<1> HIDE DEF u, lf, n
<1>10. n <= lf + Load(q, 0)
  BY <1>4, <1>7, <1>8, <1>9
<1> QED BY <1>10 DEF n, lf

(* Some client is the busiest if any client has a frame queued.            *)
LEMMA BusiestExists ==
  ASSUME NEW q \in Seq(ToSp), NEW f \in Flows, Load(q, f) > 0
  PROVE  Busiest(q) # {}
<1> DEFINE n == Len(q)
           D == {n - Load(q, g) : g \in Flows}
<1>1. n \in Nat /\ \A g \in Flows : Load(q, g) \in Nat /\ Load(q, g) <= n
  BY LoadFacts
<1> HIDE DEF n
<1>2. D \in SUBSET Nat /\ D # {}
  BY <1>1
<1>3. PICK d \in D : \A e \in D : d <= e
  <2> HIDE DEF D
  <2> QED BY <1>2, LeastElement
<1>4. PICK g \in Flows : d = n - Load(q, g)
  OBVIOUS
<1>5. ASSUME NEW h \in Flows PROVE Load(q, h) <= Load(q, g)
  <2>1. n - Load(q, g) <= n - Load(q, h)
    BY <1>3, <1>4
  <2> QED BY <1>1, <2>1
<1>6. Load(q, g) > 0
  BY <1>1, <1>5
<1> QED BY <1>5, <1>6 DEF Busiest

(* The victim push_rx picks from an overfull queue has a frame there; it   *)
(* is a control frame only if all are, and otherwise of a client no other  *)
(* exceeds.                                                                *)
LEMMA VictimHasFrame ==
  ASSUME NEW q \in Seq(ToSp), Len(q) = BacklogCap + 1, NEW v \in Victims(q)
  PROVE  At(q, v) # {} /\ (v = 0 => Load(q, 0) = BacklogCap + 1)
         /\ (v # 0 => v \in Flows /\ \A g \in Flows : Load(q, g) <= Load(q, v))
<1> USE EthConstants
<1>1. CASE Busiest(q) # {}
  <2>1. v \in Busiest(q)
    BY <1>1 DEF Victims
  <2>2. v \in Flows /\ Load(q, v) > 0 /\ \A g \in Flows : Load(q, g) <= Load(q, v)
    BY <2>1 DEF Busiest
  <2>3. At(q, v) # {}
    BY <2>2, LoadFacts
  <2> QED BY <2>2, <2>3
<1>2. CASE Busiest(q) = {}
  <2>1. v = 0
    BY <1>2 DEF Victims
  <2>2. \A f \in Flows : At(q, f) = {}
    <3> TAKE f \in Flows
    <3>1. ~(Load(q, f) > 0)
      BY <1>2, BusiestExists
    <3> QED BY <3>1, LoadFacts
  <2>3. \A i \in 1..Len(q) : q[i].flow \in Flows \/ q[i].flow = 0
    <3>1. \A i \in 1..Len(q) : q[i] \in ToSp
      OBVIOUS
    <3> QED BY <3>1 DEF ToSp, ReqFrames, CtlFrames
  <2>4. At(q, 0) = 1..Len(q)
    BY <2>2, <2>3 DEF At
  <2>5. Load(q, 0) = BacklogCap + 1
    <3>1. Cardinality(1..Len(q)) = IF 1 > Len(q) THEN 0 ELSE Len(q) - 1 + 1
      BY FS_Interval
    <3> QED BY <2>4, <3>1 DEF Load
  <2>6. At(q, 0) # {}
    BY <2>5, LoadFacts
  <2> QED BY <2>1, <2>5, <2>6
<1> QED BY <1>1, <1>2

(* So the eviction is fair, and the queue is back within its bound.        *)
LEMMA EvictKeeps ==
  ASSUME NEW b, BridgeOK(b), NEW q \in Seq(ToSp), Len(q) = BacklogCap + 1, NEW v \in Victims(q)
  PROVE  /\ BridgeOK(Evict(b, q, v)) /\ Evict(b, q, v).learned = b.learned /\ Evict(b, q, v).peers = b.peers
         /\ Oldest(q, v) \in 1..Len(q) /\ Evict(b, q, v).rx = RemoveAt(q, Oldest(q, v))
<1> USE EthConstants
<1> DEFINE o == Oldest(q, v)
           w == RemoveAt(q, o)
           x == [frame |-> q[o], load |-> Load(q, v), control |-> Load(q, 0)]
           ev == b.evicted \cup {x}
           c == [b EXCEPT !.rx = w, !.evicted = ev]
<1>1. At(q, v) # {} /\ (v = 0 => Load(q, 0) = BacklogCap + 1)
         /\ (v # 0 => v \in Flows /\ \A g \in Flows : Load(q, g) <= Load(q, v))
  BY VictimHasFrame
<1>2. o \in 1..Len(q) /\ q[o].flow = v
  BY <1>1, OldestFacts
<1>3. w \in Seq(ToSp) /\ Len(w) = BacklogCap
  <2>1. w \in Seq(ToSp) /\ Len(w) = Len(q) - 1
    BY <1>2, Removal
  <2> QED BY <2>1
<1>4. Evict(b, q, v) = c
  BY DEF Evict, Without
<1>5. q[o] \in FrameType
  <2>1. q[o] \in ToSp
    BY <1>2
  <2> QED BY <2>1 DEF ToSp, ReqFrames, CtlFrames
<1>6. Load(q, v) \in Nat /\ Load(q, 0) \in Nat
  BY LoadFacts
<1>7. x \in [frame : FrameType, load : Nat, control : Nat] /\ x.frame = q[o] /\ x.load = Load(q, v) /\ x.control = Load(q, 0)
  BY <1>5, <1>6
<1>8. Fair(x)
  <2>1. CASE v = 0
    BY <1>1, <1>2, <1>7, <2>1 DEF Fair
  <2>2. CASE v # 0
    <3>1. Len(q) <= Load(q, v) * Cardinality(Flows) + Load(q, 0)
      BY <1>1, <1>6, <2>2, ShareBound
    <3> DEFINE p == Load(q, v) * Cardinality(Flows)
               ld == Load(q, 0)
    <3>2. p \in Nat
      BY <1>6, FS_CardinalityType
    <3>3. BacklogCap + 1 <= p + ld /\ ld \in Nat
      BY <1>6, <3>1
    <3> HIDE DEF p, ld
    <3>4. p + ld > BacklogCap
      BY <3>2, <3>3
    <3> HIDE DEF x
    <3>5. x.load * Cardinality(Flows) + x.control > BacklogCap
      BY <1>7, <3>4 DEF p, ld
    <3> QED BY <1>2, <1>7, <2>2, <3>5 DEF Fair
  <2> QED BY <2>1, <2>2
<1>9. b \in BridgeType /\ \A y \in b.evicted : Fair(y)
  BY DEF BridgeOK
<1>10. ev \in SUBSET [frame : FrameType, load : Nat, control : Nat] /\ \A y \in ev : Fair(y)
  BY <1>7, <1>8, <1>9 DEF BridgeType
<1> HIDE DEF w, ev
<1>11. c \in BridgeType /\ c.rx = w /\ c.evicted = ev /\ c.learned = b.learned /\ c.peers = b.peers
  BY <1>3, <1>9, <1>10 DEF BridgeType
<1> HIDE DEF c
<1>12. BridgeOK(c)
  BY <1>3, <1>10, <1>11 DEF BridgeOK
<1> QED BY <1>2, <1>4, <1>11, <1>12 DEF w

(* push_rx as a whole: the learned VLANs and the peers stay, the queue     *)
(* stays in order.                                                         *)
LEMMA PushKeeps ==
  ASSUME NEW b, BridgeOK(b), NEW f \in ToSp, NEW c \in PushRx(b, f),
         NEW sk, NEW k \in Nat, NEW m \in Nat, NEW ring, NEW last, NEW sent,
         k <= m, Len(sk) \in Nat, Line(b.rx, sk, k, ring, last, sent),
         f.flow \notin Flows \/ (k < Len(sk) /\ m = k + 1 /\ f = sk[k + 1] /\ Sorted(sk) /\ Fits(f, ring, last, sent))
  PROVE  BridgeOK(c) /\ c.learned = b.learned /\ c.peers = b.peers /\ Line(c.rx, sk, m, ring, last, sent)
<1> USE EthConstants
<1> DEFINE q == Append(b.rx, f)
<1>1. b \in BridgeType /\ b.rx \in Seq(ToSp) /\ Len(b.rx) <= BacklogCap /\ Len(b.rx) \in Nat
  BY DEF BridgeOK, BridgeType
<1>2. q \in Seq(ToSp) /\ Len(q) = Len(b.rx) + 1 /\ Len(q) \in Nat
  BY <1>1, AppendProperties
<1>3. Line(q, sk, m, ring, last, sent)
  BY <1>1, AppendKeepsLine
<1> HIDE DEF q
<1>4. CASE Len(q) <= BacklogCap
  <2>1. c = [b EXCEPT !.rx = q]
    BY <1>4 DEF PushRx, q
  <2>2. c \in BridgeType /\ c.rx = q /\ c.learned = b.learned /\ c.peers = b.peers /\ c.evicted = b.evicted
    BY <1>1, <1>2, <2>1 DEF BridgeType
  <2> QED BY <1>3, <1>4, <2>2 DEF BridgeOK
<1>5. CASE ~(Len(q) <= BacklogCap)
  <2>1. PICK v \in Victims(q) : c = Evict(b, q, v)
    BY <1>5 DEF PushRx, q
  <2>2. Len(q) = BacklogCap + 1
    BY <1>1, <1>2, <1>5
  <2>3. BridgeOK(c) /\ c.learned = b.learned /\ c.peers = b.peers /\ Oldest(q, v) \in 1..Len(q) /\ c.rx = RemoveAt(q, Oldest(q, v))
    BY <1>2, <2>1, <2>2, EvictKeeps
  <2>4. Line(RemoveAt(q, Oldest(q, v)), sk, m, ring, last, sent)
    BY <1>2, <1>3, <2>3, RemovalKeepsLine
  <2> QED BY <2>3, <2>4
<1> QED BY <1>4, <1>5

(* Bags of replies: what the clients got.                                  *)
Replies == UNION {[D -> Nat] : D \in SUBSET RepFrames}

(* Nothing is in the bag twice.                                            *)
Once(B) == \A r \in DOMAIN B : B[r] = 1

(* No reply.                                                               *)
LEMMA BagOfNone == EmptyBag \in Replies /\ DOMAIN EmptyBag = {} /\ Once(EmptyBag)
<1>1. EmptyBag = [x \in {} |-> 1]
  BY DEF EmptyBag, SetToBag
<1>2. [x \in {} |-> 1] \in [{} -> Nat] /\ DOMAIN [x \in {} |-> 1] = {}
  OBVIOUS
<1>3. {} \in SUBSET RepFrames
  OBVIOUS
<1>4. EmptyBag \in Replies
  BY <1>1, <1>2, <1>3 DEF Replies
<1> QED BY <1>1, <1>2, <1>4 DEF Once

(* One reply.                                                              *)
LEMMA BagOfOne ==
  ASSUME NEW f \in RepFrames
  PROVE  SetToBag({f}) \in Replies /\ DOMAIN SetToBag({f}) = {f} /\ Once(SetToBag({f}))
<1>1. SetToBag({f}) = [x \in {f} |-> 1]
  BY DEF SetToBag
<1>2. [x \in {f} |-> 1] \in [{f} -> Nat] /\ DOMAIN [x \in {f} |-> 1] = {f} /\ [x \in {f} |-> 1][f] = 1
  OBVIOUS
<1>3. {f} \in SUBSET RepFrames
  OBVIOUS
<1>4. SetToBag({f}) \in Replies
  BY <1>1, <1>2, <1>3 DEF Replies
<1> QED BY <1>1, <1>2, <1>4 DEF Once

(* Two bags without a common reply, each holding its replies once, hold    *)
(* them once together.                                                     *)
LEMMA BagsApart ==
  ASSUME NEW B \in Replies, NEW C \in Replies, Once(B), Once(C), DOMAIN B \cap DOMAIN C = {}
  PROVE  B (+) C \in Replies /\ DOMAIN (B (+) C) = DOMAIN B \cup DOMAIN C /\ Once(B (+) C)
<1> DEFINE D == DOMAIN B \cup DOMAIN C
           Z == B (+) C
<1>1. DOMAIN B \in SUBSET RepFrames /\ DOMAIN C \in SUBSET RepFrames
  BY DEF Replies
<1>2. Z = [e \in D |-> (IF e \in DOMAIN B THEN B[e] ELSE 0) + (IF e \in DOMAIN C THEN C[e] ELSE 0)]
  BY DEF (+)
<1>3. DOMAIN Z = D
  BY <1>2
<1>4. ASSUME NEW e \in D PROVE Z[e] = 1
  BY <1>2 DEF Once
<1>5. Z = [e \in D |-> Z[e]]
  BY <1>2
<1> HIDE DEF Z
<1>6. Z \in [D -> Nat]
  BY <1>3, <1>4, <1>5
<1>7. D \in SUBSET RepFrames
  BY <1>1
<1> HIDE DEF D
<1>8. Z \in Replies
  BY <1>6, <1>7 DEF Replies
<1> QED BY <1>3, <1>4, <1>8 DEF Once, Z, D

(* The state of pump_eth's loops: the bridge, the answers sent, the frames *)
(* lost.                                                                   *)
PassState == [b : BridgeType, answers : Replies, unsent : SUBSET FrameType]

(* No reply is in a queue twice.                                           *)
Distinct(tx) == \A i, j \in 1..Len(tx) : i # j /\ tx[i] \in RepFrames => tx[i] # tx[j]

(* The answers sent are among the first i frames of tx, each once.         *)
Answered(B, tx, i) == Once(B) /\ \A r \in DOMAIN B : \E j \in 1..i : r = tx[j]

(* The invariant of pump_eth's first two loops; k datagrams of the sockets *)
(* sk are read.                                                            *)
PassInv(s, k, sk, ring, last, sent) ==
  s \in PassState /\ BridgeOK(s.b) /\ Line(s.b.rx, sk, k, ring, last, sent)

(* The bridge's own frames are frames to the SP, of no client.             *)
LEMMA ControlIsFrame ==
  ASSUME NEW v \in Vids
  PROVE  Control(v) \in ToSp /\ Control(v).flow \notin Flows
<1> DEFINE c == [flow |-> 0, kind |-> "control", vid |-> v, id |-> 0]
<1>1. Control(v) = c
  BY DEF Control, Frame
<1>4. c.flow = 0 /\ c.kind = "control" /\ c.vid = v
  OBVIOUS
<1>5. 0 \in Nat /\ "control" \in Kinds /\ v \in Vids \cup {0}
  BY DEF Kinds
<1>6. c \in FrameType
  BY <1>5, Zenon DEF FrameType
<1>2. c.flow = 0 /\ c.kind = "control" /\ c.vid = v /\ c \in FrameType
  BY <1>4, <1>6
<1> HIDE DEF c
<1>3. c \in CtlFrames
  BY <1>2 DEF CtlFrames
<1> QED BY <1>1, <1>2, <1>3, EthConstants DEF ToSp

(* Learning a VLAN queues an advertisement for the SP and disturbs nothing *)
(* else.                                                                   *)
LEMMA LearnKeeps ==
  ASSUME NEW b, BridgeOK(b), NEW v \in Vids, NEW c \in Learn(b, v),
         NEW sk, Len(sk) \in Nat, NEW ring, NEW last, NEW sent, Line(b.rx, sk, 0, ring, last, sent)
  PROVE  BridgeOK(c) /\ Line(c.rx, sk, 0, ring, last, sent)
<1> DEFINE d == [b EXCEPT !.learned = b.learned \cup {v}]
<1>1. CASE v \in b.learned
  BY <1>1 DEF Learn
<1>2. CASE v \notin b.learned
  <2>1. c \in PushRx(d, Control(v))
    BY <1>2 DEF Learn
  <2>2. d \in BridgeType /\ d.rx = b.rx /\ d.evicted = b.evicted
    BY DEF BridgeOK, BridgeType
  <2> HIDE DEF d
  <2>3. BridgeOK(d) /\ Line(d.rx, sk, 0, ring, last, sent)
    BY <2>2 DEF BridgeOK
  <2>4. 0 \in Nat /\ 0 <= 0 /\ Control(v) \in ToSp /\ Control(v).flow \notin Flows
    BY ControlIsFrame
  <2> QED BY <2>1, <2>3, <2>4, PushKeeps
<1> QED BY <1>1, <1>2

(* handle_udp_tx sends a reply that was not sent before, or loses it.      *)
LEMMA SendKeeps ==
  ASSUME NEW s \in PassState, NEW tx \in Seq(FromSp), NEW i \in 1..Len(tx), Distinct(tx),
         Answered(s.answers, tx, i - 1), tx[i] \in RepFrames, NEW t \in HandleUdpTx(s, tx[i])
  PROVE  t \in PassState /\ t.b = s.b /\ Answered(t.answers, tx, i)
<1> DEFINE f == tx[i]
           z == s.answers (+) SetToBag({f})
           un == s.unsent \cup {f}
           n == Len(tx)
<1>0. i \in 1..n /\ n \in Nat
  OBVIOUS
<1>1. t = s \/ t = [s EXCEPT !.answers = z] \/ t = [s EXCEPT !.unsent = un]
  BY DEF HandleUdpTx, SendTo
<1>2. s.answers \in Replies /\ s.unsent \in SUBSET FrameType /\ s.b \in BridgeType
  BY DEF PassState
<1>3. f \notin DOMAIN s.answers
  <2> SUFFICES ASSUME f \in DOMAIN s.answers PROVE FALSE
    OBVIOUS
  <2>1. PICK j \in 1..i - 1 : f = tx[j]
    BY DEF Answered
  <2>2. j \in 1..n /\ j # i
    BY <1>0
  <2> QED BY <2>1, <2>2 DEF Distinct
<1>4. SetToBag({f}) \in Replies /\ DOMAIN SetToBag({f}) = {f} /\ Once(SetToBag({f}))
  BY BagOfOne
<1>5. z \in Replies /\ DOMAIN z = DOMAIN s.answers \cup {f} /\ Once(z)
  <2>1. Once(s.answers) /\ DOMAIN s.answers \cap DOMAIN SetToBag({f}) = {}
    BY <1>3, <1>4 DEF Answered
  <2> HIDE DEF f
  <2>2. z \in Replies /\ DOMAIN z = DOMAIN s.answers \cup DOMAIN SetToBag({f}) /\ Once(z)
    BY <1>2, <1>4, <2>1, BagsApart
  <2> QED BY <1>4, <2>2
<1>6. \A j \in 1..i - 1 : j \in 1..i
  BY <1>0
<1>7. Answered(s.answers, tx, i)
  BY <1>6 DEF Answered
<1>8. Answered(z, tx, i)
  <2>1. i \in 1..i
    BY <1>0
  <2> HIDE DEF z
  <2> QED BY <1>5, <1>7, <2>1 DEF Answered
<1>9. un \in SUBSET FrameType
  BY <1>2 DEF RepFrames
<1> HIDE DEF z, un, f
<1>10. CASE t = s
  BY <1>7, <1>10
<1>11. CASE t = [s EXCEPT !.answers = z]
  <2>1. t \in PassState /\ t.b = s.b /\ t.answers = z
    BY <1>5, <1>11 DEF PassState
  <2> QED BY <1>8, <2>1
<1>12. CASE t = [s EXCEPT !.unsent = un]
  <2>1. t \in PassState /\ t.b = s.b /\ t.answers = s.answers
    BY <1>9, <1>12 DEF PassState
  <2> QED BY <1>7, <2>1
<1> QED BY <1>1, <1>10, <1>11, <1>12

(* Each kind of frame from the SP keeps the invariant of the first loop.   *)
LEMMA ForwardKeeps ==
  ASSUME NEW s, NEW sk, Len(sk) \in Nat, NEW ring, NEW last, NEW sent, PassInv(s, 0, sk, ring, last, sent),
         NEW tx \in Seq(FromSp), NEW i \in 1..Len(tx), Distinct(tx),
         Answered(s.answers, tx, i - 1), NEW t \in Forward(s, tx[i])
  PROVE  PassInv(t, 0, sk, ring, last, sent) /\ Answered(t.answers, tx, i)
<1> DEFINE f == tx[i]
           n == Len(tx)
<1>0. i \in 1..n /\ n \in Nat
  OBVIOUS
<1>1. f \in FromSp
  OBVIOUS
<1>2. s \in PassState /\ BridgeOK(s.b) /\ Line(s.b.rx, sk, 0, ring, last, sent)
  BY DEF PassInv
<1>3. \A j \in 1..i - 1 : j \in 1..i
  BY <1>0
<1>4. Answered(s.answers, tx, i)
  BY <1>3 DEF Answered
<1>5. CASE f \in RepFrames
  <2>1. t \in HandleUdpTx(s, f)
    BY <1>5 DEF Forward, RepFrames
  <2>2. t \in PassState /\ t.b = s.b /\ Answered(t.answers, tx, i)
    BY <1>2, <1>5, <2>1, SendKeeps
  <2> QED BY <1>2, <2>2 DEF PassInv
<1>6. CASE f \in OwnFrames /\ f.kind = "ns"
  <2>0. f.kind # "reply" /\ f.vid \in Vids
    BY <1>6 DEF OwnFrames
  <2>1. PICK c \in PushRx(s.b, Control(f.vid)) : t = [s EXCEPT !.b = c]
    BY <1>6, <2>0 DEF Forward
  <2>2. 0 \in Nat /\ 0 <= 0 /\ Control(f.vid) \in ToSp /\ Control(f.vid).flow \notin Flows
    BY <2>0, ControlIsFrame
  <2>3. BridgeOK(c) /\ Line(c.rx, sk, 0, ring, last, sent)
    BY <1>2, <2>1, <2>2, PushKeeps
  <2>4. t \in PassState /\ t.b = c /\ t.answers = s.answers
    BY <1>2, <2>1, <2>3 DEF PassState, BridgeOK
  <2> QED BY <1>4, <2>3, <2>4 DEF PassInv
<1>7. CASE f \in OwnFrames /\ f.kind # "ns"
  <2>1. t = s
    BY <1>7 DEF Forward, OwnFrames
  <2> QED BY <1>4, <2>1
<1> QED BY <1>1, <1>5, <1>6, <1>7 DEF FromSp

(* handle_tx as a whole does.                                              *)
LEMMA HandleTxKeeps ==
  ASSUME NEW s, NEW sk, Len(sk) \in Nat, NEW ring, NEW last, NEW sent, PassInv(s, 0, sk, ring, last, sent),
         NEW tx \in Seq(FromSp), NEW i \in 1..Len(tx), Distinct(tx),
         Answered(s.answers, tx, i - 1), NEW t \in HandleTx(s, tx[i])
  PROVE  PassInv(t, 0, sk, ring, last, sent) /\ Answered(t.answers, tx, i)
<1> DEFINE f == tx[i]
<1>1. f.vid \in Vids
  <2>1. f \in FromSp
    OBVIOUS
  <2>2. CASE f \in RepFrames
    BY <2>2, EthConstants DEF RepFrames
  <2>3. CASE f \in OwnFrames
    BY <2>3 DEF OwnFrames
  <2> QED BY <2>1, <2>2, <2>3 DEF FromSp
<1>2. PICK c \in Learn(s.b, f.vid) : t \in Forward([s EXCEPT !.b = c], f)
  BY DEF HandleTx
<1>3. s \in PassState /\ BridgeOK(s.b) /\ Line(s.b.rx, sk, 0, ring, last, sent)
  BY DEF PassInv
<1>4. BridgeOK(c) /\ Line(c.rx, sk, 0, ring, last, sent)
  BY <1>1, <1>2, <1>3, LearnKeeps
<1> DEFINE u == [s EXCEPT !.b = c]
<1>5. u \in PassState /\ u.b = c /\ u.answers = s.answers
  BY <1>3, <1>4 DEF PassState, BridgeOK
<1> HIDE DEF u
<1>6. PassInv(u, 0, sk, ring, last, sent) /\ Answered(u.answers, tx, i - 1)
  BY <1>4, <1>5 DEF PassInv
<1>7. t \in Forward(u, f)
  BY <1>2 DEF u
<1> HIDE DEF f
<1>8. t \in Forward(u, tx[i])
  BY <1>7 DEF f
<1> QED BY <1>6, <1>8, ForwardKeeps

(* After the first loop every answer sent is one of the SP's replies, sent *)
(* once.                                                                   *)
LEMMA PassOne ==
  ASSUME NEW s, NEW sk, Len(sk) \in Nat, NEW ring, NEW last, NEW sent, PassInv(s, 0, sk, ring, last, sent),
         NEW tx \in Seq(FromSp), Distinct(tx), s.answers = EmptyBag, NEW t \in Through(HandleTx, {s}, tx)
  PROVE  PassInv(t, 0, sk, ring, last, sent) /\ Answered(t.answers, tx, Len(tx))
<1> DEFINE n == Len(tx)
<1>1. n \in Nat
  OBVIOUS
<1>2. PICK R : Trail("tx", {s}, tx, R, Through(HandleTx, {s}, tx))
  BY <1>1, ThroughTx
<1> DEFINE Q(i) == {u \in R[i] : PassInv(u, 0, sk, ring, last, sent) /\ Answered(u.answers, tx, i)}
           G == [i \in 0..n |-> Q(i)]
<1>3. \A i \in 0..n : G[i] = Q(i)
  OBVIOUS
<1>4. R[0] \subseteq G[0]
  <2>1. R[0] = {s}
    BY <1>2 DEF Trail
  <2>2. Answered(s.answers, tx, 0)
    BY BagOfNone DEF Answered
  <2>3. 0 \in 0..n
    BY <1>1
  <2> HIDE DEF G
  <2>4. G[0] = Q(0)
    BY <1>3, <2>3
  <2> QED BY <2>1, <2>2, <2>4
<1>5. ASSUME NEW i \in 1..n, NEW u \in G[i - 1], NEW v \in R[i], v \in Pass("tx", u, tx[i])
      PROVE  v \in G[i]
  <2>1. i \in 0..n /\ i - 1 \in 0..n
    BY <1>1
  <2> HIDE DEF G
  <2>2. G[i - 1] = Q(i - 1) /\ G[i] = Q(i)
    BY <1>3, <2>1
  <2>3. PassInv(u, 0, sk, ring, last, sent) /\ Answered(u.answers, tx, i - 1)
    BY <2>2
  <2>4. v \in HandleTx(u, tx[i])
    BY <1>5 DEF Pass
  <2>5. PassInv(v, 0, sk, ring, last, sent) /\ Answered(v.answers, tx, i)
    BY <2>3, <2>4, HandleTxKeeps
  <2> QED BY <2>2, <2>5
<1>6. n \in 0..n
  BY <1>1
<1>7. G[n] = Q(n)
  BY <1>3, <1>6
<1> HIDE DEF G
<1>8. Through(HandleTx, {s}, tx) \subseteq G[n]
  BY <1>1, <1>2, <1>4, <1>5, TrailInv
<1> QED BY <1>7, <1>8

(* A datagram is queued behind the earlier ones of its client, or is lost  *)
(* if its VLAN is not known.                                               *)
LEMMA HandleHostKeeps ==
  ASSUME NEW s, NEW sk \in Seq(ReqFrames), NEW k \in 1..Len(sk), NEW ring, NEW last, NEW sent,
         PassInv(s, k - 1, sk, ring, last, sent), Sorted(sk), AllFit(sk, ring, last, sent),
         NEW t \in HandleHost(s, sk[k])
  PROVE  PassInv(t, k, sk, ring, last, sent) /\ t.answers = s.answers
<1> DEFINE f == sk[k]
           p == [s.b.peers EXCEPT ![f.vid] = f.flow]
           d == [s.b EXCEPT !.peers = p]
           n == Len(sk)
           un == s.unsent \cup {f}
<1>1. n \in Nat /\ k \in 1..n /\ f \in ReqFrames /\ f \in ToSp
  BY DEF ToSp
<1>2. f \in FrameType /\ f.flow \in Flows /\ f.vid \in Vids
  BY <1>1, EthConstants DEF ReqFrames
<1>3. s \in PassState /\ BridgeOK(s.b) /\ Line(s.b.rx, sk, k - 1, ring, last, sent) /\ s.b \in BridgeType
  BY DEF PassInv, BridgeOK
<1>4. p \in [Vids -> Flows \cup {0}]
  BY <1>2, <1>3 DEF BridgeType
<1> HIDE DEF p, f
<1>5. d \in BridgeType /\ d.rx = s.b.rx /\ d.learned = s.b.learned /\ d.evicted = s.b.evicted
  BY <1>3, <1>4 DEF BridgeType
<1> HIDE DEF d
<1>6. BridgeOK(d) /\ Line(d.rx, sk, k - 1, ring, last, sent)
  BY <1>3, <1>5 DEF BridgeOK
<1>7. k - 1 \in Nat /\ k \in Nat /\ k - 1 <= k /\ k - 1 < n /\ k = (k - 1) + 1
  BY <1>1
<1>8. Line(d.rx, sk, k, ring, last, sent)
  <2>1. \A j \in k + 1..n : j \in (k - 1) + 1..n
    BY <1>1
  <2> QED BY <1>6, <2>1 DEF Line, Ahead
<1>9. CASE f.vid \notin d.learned
  <2>1. t = [s EXCEPT !.b = d, !.unsent = un]
    BY <1>9 DEF HandleHost, d, p, f
  <2>2. un \in SUBSET FrameType
    BY <1>2, <1>3 DEF PassState
  <2> HIDE DEF un
  <2>3. t \in PassState /\ t.b = d /\ t.answers = s.answers
    BY <1>3, <1>5, <2>1, <2>2 DEF PassState
  <2> QED BY <1>6, <1>8, <2>3 DEF PassInv
<1>10. CASE f.vid \in d.learned
  <2>1. PICK c \in PushRx(d, f) : t = [s EXCEPT !.b = c]
    BY <1>10 DEF HandleHost, d, p, f
  <2>2. f = sk[(k - 1) + 1] /\ Fits(f, ring, last, sent)
    BY <1>7 DEF f, AllFit
  <2>3. BridgeOK(c) /\ Line(c.rx, sk, k, ring, last, sent)
    BY <1>1, <1>6, <1>7, <2>1, <2>2, PushKeeps
  <2>4. t \in PassState /\ t.b = c /\ t.answers = s.answers
    BY <1>3, <2>1, <2>3 DEF PassState, BridgeOK
  <2> QED BY <2>3, <2>4 DEF PassInv
<1> QED BY <1>9, <1>10

(* After the second loop the sockets are read and the queue is in order.   *)
LEMMA PassTwo ==
  ASSUME NEW s, NEW sk \in Seq(ReqFrames), NEW ring, NEW last, NEW sent, PassInv(s, 0, sk, ring, last, sent),
         Sorted(sk), AllFit(sk, ring, last, sent), NEW t \in Through(HandleHost, {s}, sk)
  PROVE  PassInv(t, Len(sk), sk, ring, last, sent) /\ t.answers = s.answers
<1> DEFINE n == Len(sk)
<1>1. n \in Nat
  OBVIOUS
<1>2. PICK R : Trail("host", {s}, sk, R, Through(HandleHost, {s}, sk))
  BY <1>1, ThroughHost
<1> DEFINE Q(i) == {u \in R[i] : PassInv(u, i, sk, ring, last, sent) /\ u.answers = s.answers}
           G == [i \in 0..n |-> Q(i)]
<1>3. \A i \in 0..n : G[i] = Q(i)
  OBVIOUS
<1>4. R[0] \subseteq G[0]
  <2>1. R[0] = {s}
    BY <1>2 DEF Trail
  <2>3. 0 \in 0..n
    BY <1>1
  <2> HIDE DEF G
  <2>4. G[0] = Q(0)
    BY <1>3, <2>3
  <2> QED BY <2>1, <2>4
<1>5. ASSUME NEW i \in 1..n, NEW u \in G[i - 1], NEW v \in R[i], v \in Pass("host", u, sk[i])
      PROVE  v \in G[i]
  <2>1. i \in 0..n /\ i - 1 \in 0..n
    BY <1>1
  <2> HIDE DEF G
  <2>2. G[i - 1] = Q(i - 1) /\ G[i] = Q(i)
    BY <1>3, <2>1
  <2>3. PassInv(u, i - 1, sk, ring, last, sent) /\ u.answers = s.answers
    BY <2>2
  <2>4. v \in HandleHost(u, sk[i])
    BY <1>5 DEF Pass
  <2>5. PassInv(v, i, sk, ring, last, sent) /\ v.answers = u.answers
    BY <2>3, <2>4, HandleHostKeeps
  <2> QED BY <2>2, <2>3, <2>5
<1>6. n \in 0..n
  BY <1>1
<1>7. G[n] = Q(n)
  BY <1>3, <1>6
<1> HIDE DEF G
<1>8. Through(HandleHost, {s}, sk) \subseteq G[n]
  BY <1>1, <1>2, <1>4, <1>5, TrailInv
<1> QED BY <1>7, <1>8

-----------------------------------------------------------------------------
(* The management network: the rings                                       *)

(* The rings of the DMA.                                                   *)
SlotType == [own : BOOLEAN, frame : FrameType]
TxSlots == 0..2 * RingLen - 1
EthType == [ready : BOOLEAN, ring : [Slots -> SlotType], rx_next : Slots, irq : BOOLEAN,
            tx : [TxSlots -> SlotType], tx_frames : Seq(FromSp), pending_vid : SUBSET Vids]

(* A descriptor without a frame.                                           *)
LEMMA PlainSlots ==
  /\ Taken \in SlotType /\ Taken.own = FALSE /\ Taken.frame.flow = 0
  /\ Empty \in SlotType /\ Empty.own = TRUE
<1>1. 0 \in Nat /\ "none" \in Kinds /\ 0 \in Vids \cup {0}
  BY DEF Kinds
<1>2. NoFrame \in FrameType
  BY <1>1, FrameIsTyped DEF NoFrame
<1>3. NoFrame.flow = 0
  BY DEF NoFrame, Frame
<1> QED BY <1>2, <1>3 DEF SlotType, Taken, Empty

(* The next position of a ring.                                            *)
After(i) == IF i + 1 = RingLen THEN 0 ELSE i + 1

(* The increment of rx_next, modulo the length of the ring.                *)
LEMMA RingStep ==
  ASSUME NEW i \in Slots
  PROVE  (i + 1) % RingLen = After(i) /\ After(i) \in Slots
<1> USE EthConstants
<1>1. i \in Nat /\ i < RingLen
  BY DEF Slots
<1> DEFINE x == i + 1
           d == x \div RingLen
           r == x % RingLen
           m == RingLen * d
<1>0. x \in Nat /\ RingLen \in Nat \ {0} /\ x = i + 1
  BY <1>1
<1> HIDE DEF x
<1>2. d \in Nat /\ r \in 0..(RingLen - 1) /\ x = m + r
  BY <1>0
<1> HIDE DEF d, r, m
<1>3. i + 1 = m + r /\ r \in 0..RingLen - 1 /\ d \in Nat
  BY <1>0, <1>2
<1>5. d >= 2 => m >= 2 * RingLen
  BY <1>3 DEF m
<1>6. (d = 0 => m = 0) /\ (d = 1 => m = RingLen)
  BY DEF m
<1>7. m \in Int
  BY <1>3 DEF m
<1>8. d = 0 \/ d = 1
  BY <1>1, <1>3, <1>5, <1>7
<1>9. r = After(i)
  BY <1>1, <1>3, <1>6, <1>8 DEF After
<1> QED BY <1>3, <1>9 DEF r, x, Slots

(* The descriptors that hold frames are the segment of the ring from n,    *)
(* where the driver reads, to w, where the DMA writes; if the two meet the *)
(* ring is full or empty.                                                  *)
Seg(ring, n, w) ==
  /\ n < w => \A i \in Slots : ring[i].own = FALSE <=> (n <= i /\ i < w)
  /\ w < n => \A i \in Slots : ring[i].own = FALSE <=> (i < w \/ n <= i)
  /\ n = w => \A i, j \in Slots : ring[i].own = ring[j].own

(* Position i is before j, for a driver at n.                              *)
Comes(i, j, n) == (n <= i /\ i < j) \/ (i < j /\ j < n) \/ (n <= i /\ j < n)

(* A frame the net task has not seen.                                      *)
Waits(x, last, sent) == x.flow \in Flows => last[x.flow] < x.id /\ x.id <= Len(sent[x.flow])

(* What the descriptors hold is for the SP and was not seen before.        *)
RingFrames(ring, last, sent) ==
  \A i \in Slots : ring[i].own = FALSE => ring[i].frame \in ToSp /\ Waits(ring[i].frame, last, sent)

(* The driver will see the frames of a client in their order.              *)
RingSorted(ring, n) ==
  \A i, j \in Slots :
    ring[i].own = FALSE /\ ring[j].own = FALSE /\ Comes(i, j, n) => Earlier(ring[i].frame, ring[j].frame)

(* The RX ring, once the driver has set it up.                             *)
RingOK(ring, n, w, last, sent) == Seg(ring, n, w) /\ RingFrames(ring, last, sent) /\ RingSorted(ring, n)

(* eth_rx_inject fills the descriptor that the driver reads last, whether  *)
(* or not the ring wraps there.                                            *)
LEMMA FillKeepsSeg ==
  ASSUME NEW ring \in [Slots -> SlotType], NEW n \in Slots, NEW w \in Slots, Seg(ring, n, w), ring[w].own = TRUE,
         NEW r2 \in [Slots -> SlotType], r2[w].own = FALSE, \A i \in Slots : i # w => r2[i] = ring[i]
  PROVE  Seg(r2, n, After(w)) /\ (\A i \in Slots : ring[i].own = FALSE => Comes(i, w, n) /\ ~Comes(w, i, n))
<1> USE EthConstants
<1>1. n \in Nat /\ w \in Nat /\ n < RingLen /\ w < RingLen
  BY DEF Slots
<1>2. \A i \in Slots : i \in Nat /\ i < RingLen
  BY DEF Slots
<1>3. CASE n < w
  <2>1. \A i \in Slots : ring[i].own = FALSE <=> (n <= i /\ i < w)
    BY <1>3 DEF Seg
  <2>2. \A i \in Slots : r2[i].own = FALSE <=> (n <= i /\ i <= w)
    BY <1>1, <1>2, <1>3, <2>1
  <2>3. CASE w + 1 = RingLen /\ n = 0
    <3>1. After(w) = 0 /\ \A i \in Slots : r2[i].own = FALSE
      BY <1>1, <1>2, <2>2, <2>3 DEF After
    <3>3. \A i, j \in Slots : r2[i].own = r2[j].own
      BY <3>1, Zenon
    <3>4. ~(n < After(w)) /\ ~(After(w) < n)
      BY <1>1, <2>3, <3>1
    <3>2. Seg(r2, n, After(w))
      BY <3>3, <3>4, Zenon DEF Seg
    <3> QED BY <1>1, <1>2, <1>3, <2>1, <3>2 DEF Comes
  <2>4. CASE w + 1 = RingLen /\ n # 0
    <3>1. After(w) = 0 /\ \A i \in Slots : r2[i].own = FALSE <=> n <= i
      BY <1>1, <1>2, <2>2, <2>4 DEF After
    <3>2. Seg(r2, n, After(w))
      BY <1>1, <1>2, <2>4, <3>1 DEF Seg
    <3> QED BY <1>1, <1>2, <1>3, <2>1, <3>2 DEF Comes
  <2>5. CASE w + 1 # RingLen
    <3>1. After(w) = w + 1
      BY <2>5 DEF After
    <3>2. Seg(r2, n, After(w))
      BY <1>1, <1>2, <1>3, <2>2, <3>1 DEF Seg
    <3> QED BY <1>1, <1>2, <1>3, <2>1, <3>2 DEF Comes
  <2> QED BY <2>3, <2>4, <2>5
<1>4. CASE w < n
  <2>1. \A i \in Slots : ring[i].own = FALSE <=> (i < w \/ n <= i)
    BY <1>4 DEF Seg
  <2>2. \A i \in Slots : r2[i].own = FALSE <=> (i <= w \/ n <= i)
    BY <1>1, <1>2, <1>4, <2>1
  <2>3. After(w) = w + 1
    BY <1>1, <1>4 DEF After
  <2>4. CASE w + 1 = n
    <3>1. \A i \in Slots : r2[i].own = FALSE
      BY <1>1, <1>2, <2>2, <2>4
    <3>3. \A i, j \in Slots : r2[i].own = r2[j].own
      BY <3>1, Zenon
    <3>4. ~(n < After(w)) /\ ~(After(w) < n)
      BY <1>1, <2>3, <2>4
    <3>2. Seg(r2, n, After(w))
      BY <3>3, <3>4, Zenon DEF Seg
    <3> QED BY <1>1, <1>2, <1>4, <2>1, <3>2 DEF Comes
  <2>5. CASE w + 1 # n
    <3>2. Seg(r2, n, After(w))
      BY <1>1, <1>2, <1>4, <2>2, <2>3, <2>5 DEF Seg
    <3> QED BY <1>1, <1>2, <1>4, <2>1, <3>2 DEF Comes
  <2> QED BY <1>1, <1>4, <2>4, <2>5
<1>5. CASE n = w
  <2>1. \A i \in Slots : ring[i].own = TRUE
    BY <1>5 DEF Seg
  <2>2. \A i \in Slots : r2[i].own = FALSE <=> i = w
    BY <2>1
  <2>3. CASE w + 1 = RingLen /\ w = 0
    <3>1. After(w) = 0 /\ \A i \in Slots : r2[i].own = FALSE
      BY <1>1, <1>2, <2>2, <2>3 DEF After
    <3>2. Seg(r2, n, After(w))
      BY <1>1, <1>5, <2>3, <3>1 DEF Seg
    <3> QED BY <2>1, <3>2
  <2>4. CASE w + 1 = RingLen /\ w # 0
    <3>1. After(w) = 0
      BY <2>4 DEF After
    <3>2. Seg(r2, n, After(w))
      BY <1>1, <1>2, <1>5, <2>2, <2>4, <3>1 DEF Seg
    <3> QED BY <2>1, <3>2
  <2>5. CASE w + 1 # RingLen
    <3>1. After(w) = w + 1
      BY <2>5 DEF After
    <3>2. Seg(r2, n, After(w))
      BY <1>1, <1>2, <1>5, <2>2, <3>1 DEF Seg
    <3> QED BY <2>1, <3>2
  <2> QED BY <2>3, <2>4, <2>5
<1>6. n < w \/ w < n \/ n = w
  BY <1>1
<1> QED BY <1>3, <1>4, <1>5, <1>6, Zenon

(* eth_rx takes a frame that no remaining frame of the same client is      *)
(* before.                                                                 *)
LEMMA PopFacts ==
  ASSUME NEW b, b.rx \in Seq(ToSp), b.rx # <<>>, Sorted(b.rx)
  PROVE  \E o \in 1..Len(b.rx) : /\ PopRx(b) = [frame |-> b.rx[o], rest |-> RemoveAt(b.rx, o)]
                                 /\ \A i \in 1..Len(b.rx) - 1 : Earlier(b.rx[o], RemoveAt(b.rx, o)[i])
<1> USE EthConstants
<1> DEFINE q == b.rx
           v == NextFlow(q)
           o == Oldest(q, v)
           n == Len(q)
           w == RemoveAt(q, o)
<1>1. n \in Nat /\ 0 < n /\ 1 \in 1..n
  BY EmptySeq
<1>2. At(q, v) # {}
  <2>1. CASE Load(q, 0) > 0
    <3>1. v = 0
      BY <2>1 DEF NextFlow
    <3> QED BY <2>1, <3>1, LoadFacts
  <2>2. CASE ~(Load(q, 0) > 0)
    <3>1. v = q[1].flow
      BY <1>1, <2>2 DEF NextFlow
    <3> QED BY <1>1, <3>1 DEF At
  <2> QED BY <2>1, <2>2
<1>3. o \in 1..n /\ q[o].flow = v /\ \A i \in 1..n : q[i].flow = v => o <= i
  BY <1>2, OldestFacts
<1>4. PopRx(b) = [frame |-> q[o], rest |-> w]
  BY DEF PopRx, Without
<1>5. \A i \in 1..n - 1 : w[i] = IF i < o THEN q[i] ELSE q[i + 1]
  BY <1>3, Removal
<1>6. \A i, j \in 1..n : i < j => Earlier(q[i], q[j])
  BY DEF Sorted
<1> HIDE DEF w, v, o, q, n
<1>7. ASSUME NEW i \in 1..n - 1 PROVE Earlier(q[o], w[i])
  <2>1. CASE i < o
    <3>1. i \in 1..n /\ w[i] = q[i] /\ ~(o <= i)
      BY <1>1, <1>3, <1>5, <2>1
    <3>2. q[i].flow # q[o].flow
      BY <1>3, <3>1
    <3> QED BY <3>1, <3>2 DEF Earlier
  <2>2. CASE ~(i < o)
    <3>1. i + 1 \in 1..n /\ w[i] = q[i + 1] /\ o < i + 1
      BY <1>1, <1>3, <1>5, <2>2
    <3> QED BY <1>3, <1>6, <3>1
  <2> QED BY <2>1, <2>2
<1> QED BY <1>3, <1>4, <1>7 DEF w, n, q

(* The DMA owns the descriptor it will fill.                               *)
Room(e) == e.ring[e.rx_next].own = TRUE

(* One descriptor is filled and the others are left.                       *)
Filled(e, z, f) == /\ z.ring[e.rx_next].own = FALSE /\ z.ring[e.rx_next].frame = f
                   /\ \A i \in Slots : i # e.rx_next => z.ring[i] = e.ring[i]

(* eth_rx_inject keeps the ring in order if the frame is after those of    *)
(* its client in the ring.                                                 *)
LEMMA InjectKeeps ==
  ASSUME NEW e \in EthType, NEW n \in Slots, NEW last, NEW sent, RingOK(e.ring, n, e.rx_next, last, sent),
         Room(e), NEW f \in ToSp, Fits(f, e.ring, last, sent)
  PROVE  /\ Inject(e, f) \in EthType /\ RingOK(Inject(e, f).ring, n, Inject(e, f).rx_next, last, sent)
         /\ Inject(e, f).ready = e.ready /\ Inject(e, f).tx = e.tx /\ Inject(e, f).tx_frames = e.tx_frames
         /\ Inject(e, f).pending_vid = e.pending_vid
         /\ Filled(e, Inject(e, f), f)
<1> DEFINE w == e.rx_next
           d == [own |-> FALSE, frame |-> f]
           r == e.ring
           r2 == [r EXCEPT ![w] = d]
           z == [e EXCEPT !.ring = r2, !.rx_next = (w + 1) % RingLen, !.irq = TRUE]
<1>1. w \in Slots /\ r \in [Slots -> SlotType]
  BY DEF EthType
<1>2. d \in SlotType /\ d.own = FALSE /\ d.frame = f
  BY DEF SlotType, ToSp, ReqFrames, CtlFrames
<1>3. (w + 1) % RingLen = After(w) /\ After(w) \in Slots
  BY <1>1, RingStep
<1> HIDE DEF w, d, r
<1>4. r2 \in [Slots -> SlotType] /\ r2[w] = d /\ \A i \in Slots : i # w => r2[i] = r[i]
  BY <1>1, <1>2
<1>5. Inject(e, f) = z
  BY DEF Inject, Fill, w, d, r
<1> HIDE DEF r2
<1>6. /\ z \in EthType /\ z.ring = r2 /\ z.rx_next = After(w) /\ z.ready = e.ready /\ z.tx = e.tx
      /\ z.tx_frames = e.tx_frames /\ z.pending_vid = e.pending_vid
  BY <1>3, <1>4 DEF EthType
<1> HIDE DEF z
<1>7. Seg(r, n, w) /\ RingFrames(r, last, sent) /\ RingSorted(r, n) /\ r[w].own = TRUE
  BY DEF RingOK, r, w, Room
<1>8. Seg(r2, n, After(w)) /\ (\A i \in Slots : r[i].own = FALSE => Comes(i, w, n) /\ ~Comes(w, i, n))
  BY <1>1, <1>2, <1>4, <1>7, FillKeepsSeg
<1>9. RingFrames(r2, last, sent)
  <2>1. Waits(f, last, sent)
    BY DEF Fits, Waits
  <2> QED BY <1>2, <1>4, <1>7, <2>1 DEF RingFrames
<1>10. RingSorted(r2, n)
  <2> SUFFICES ASSUME NEW i \in Slots, NEW j \in Slots, r2[i].own = FALSE, r2[j].own = FALSE, Comes(i, j, n)
               PROVE  Earlier(r2[i].frame, r2[j].frame)
    BY DEF RingSorted
  <2>1. CASE i # w /\ j # w
    BY <1>4, <1>7, <2>1 DEF RingSorted
  <2>2. CASE i # w /\ j = w
    <3>1. r[i].own = FALSE /\ r2[i] = r[i]
      BY <1>4, <2>2
    <3>2. f.flow \in Flows => Earlier(r[i].frame, f)
      BY <3>1 DEF Fits, r
    <3>3. Earlier(r[i].frame, f)
      BY <3>2 DEF Earlier
    <3> QED BY <1>2, <1>4, <2>2, <3>1, <3>3
  <2>3. CASE i = w /\ j # w
    <3>1. r[j].own = FALSE
      BY <1>4, <2>3
    <3> QED BY <1>8, <2>3, <3>1
  <2>4. CASE i = w /\ j = w
    <3>1. ~Comes(w, w, n)
      BY <1>1, EthConstants DEF Comes, Slots
    <3> QED BY <2>4, <3>1
  <2> QED BY <2>1, <2>2, <2>3, <2>4
<1>11. RingOK(r2, n, After(w), last, sent)
  BY <1>8, <1>9, <1>10 DEF RingOK
<1> QED BY <1>2, <1>4, <1>5, <1>6, <1>11 DEF r, w, Filled

(* The state of pump_eth's last loop.                                      *)
DeliverState == [b : BridgeType, e : EthType]

(* Its invariant; e0 is the DMA before the loop, n the driver's position.  *)
DeliverInv(p, e0, n, sk, last, sent) ==
  /\ p \in DeliverState /\ BridgeOK(p.b) /\ Line(p.b.rx, sk, Len(sk), p.e.ring, last, sent)
  /\ p.e.ready = e0.ready /\ p.e.tx = e0.tx /\ p.e.tx_frames = e0.tx_frames /\ p.e.pending_vid = e0.pending_vid
  /\ e0.ready = TRUE => RingOK(p.e.ring, n, p.e.rx_next, last, sent)
  /\ e0.ready = FALSE => p.e = e0

(* One delivery keeps it.                                                  *)
LEMMA DeliverKeeps ==
  ASSUME NEW p, NEW e0, NEW n \in Slots, NEW sk, NEW last, NEW sent, DeliverInv(p, e0, n, sk, last, sent),
         NEW i, NEW t \in DeliverOne(p, i)
  PROVE  DeliverInv(t, e0, n, sk, last, sent)
<1> DEFINE b == p.b
           e == p.e
           q == b.rx
<1>1. p \in DeliverState /\ BridgeOK(b) /\ b \in BridgeType /\ e \in EthType /\ Line(q, sk, Len(sk), e.ring, last, sent) /\ q \in Seq(ToSp)
  BY DEF DeliverInv, DeliverState, BridgeOK, BridgeType
<1>2. CASE ~HasSpace(e) \/ q = <<>>
  <2>1. t = p
    BY <1>2 DEF DeliverOne
  <2> QED BY <2>1
<1>3. CASE HasSpace(e) /\ q # <<>>
  <2>1. t = [b |-> [b EXCEPT !.rx = PopRx(b).rest], e |-> Inject(e, PopRx(b).frame)]
    BY <1>3 DEF DeliverOne
  <2>2. PICK o \in 1..Len(q) : /\ PopRx(b) = [frame |-> q[o], rest |-> RemoveAt(q, o)]
                               /\ \A j \in 1..Len(q) - 1 : Earlier(q[o], RemoveAt(q, o)[j])
    BY <1>1, <1>3, PopFacts DEF Line
  <2> DEFINE f == q[o]
             w == RemoveAt(q, o)
             c == [b EXCEPT !.rx = w]
             z == Inject(e, f)
  <2>3. t = [b |-> c, e |-> z]
    BY <2>1, <2>2
  <2>4. f \in ToSp /\ w \in Seq(ToSp) /\ Len(w) = Len(q) - 1 /\ Len(q) \in Nat
    BY <1>1, <2>2, Removal
  <2>5. Line(w, sk, Len(sk), e.ring, last, sent)
    BY <1>1, <2>2, RemovalKeepsLine
  <2>6. Fits(f, e.ring, last, sent)
    BY <1>1, <2>2 DEF Line, AllFit
  <2>7. e.ready = TRUE /\ Room(e)
    <3>1. e.ready /\ e.ring[e.rx_next].own
      BY <1>3 DEF HasSpace
    <3>2. e.ready \in BOOLEAN /\ e.rx_next \in Slots /\ e.ring \in [Slots -> SlotType]
      BY <1>1 DEF EthType
    <3>3. e.ring[e.rx_next] \in SlotType
      BY <3>2
    <3>4. e.ring[e.rx_next].own \in BOOLEAN
      BY <3>3 DEF SlotType
    <3> QED BY <3>1, <3>2, <3>4 DEF Room
  <2>8. e0.ready = TRUE /\ RingOK(e.ring, n, e.rx_next, last, sent)
    BY <2>7 DEF DeliverInv
  <2>9. /\ z \in EthType /\ RingOK(z.ring, n, z.rx_next, last, sent)
        /\ z.ready = e.ready /\ z.tx = e.tx /\ z.tx_frames = e.tx_frames /\ z.pending_vid = e.pending_vid
        /\ Filled(e, z, f)
    <3>1. e \in EthType /\ f \in ToSp
      BY <1>1, <2>4
    <3> HIDE DEF f, e, w, b, q, c
    <3> QED BY <3>1, <2>6, <2>7, <2>8, InjectKeeps
  <2>10. \A j \in 1..Len(w) : Earlier(f, w[j])
    BY <2>2, <2>4
  <2> HIDE DEF w, f, z
  <2>11. c \in BridgeType /\ c.rx = w /\ c.evicted = b.evicted
    BY <1>1, <2>4 DEF BridgeType
  <2>12. BridgeOK(c)
    <3>1. Len(q) <= BacklogCap
      BY <1>1 DEF BridgeOK
    <3>2. Len(w) <= BacklogCap
      BY <2>4, <3>1, EthConstants
    <3> HIDE DEF c
    <3> QED BY <1>1, <2>11, <3>2 DEF BridgeOK
  <2> HIDE DEF c
  <2>13. t \in DeliverState /\ t.b = c /\ t.e = z
    BY <2>3, <2>9, <2>11 DEF DeliverState
  <2>14. AllFit(w, z.ring, last, sent)
    <3> SUFFICES ASSUME NEW j \in 1..Len(w), w[j].flow \in Flows,
                        NEW s \in Slots, z.ring[s].own = FALSE
                 PROVE  /\ last[w[j].flow] < w[j].id /\ w[j].id <= Len(sent[w[j].flow])
                        /\ Earlier(z.ring[s].frame, w[j])
      <4>1. \E s \in Slots : z.ring[s].own = FALSE
        <5>1. e.rx_next \in Slots /\ e.ring \in [Slots -> SlotType]
          BY <1>1 DEF EthType
        <5> QED BY <2>9, <5>1 DEF Filled
      <4> QED BY <4>1 DEF AllFit, Fits
    <3>1. Fits(w[j], e.ring, last, sent)
      BY <2>5 DEF Line, AllFit
    <3>2. e.rx_next \in Slots /\ e.ring \in [Slots -> SlotType]
      BY <1>1 DEF EthType
    <3>3. CASE s = e.rx_next
      <4>1. z.ring[s].frame = f
        BY <2>9, <3>2, <3>3 DEF Filled
      <4> QED BY <2>10, <3>1, <4>1 DEF Fits
    <3>4. CASE s # e.rx_next
      <4>1. z.ring[s] = e.ring[s]
        BY <2>9, <3>2, <3>4 DEF Filled
      <4>2. e.ring[s].own = FALSE
        BY <4>1
      <4> QED BY <3>1, <4>1, <4>2 DEF Fits
    <3> QED BY <3>3, <3>4
  <2>15. Line(c.rx, sk, Len(sk), z.ring, last, sent)
    BY <2>5, <2>11, <2>14 DEF Line
  <2>16. z.ready = e0.ready /\ z.tx = e0.tx /\ z.tx_frames = e0.tx_frames /\ z.pending_vid = e0.pending_vid
    BY <2>9 DEF DeliverInv
  <2> QED BY <2>8, <2>9, <2>12, <2>13, <2>15, <2>16 DEF DeliverInv
<1> QED BY <1>2, <1>3

(* So does the loop.                                                       *)
LEMMA PassThree ==
  ASSUME NEW p, NEW n \in Slots, NEW sk, NEW last, NEW sent, DeliverInv(p, p.e, n, sk, last, sent),
         NEW t \in Through(DeliverOne, {p}, Upto(RingLen))
  PROVE  DeliverInv(t, p.e, n, sk, last, sent)
<1> DEFINE q == Upto(RingLen)
           l == Len(q)
<1>1. l \in Nat
  <2>1. Upto(RingLen) = [i \in 1..RingLen |-> i]
    BY DEF Upto
  <2>2. [i \in 1..RingLen |-> i] \in Seq(Nat)
    BY EthConstants
  <2>3. Upto(RingLen) \in Seq(Nat)
    BY <2>1, <2>2
  <2> QED BY <2>3, LenProperties
<1>2. PICK R : Trail("deliver", {p}, q, R, Through(DeliverOne, {p}, q))
  BY <1>1, ThroughDeliver
<1> DEFINE Q(i) == {u \in R[i] : DeliverInv(u, p.e, n, sk, last, sent)}
           G == [i \in 0..l |-> Q(i)]
<1> HIDE DEF q
<1>3. \A i \in 0..l : G[i] = Q(i)
  OBVIOUS
<1>4. R[0] \subseteq G[0]
  <2>1. R[0] = {p}
    BY <1>2 DEF Trail
  <2>3. 0 \in 0..l
    BY <1>1
  <2> HIDE DEF G
  <2>4. G[0] = Q(0)
    BY <1>3, <2>3
  <2> QED BY <2>1, <2>4
<1>5. ASSUME NEW i \in 1..l, NEW u \in G[i - 1], NEW v \in R[i], v \in Pass("deliver", u, q[i])
      PROVE  v \in G[i]
  <2>1. i \in 0..l /\ i - 1 \in 0..l
    BY <1>1
  <2> HIDE DEF G
  <2>2. G[i - 1] = Q(i - 1) /\ G[i] = Q(i)
    BY <1>3, <2>1
  <2>3. DeliverInv(u, p.e, n, sk, last, sent)
    BY <2>2
  <2>4. v \in DeliverOne(u, q[i])
    BY <1>5 DEF Pass
  <2>5. DeliverInv(v, p.e, n, sk, last, sent)
    BY <2>3, <2>4, DeliverKeeps
  <2> QED BY <2>2, <2>5
<1>6. l \in 0..l
  BY <1>1
<1>7. G[l] = Q(l)
  BY <1>3, <1>6
<1> HIDE DEF G
<1>8. Through(DeliverOne, {p}, q) \subseteq G[l]
  BY <1>1, <1>2, <1>4, <1>5, TrailInv
<1> QED BY <1>7, <1>8 DEF q

(* Between two steps the walk has taken every TX descriptor.               *)
TxFree(e) == \A i \in TxSlots : e.tx[i].own = FALSE

(* The driver posts one slot: its context and its packet.                  *)
LEMMA PostedFacts ==
  ASSUME NEW e \in EthType, TxFree(e), NEW t \in Slots, NEW f \in FromSp
  PROVE  /\ Posted(e, t, f) \in EthType /\ 2 * t \in TxSlots /\ 2 * t + 1 \in TxSlots /\ 2 * t # 2 * t + 1
         /\ \A i \in TxSlots : i # 2 * t /\ i # 2 * t + 1 => Posted(e, t, f).tx[i].own = FALSE
         /\ Posted(e, t, f).tx[2 * t] = [own |-> TRUE, frame |-> Frame(0, "context", f.vid, 0)]
         /\ Posted(e, t, f).tx[2 * t + 1] = [own |-> TRUE, frame |-> [f EXCEPT !.vid = 0]]
         /\ Posted(e, t, f).ready = e.ready /\ Posted(e, t, f).ring = e.ring /\ Posted(e, t, f).rx_next = e.rx_next
         /\ Posted(e, t, f).tx_frames = e.tx_frames /\ f \in FrameType /\ f.vid \in Vids
<1> USE EthConstants
<1> DEFINE a == 2 * t
           c == 2 * t + 1
           x == [own |-> TRUE, frame |-> Frame(0, "context", f.vid, 0)]
           y == [own |-> TRUE, frame |-> [f EXCEPT !.vid = 0]]
           tx2 == [e.tx EXCEPT ![a] = x, ![c] = y]
           z == [e EXCEPT !.tx = tx2]
<1>1. a \in TxSlots /\ c \in TxSlots /\ a # c
  BY DEF Slots, TxSlots
<1>2. f \in FrameType /\ f.vid \in Vids
  BY DEF FromSp, RepFrames, OwnFrames
<1>3. x \in SlotType
  <2>2. 0 \in Nat /\ "context" \in Kinds /\ f.vid \in Vids \cup {0}
    BY <1>2 DEF Kinds
  <2>3. Frame(0, "context", f.vid, 0) \in FrameType
    BY <2>2, FrameIsTyped
  <2> QED BY <2>3 DEF SlotType
<1>4. y \in SlotType
  BY <1>2 DEF SlotType, FrameType
<1>5. e.tx \in [TxSlots -> SlotType]
  BY DEF EthType
<1> HIDE DEF a, c, x, y
<1>6. tx2 \in [TxSlots -> SlotType] /\ tx2[a] = x /\ tx2[c] = y /\ \A i \in TxSlots : i # a /\ i # c => tx2[i] = e.tx[i]
  BY <1>1, <1>3, <1>4, <1>5
<1>7. Posted(e, t, f) = z
  BY DEF Posted, a, c, x, y
<1> HIDE DEF tx2
<1>8. /\ z \in EthType /\ z.tx = tx2 /\ z.ready = e.ready /\ z.ring = e.ring /\ z.rx_next = e.rx_next
      /\ z.tx_frames = e.tx_frames
  BY <1>6 DEF EthType
<1> HIDE DEF z
<1>9. \A i \in TxSlots : i # a /\ i # c => z.tx[i].own = FALSE
  BY <1>6, <1>8 DEF TxFree
<1>10. z.tx[a] = x /\ z.tx[c] = y
  BY <1>6, <1>8
<1> QED BY <1>1, <1>2, <1>7, <1>8, <1>9, <1>10 DEF a, c, x, y

(* One TX descriptor is taken and the others are left.                     *)
TookAt(e, z, i) == z.tx[i].own = FALSE /\ \A j \in TxSlots : j # i => z.tx[j] = e.tx[j]

(* The walk takes a context descriptor and remembers its VLAN.             *)
LEMMA TakeContextFacts ==
  ASSUME NEW e \in EthType, NEW i \in TxSlots, NEW v \in Vids
  PROVE  /\ TakeContext(e, i, v) \in EthType /\ TakeContext(e, i, v).pending_vid = {v}
         /\ TookAt(e, TakeContext(e, i, v), i)
         /\ TakeContext(e, i, v).ready = e.ready /\ TakeContext(e, i, v).ring = e.ring
         /\ TakeContext(e, i, v).rx_next = e.rx_next /\ TakeContext(e, i, v).tx_frames = e.tx_frames
<1> DEFINE tx2 == [e.tx EXCEPT ![i] = Taken]
           z == [e EXCEPT !.tx = tx2, !.pending_vid = {v}]
<1>1. e.tx \in [TxSlots -> SlotType]
  BY DEF EthType
<1>2. Taken \in SlotType /\ Taken.own = FALSE
  BY PlainSlots
<1>3. tx2 \in [TxSlots -> SlotType] /\ tx2[i] = Taken /\ \A j \in TxSlots : j # i => tx2[j] = e.tx[j]
  BY <1>1, <1>2
<1>4. TakeContext(e, i, v) = z
  BY DEF TakeContext
<1> HIDE DEF tx2
<1>5. {v} \in SUBSET Vids
  OBVIOUS
<1>6. /\ z \in EthType /\ z.tx = tx2 /\ z.pending_vid = {v} /\ z.ready = e.ready /\ z.ring = e.ring
      /\ z.rx_next = e.rx_next /\ z.tx_frames = e.tx_frames
  BY <1>3, <1>5 DEF EthType
<1> HIDE DEF z
<1> QED BY <1>2, <1>3, <1>4, <1>6 DEF TookAt

(* The walk takes a packet descriptor and forgets the VLAN.                *)
LEMMA TakePacketFacts ==
  ASSUME NEW e \in EthType, NEW i \in TxSlots, NEW f \in FromSp
  PROVE  /\ TakePacket(e, i, f) \in EthType /\ TakePacket(e, i, f).pending_vid = {}
         /\ TookAt(e, TakePacket(e, i, f), i)
         /\ TakePacket(e, i, f).ready = e.ready /\ TakePacket(e, i, f).ring = e.ring
         /\ TakePacket(e, i, f).rx_next = e.rx_next /\ TakePacket(e, i, f).tx_frames = Append(e.tx_frames, f)
<1> DEFINE tx2 == [e.tx EXCEPT ![i] = Taken]
           fs == Append(e.tx_frames, f)
           z == [e EXCEPT !.tx = tx2, !.pending_vid = {}, !.irq = TRUE, !.tx_frames = fs]
<1>1. e.tx \in [TxSlots -> SlotType] /\ e.tx_frames \in Seq(FromSp)
  BY DEF EthType
<1>2. Taken \in SlotType /\ Taken.own = FALSE
  BY PlainSlots
<1>3. tx2 \in [TxSlots -> SlotType] /\ tx2[i] = Taken /\ \A j \in TxSlots : j # i => tx2[j] = e.tx[j]
  BY <1>1, <1>2
<1>4. TakePacket(e, i, f) = z
  BY DEF TakePacket
<1>5. {} \in SUBSET Vids /\ fs \in Seq(FromSp)
  BY <1>1
<1> HIDE DEF tx2, fs
<1>6. /\ z \in EthType /\ z.tx = tx2 /\ z.pending_vid = {} /\ z.ready = e.ready /\ z.ring = e.ring
      /\ z.rx_next = e.rx_next /\ z.tx_frames = fs
  BY <1>3, <1>5 DEF EthType
<1> HIDE DEF z
<1> QED BY <1>2, <1>3, <1>4, <1>6 DEF fs, TookAt

(* eth_tx_walk takes exactly the posted frame, tagged with the VLAN of its *)
(* own context: the walk passes the descriptors before the slot untouched, *)
(* meets the context, then the packet, and passes the rest.                *)
LEMMA WalkTakes ==
  ASSUME NEW e \in EthType, TxFree(e), NEW t \in Slots, NEW f \in FromSp, NEW z \in TxWalk(Posted(e, t, f))
  PROVE  /\ z \in EthType /\ TxFree(z) /\ z.ready = e.ready /\ z.ring = e.ring /\ z.rx_next = e.rx_next
         /\ z.tx_frames = Append(e.tx_frames, f)
<1> USE EthConstants
<1> DEFINE a == 2 * t
           P == Posted(e, t, f)
           A == TakeContext(P, a, f.vid)
           B == TakePacket(A, a + 1, f)
           l == 2 * RingLen
           q == [i \in 1..l |-> i - 1]
           Stage(i) == IF i <= a THEN P ELSE IF i = a + 1 THEN A ELSE B
<1>1. /\ P \in EthType /\ a \in TxSlots /\ a + 1 \in TxSlots /\ a # a + 1
      /\ \A i \in TxSlots : i # a /\ i # a + 1 => P.tx[i].own = FALSE
      /\ P.tx[a] = [own |-> TRUE, frame |-> Frame(0, "context", f.vid, 0)]
      /\ P.tx[a + 1] = [own |-> TRUE, frame |-> [f EXCEPT !.vid = 0]]
      /\ P.ready = e.ready /\ P.ring = e.ring /\ P.rx_next = e.rx_next
      /\ P.tx_frames = e.tx_frames /\ f \in FrameType /\ f.vid \in Vids
  BY PostedFacts
<1>a. a \in Nat /\ l \in Nat /\ a + 1 < l /\ TxSlots = 0..l - 1
  BY DEF Slots, TxSlots
<1> HIDE DEF P, a
<1>2. /\ A \in EthType /\ A.pending_vid = {f.vid}
      /\ TookAt(P, A, a)
      /\ A.ready = P.ready /\ A.ring = P.ring /\ A.rx_next = P.rx_next /\ A.tx_frames = P.tx_frames
  BY <1>1, TakeContextFacts
<1> HIDE DEF A
<1>3. /\ B \in EthType /\ B.pending_vid = {}
      /\ TookAt(A, B, a + 1)
      /\ B.ready = A.ready /\ B.ring = A.ring /\ B.rx_next = A.rx_next /\ B.tx_frames = Append(A.tx_frames, f)
  BY <1>1, <1>2, TakePacketFacts
<1> HIDE DEF B
<1>4. \A i \in TxSlots : B.tx[i].own = FALSE
  BY <1>1, <1>2, <1>3 DEF TookAt
<1>5. \A s, i : s.tx[i].own = FALSE => TxDescriptor(s, i) = {s}
  BY DEF TxDescriptor
<1>6. TxDescriptor(P, a) = {A}
  <2>1. P.tx[a].own = TRUE /\ P.tx[a].frame.kind = "context" /\ P.tx[a].frame.vid = f.vid
    BY <1>1 DEF Frame
  <2> QED BY <2>1, Zenon DEF TxDescriptor, A
<1>7. TxDescriptor(A, a + 1) = {B}
  <2>1. A.tx[a + 1] = [own |-> TRUE, frame |-> [f EXCEPT !.vid = 0]]
    BY <1>1, <1>2 DEF TookAt
  <2>2. A.tx[a + 1].own = TRUE /\ A.tx[a + 1].frame = [f EXCEPT !.vid = 0]
    BY <2>1
  <2>3. A.tx[a + 1].frame.kind # "context"
    <3>1. f.kind # "context"
      BY DEF FromSp, RepFrames, OwnFrames
    <3> QED BY <1>1, <2>2, <3>1 DEF FrameType
  <2>4. [A.tx[a + 1].frame EXCEPT !.vid = f.vid] = f
    BY <1>1, <2>2 DEF FrameType
  <2>5. TxDescriptor(A, a + 1) = {TakePacket(A, a + 1, [A.tx[a + 1].frame EXCEPT !.vid = v]) : v \in {f.vid}}
    BY <1>2, <2>2, <2>3 DEF TxDescriptor
  <2>6. \A v \in {f.vid} : TakePacket(A, a + 1, [A.tx[a + 1].frame EXCEPT !.vid = v]) = B
    BY <2>4 DEF B
  <2> QED BY <2>5, <2>6
<1>8. ASSUME NEW i \in 1..l PROVE Pass("walk", Stage(i - 1), q[i]) = {Stage(i)}
  <2>0. q[i] = i - 1 /\ i - 1 \in TxSlots
    BY <1>a
  <2>1. Pass("walk", Stage(i - 1), q[i]) = TxDescriptor(Stage(i - 1), i - 1)
    BY <2>0 DEF Pass
  <2>2. CASE i <= a
    <3>1. Stage(i - 1) = P /\ Stage(i) = P /\ P.tx[i - 1].own = FALSE
      BY <1>1, <1>a, <2>0, <2>2
    <3> QED BY <1>5, <2>1, <3>1
  <2>3. CASE i = a + 1
    <3>1. Stage(i - 1) = P /\ Stage(i) = A /\ i - 1 = a
      BY <1>a, <2>3
    <3> QED BY <1>6, <2>1, <3>1
  <2>4. CASE i = a + 2
    <3>1. Stage(i - 1) = A /\ Stage(i) = B /\ i - 1 = a + 1
      BY <1>a, <2>4
    <3> QED BY <1>7, <2>1, <3>1
  <2>5. CASE i > a + 2
    <3>1. Stage(i - 1) = B /\ Stage(i) = B /\ B.tx[i - 1].own = FALSE
      BY <1>4, <1>a, <2>0, <2>5
    <3> QED BY <1>5, <2>1, <3>1
  <2> QED BY <1>a, <2>2, <2>3, <2>4, <2>5
<1>9. q \in Seq(Nat) /\ Len(q) = l
  BY <1>a
<1>10. z \in Through(TxDescriptor, {P}, q)
  BY DEF TxWalk, P
<1> HIDE DEF q, l
<1>11. PICK R : Trail("walk", {P}, q, R, Through(TxDescriptor, {P}, q))
  BY <1>9, <1>a, ThroughWalk
<1> DEFINE G == [i \in 0..l |-> {Stage(i)}]
<1>12. \A i \in 0..l : G[i] = {Stage(i)}
  OBVIOUS
<1>13. Stage(0) = P /\ Stage(l) = B
  BY <1>a
<1> HIDE DEF G, Stage
<1>14. R[0] \subseteq G[0]
  <2>1. 0 \in 0..l
    BY <1>a
  <2> QED BY <1>11, <1>12, <1>13, <2>1 DEF Trail
<1>15. ASSUME NEW i \in 1..l, NEW u \in G[i - 1], NEW v \in R[i], v \in Pass("walk", u, q[i])
       PROVE  v \in G[i]
  <2>1. i \in 0..l /\ i - 1 \in 0..l
    BY <1>a
  <2>2. u = Stage(i - 1) /\ G[i] = {Stage(i)}
    BY <1>12, <2>1
  <2> QED BY <1>8, <1>15, <2>2
<1>16. Through(TxDescriptor, {P}, q) \subseteq G[Len(q)]
  BY <1>9, <1>11, <1>14, <1>15, <1>a, TrailInv
<1>17. z = B
  <2>1. l \in 0..l
    BY <1>a
  <2> QED BY <1>9, <1>10, <1>12, <1>13, <1>16, <2>1
<1> QED BY <1>1, <1>2, <1>3, <1>4, <1>17 DEF TxFree

(* The driver gives back the descriptor it reads next.                     *)
LEMMA DrainKeepsSeg ==
  ASSUME NEW ring \in [Slots -> SlotType], NEW n \in Slots, NEW w \in Slots, Seg(ring, n, w), ring[n].own = FALSE,
         NEW r2 \in [Slots -> SlotType], r2[n].own = TRUE, \A i \in Slots : i # n => r2[i] = ring[i]
  PROVE  Seg(r2, After(n), w)
<1> USE EthConstants
<1>1. n \in Nat /\ w \in Nat /\ n < RingLen /\ w < RingLen
  BY DEF Slots
<1>2. \A i \in Slots : i \in Nat /\ i < RingLen
  BY DEF Slots
<1>3. CASE n < w
  <2>1. \A i \in Slots : ring[i].own = FALSE <=> (n <= i /\ i < w)
    BY <1>3 DEF Seg
  <2>2. \A i \in Slots : r2[i].own = FALSE <=> (n < i /\ i < w)
    BY <1>1, <1>2, <1>3, <2>1
  <2>3. After(n) = n + 1
    BY <1>1, <1>3 DEF After
  <2>4. CASE n + 1 = w
    <3>1. \A i \in Slots : r2[i].own = TRUE
      <4>1. ASSUME NEW i \in Slots PROVE r2[i].own # FALSE
        <5>1. ~(n < i /\ i < w)
          BY <1>1, <1>2, <2>4
        <5> QED BY <2>2, <5>1, Zenon
      <4>2. \A i \in Slots : r2[i].own \in BOOLEAN
        BY DEF SlotType
      <4> QED BY <4>1, <4>2
    <3>3. \A i, j \in Slots : r2[i].own = r2[j].own
      BY <3>1, Zenon
    <3>4. ~(After(n) < w) /\ ~(w < After(n))
      BY <1>1, <2>3, <2>4
    <3> QED BY <3>3, <3>4, Zenon DEF Seg
  <2>5. CASE n + 1 # w
    <3>1. \A i \in Slots : r2[i].own = FALSE <=> (n + 1 <= i /\ i < w)
      BY <1>1, <1>2, <2>2
    <3>2. n + 1 < w /\ ~(w < n + 1) /\ n + 1 # w
      BY <1>1, <1>3, <2>5
    <3> QED BY <2>3, <3>1, <3>2, Zenon DEF Seg
  <2> QED BY <2>4, <2>5
<1>4. CASE w < n
  <2>1. \A i \in Slots : ring[i].own = FALSE <=> (i < w \/ n <= i)
    BY <1>4 DEF Seg
  <2>2. \A i \in Slots : r2[i].own = FALSE <=> (i < w \/ n < i)
    BY <1>1, <1>2, <1>4, <2>1
  <2>3. CASE n + 1 # RingLen
    <3>1. After(n) = n + 1 /\ w < n + 1 /\ ~(n + 1 < w) /\ n + 1 # w
      BY <1>1, <1>4, <2>3 DEF After
    <3>2. \A i \in Slots : r2[i].own = FALSE <=> (i < w \/ n + 1 <= i)
      BY <1>1, <1>2, <2>2
    <3> QED BY <3>1, <3>2, Zenon DEF Seg
  <2>4. CASE n + 1 = RingLen
    <3>1. After(n) = 0
      BY <2>4 DEF After
    <3>2. \A i \in Slots : r2[i].own = FALSE <=> (0 <= i /\ i < w)
      BY <1>1, <1>2, <2>2, <2>4
    <3>3. CASE w = 0
      <4>1. \A i \in Slots : r2[i].own = TRUE
        <5>1. ASSUME NEW i \in Slots PROVE r2[i].own # FALSE
          <6>1. ~(0 <= i /\ i < w)
            BY <1>1, <1>2, <3>3
          <6> QED BY <3>2, <6>1, Zenon
        <5>2. \A i \in Slots : r2[i].own \in BOOLEAN
          BY DEF SlotType
        <5> QED BY <5>1, <5>2
      <4>2. \A i, j \in Slots : r2[i].own = r2[j].own
        BY <4>1, Zenon
      <4>3. ~(0 < w) /\ ~(w < 0)
        BY <1>1, <3>3
      <4> QED BY <3>1, <4>2, <4>3, Zenon DEF Seg
    <3>4. CASE w # 0
      <4>1. 0 < w /\ ~(w < 0)
        BY <1>1, <3>4
      <4> QED BY <3>1, <3>2, <3>4, <4>1, Zenon DEF Seg
    <3> QED BY <3>3, <3>4
  <2> QED BY <2>3, <2>4
<1>5. CASE n = w
  <2>1. \A i \in Slots : ring[i].own = FALSE
    BY <1>5 DEF Seg
  <2>2. \A i \in Slots : r2[i].own = FALSE <=> i # n
    BY <2>1
  <2>3. CASE n + 1 # RingLen
    <3>1. After(n) = n + 1 /\ w < n + 1 /\ ~(n + 1 < w) /\ n + 1 # w
      BY <1>1, <1>5, <2>3 DEF After
    <3>2. \A i \in Slots : r2[i].own = FALSE <=> (i < w \/ n + 1 <= i)
      BY <1>1, <1>2, <1>5, <2>2
    <3> QED BY <3>1, <3>2, Zenon DEF Seg
  <2>4. CASE n + 1 = RingLen
    <3>1. After(n) = 0
      BY <2>4 DEF After
    <3>2. \A i \in Slots : r2[i].own = FALSE <=> (0 <= i /\ i < w)
      BY <1>1, <1>2, <1>5, <2>2, <2>4
    <3>3. CASE w = 0
      <4>1. \A i \in Slots : r2[i].own = TRUE
        <5>1. ASSUME NEW i \in Slots PROVE r2[i].own # FALSE
          <6>1. ~(0 <= i /\ i < w)
            BY <1>1, <1>2, <3>3
          <6> QED BY <3>2, <6>1, Zenon
        <5>2. \A i \in Slots : r2[i].own \in BOOLEAN
          BY DEF SlotType
        <5> QED BY <5>1, <5>2
      <4>2. \A i, j \in Slots : r2[i].own = r2[j].own
        BY <4>1, Zenon
      <4>3. ~(0 < w) /\ ~(w < 0)
        BY <1>1, <3>3
      <4> QED BY <3>1, <4>2, <4>3, Zenon DEF Seg
    <3>4. CASE w # 0
      <4>1. 0 < w /\ ~(w < 0)
        BY <1>1, <3>4
      <4> QED BY <3>1, <3>2, <3>4, <4>1, Zenon DEF Seg
    <3> QED BY <3>3, <3>4
  <2> QED BY <2>3, <2>4
<1>6. n < w \/ w < n \/ n = w
  BY <1>1
<1> QED BY <1>3, <1>4, <1>5, <1>6, Zenon

(* last2: what the net task has seen once it takes f.                      *)
Notes(f, last, last2) ==
  \/ f.flow \notin Flows /\ last2 = last
  \/ f.flow \in Flows /\ last2 = [last EXCEPT ![f.flow] = f.id]

(* One descriptor is given back and the others are left.                   *)
Drained(ring, r2, n) ==
  ring[n].own = FALSE /\ r2[n].own = TRUE /\ \A i \in Slots : i # n => r2[i] = ring[i]

(* What remains in the ring is in order and after the frame that was       *)
(* taken.                                                                  *)
LEMMA DrainKeepsRing ==
  ASSUME NEW ring \in [Slots -> SlotType], NEW n \in Slots, NEW w \in Slots, NEW last \in [Flows -> Nat],
         NEW sent, RingOK(ring, n, w, last, sent), NEW r2 \in [Slots -> SlotType], Drained(ring, r2, n),
         NEW last2, Notes(ring[n].frame, last, last2)
  PROVE  RingOK(r2, After(n), w, last2, sent)
<1> DEFINE f == ring[n].frame
<1>0. f \in ToSp /\ Waits(f, last, sent)
  BY DEF RingOK, RingFrames, Drained
<1>1. Seg(r2, After(n), w)
  BY DrainKeepsSeg DEF RingOK, Drained
<1>2. \A i \in Slots : r2[i].own = FALSE => i # n /\ r2[i] = ring[i] /\ ring[i].own = FALSE
  BY DEF Drained
<1>3. RingFrames(r2, last2, sent)
  <2> SUFFICES ASSUME NEW i \in Slots, r2[i].own = FALSE
               PROVE  r2[i].frame \in ToSp /\ Waits(r2[i].frame, last2, sent)
    BY DEF RingFrames
  <2>1. i # n /\ r2[i] = ring[i] /\ ring[i].own = FALSE
    BY <1>2
  <2>2. ring[i].frame \in ToSp /\ Waits(ring[i].frame, last, sent)
    BY <2>1 DEF RingOK, RingFrames
  <2>3. Comes(n, i, n)
    BY <2>1, EthConstants DEF Comes, Slots
  <2>4. Earlier(f, ring[i].frame)
    BY <2>1, <2>3 DEF RingOK, RingSorted, Drained
  <2>5. Waits(ring[i].frame, last2, sent)
    <3> DEFINE x == ring[i].frame
    <3> HIDE DEF x, f
    <3>1. Waits(x, last, sent) /\ Earlier(f, x) /\ Notes(f, last, last2)
      BY <2>2, <2>4 DEF x, f
    <3>0. SUFFICES Waits(x, last2, sent)
      BY DEF x
    <3>2. CASE f.flow \notin Flows
      BY <3>1, <3>2 DEF Notes
    <3>3. CASE f.flow \in Flows /\ x.flow = f.flow
      BY <3>1, <3>3 DEF Notes, Waits, Earlier
    <3>4. CASE f.flow \in Flows /\ x.flow # f.flow
      BY <3>1, <3>4 DEF Notes, Waits, Earlier
    <3> QED BY <3>2, <3>3, <3>4
  <2> QED BY <2>1, <2>2, <2>5
<1>4. RingSorted(r2, After(n))
  <2> SUFFICES ASSUME NEW i \in Slots, NEW j \in Slots, r2[i].own = FALSE, r2[j].own = FALSE, Comes(i, j, After(n))
               PROVE  Earlier(r2[i].frame, r2[j].frame)
    BY DEF RingSorted
  <2>1. i # n /\ j # n /\ r2[i] = ring[i] /\ r2[j] = ring[j] /\ ring[i].own = FALSE /\ ring[j].own = FALSE
    BY <1>2
  <2>2. Comes(i, j, n)
    <3>1. i \in Nat /\ j \in Nat /\ n \in Nat /\ i < RingLen /\ j < RingLen /\ n < RingLen
      BY EthConstants DEF Slots
    <3>2. CASE n + 1 = RingLen
      BY <2>1, <3>1, <3>2, EthConstants DEF Comes, After
    <3>3. CASE n + 1 # RingLen
      BY <2>1, <3>1, <3>3, EthConstants DEF Comes, After
    <3> QED BY <3>2, <3>3
  <2> QED BY <2>1, <2>2 DEF RingOK, RingSorted
<1> QED BY <1>1, <1>3, <1>4 DEF RingOK

(* So is what waits in the bridge and in the sockets.                      *)
LEMMA DrainKeepsFit ==
  ASSUME NEW ring \in [Slots -> SlotType], NEW n \in Slots, NEW last \in [Flows -> Nat],
         NEW sent, NEW q, AllFit(q, ring, last, sent), NEW r2 \in [Slots -> SlotType], Drained(ring, r2, n),
         NEW last2, Notes(ring[n].frame, last, last2)
  PROVE  AllFit(q, r2, last2, sent)
<1> SUFFICES ASSUME NEW i \in 1..Len(q) PROVE Fits(q[i], r2, last2, sent)
  BY DEF AllFit
<1> DEFINE x == q[i]
           f == ring[n].frame
<1>1. Fits(x, ring, last, sent)
  BY DEF AllFit
<1>2. Notes(f, last, last2)
  OBVIOUS
<1>3. x.flow \in Flows => Earlier(f, x)
  BY <1>1 DEF Fits, Drained
<1> HIDE DEF x, f
<1>4. SUFFICES ASSUME x.flow \in Flows
               PROVE  /\ last2[x.flow] < x.id /\ x.id <= Len(sent[x.flow])
                      /\ \A j \in Slots : r2[j].own = FALSE => Earlier(r2[j].frame, x)
  BY DEF Fits, x
<1>5. \A j \in Slots : r2[j].own = FALSE => Earlier(r2[j].frame, x)
  BY <1>1, <1>4 DEF Fits, Drained
<1>6. last[x.flow] < x.id /\ x.id <= Len(sent[x.flow])
  BY <1>1, <1>4 DEF Fits
<1>7. last2[x.flow] < x.id
  <2>1. CASE f.flow \notin Flows
    BY <1>2, <1>6, <2>1 DEF Notes
  <2>2. CASE f.flow \in Flows /\ x.flow = f.flow
    BY <1>2, <1>3, <1>4, <2>2 DEF Notes, Earlier
  <2>3. CASE f.flow \in Flows /\ x.flow # f.flow
    BY <1>2, <1>4, <1>6, <2>3 DEF Notes
  <2> QED BY <2>1, <2>2, <2>3
<1> QED BY <1>5, <1>6, <1>7

-----------------------------------------------------------------------------
(* The management network: the inductive invariant                         *)

(* The net task and the clients.                                           *)
NetType == [up : BOOLEAN, next : Slots, txnext : Slots, irq_en : BOOLEAN, note : BOOLEAN, awake : BOOLEAN,
            out : Seq(RepFrames), last : [Flows -> Nat], late : BOOLEAN, pings : Nat, resets : Nat]

MgsType == [sent : [Flows -> Seq(ReqFrames)], sockets : Seq(ReqFrames), got : Replies, unsent : SUBSET FrameType]

(* The requests of a client carry its port, its VLAN and their numbers.    *)
Numbered(sent) == \A f \in Flows : \A j \in 1..Len(sent[f]) : sent[f][j] = Frame(f, "request", View[f], j)

(* A reply to a request the net task has seen.                             *)
Seen(r, last) == 0 < r.id /\ r.id <= last[r.flow]

(* The clients got replies to requests that were seen, each once.          *)
GotOK(got, last) == Once(got) /\ \A r \in DOMAIN got : Seen(r, last)

(* The replies in the DMA's outgoing queue are distinct and nobody got     *)
(* them yet.                                                               *)
TxOK(tx, got, last) ==
  /\ Distinct(tx)
  /\ \A i \in 1..Len(tx) : tx[i] \in RepFrames => Seen(tx[i], last) /\ tx[i] \notin DOMAIN got

(* The same for those the task has to send; none of them is in the         *)
(* outgoing queue.                                                         *)
OutOK(out, tx, got, last) ==
  /\ Distinct(out)
  /\ \A i \in 1..Len(out) : Seen(out[i], last) /\ out[i] \notin DOMAIN got /\ \A j \in 1..Len(tx) : tx[j] # out[i]

(* The way out: no reply is at two places.                                 *)
RepliesOK(got, tx, out, last) == GotOK(got, last) /\ TxOK(tx, got, last) /\ OutOK(out, tx, got, last)

(* The way in: sockets, bridge queue and ring hold the requests of a       *)
(* client in their order, all after the last one seen.                     *)
RequestsOK(rx, sk, ring, last, sent) ==
  /\ Line(rx, sk, 0, ring, last, sent) /\ Sorted(sk) /\ AllFit(sk, ring, last, sent)
  /\ Numbered(sent) /\ \A f \in Flows : last[f] <= Len(sent[f])

(* The ring, before and after the driver has set it up.                    *)
RingPart(e, n, last, sent) ==
  IF e.ready = TRUE THEN RingOK(e.ring, n, e.rx_next, last, sent)
  ELSE e.rx_next = 0 /\ \A i \in Slots : e.ring[i].frame.flow = 0

(* The inductive invariant.                                                *)
EthInv ==
  /\ BridgeOK(bridge) /\ eth \in EthType /\ net \in NetType /\ mgs \in MgsType
  /\ eth.ready = net.up /\ RingPart(eth, net.next, net.last, mgs.sent) /\ TxFree(eth)
  /\ RequestsOK(bridge.rx, mgs.sockets, eth.ring, net.last, mgs.sent)
  /\ RepliesOK(mgs.got, eth.tx_frames, net.out, net.last)
  /\ net.late = FALSE

(* It holds initially.                                                     *)
LEMMA EthInitInv == EthInit => EthInv
<1> USE EthConstants
<1> SUFFICES ASSUME EthInit PROVE EthInv
  OBVIOUS
<1> DEFINE ring == [i \in Slots |-> Taken]
           last == [f \in Flows |-> 0]
           sent == [f \in Flows |-> <<>>]
           peers == [v \in Vids |-> 0]
<1>1. <<>> \in Seq(ToSp) /\ <<>> \in Seq(FromSp) /\ <<>> \in Seq(RepFrames) /\ <<>> \in Seq(ReqFrames) /\ Len(<<>>) = 0
  BY EmptySeq
<1>2. 0 \in Slots
  BY DEF Slots
<1>3. ring \in [Slots -> SlotType] /\ FreshTx \in [TxSlots -> SlotType] /\ \A i \in TxSlots : FreshTx[i].own = FALSE
  BY PlainSlots DEF FreshTx, TxSlots
<1>4. last \in [Flows -> Nat] /\ sent \in [Flows -> Seq(ReqFrames)] /\ peers \in [Vids -> Flows \cup {0}]
  BY <1>1
<1>5. \A f \in Flows : last[f] = 0 /\ sent[f] = <<>>
  OBVIOUS
<1> HIDE DEF ring, last, sent, peers
<1>6. BridgeOK(bridge) /\ bridge.rx = <<>>
  <2>1. bridge = [learned |-> {}, peers |-> peers, rx |-> <<>>, evicted |-> {}]
    BY DEF EthInit, peers
  <2>2. bridge \in BridgeType /\ bridge.rx = <<>> /\ bridge.evicted = {}
    BY <1>1, <1>4, <2>1 DEF BridgeType
  <2> QED BY <1>1, <2>2 DEF BridgeOK
<1>7. /\ eth \in EthType /\ eth.ready = FALSE /\ eth.rx_next = 0 /\ eth.tx = FreshTx /\ eth.tx_frames = <<>>
      /\ eth.ring = ring
  <2>1. eth = [ready |-> FALSE, ring |-> ring, rx_next |-> 0, irq |-> FALSE, tx |-> FreshTx, tx_frames |-> <<>>, pending_vid |-> {}]
    BY DEF EthInit, ring
  <2> QED BY <1>1, <1>2, <1>3, <2>1 DEF EthType
<1>8. net \in NetType /\ net.up = FALSE /\ net.last = last /\ net.out = <<>> /\ net.late = FALSE
  <2>1. net = [up |-> FALSE, next |-> 0, txnext |-> 0, irq_en |-> FALSE, note |-> FALSE, awake |-> FALSE,
               out |-> <<>>, last |-> last, late |-> FALSE, pings |-> 0, resets |-> 0]
    BY DEF EthInit, last
  <2> QED BY <1>1, <1>2, <1>4, <2>1 DEF NetType
<1>9. mgs \in MgsType /\ mgs.sent = sent /\ mgs.sockets = <<>> /\ mgs.got = EmptyBag
  <2>1. mgs = [sent |-> sent, sockets |-> <<>>, got |-> EmptyBag, unsent |-> {}]
    BY DEF EthInit, sent
  <2> QED BY <1>1, <1>4, <2>1, BagOfNone DEF MgsType
<1>10. TxFree(eth)
  BY <1>3, <1>7 DEF TxFree
<1>11. RequestsOK(<<>>, <<>>, ring, last, sent)
  BY <1>1, <1>5 DEF RequestsOK, Line, Sorted, AllFit, Ahead, Numbered
<1>12. RepliesOK(EmptyBag, <<>>, <<>>, last)
  BY <1>1, BagOfNone DEF RepliesOK, GotOK, TxOK, OutOK, Distinct
<1>13. RingPart(eth, net.next, net.last, mgs.sent)
  <2>1. \A i \in Slots : ring[i].frame.flow = 0
    BY PlainSlots DEF ring
  <2> QED BY <1>7, <2>1 DEF RingPart
<1> QED BY <1>6, <1>7, <1>8, <1>9, <1>10, <1>11, <1>12, <1>13 DEF EthInv

(* The interrupt and the task's notification move no frame.                *)
LEMMA FlagSteps ==
  ASSUME EthInv, EthIrq \/ OnInterrupt \/ Sleep
  PROVE  EthInv'
<1>1. eth \in EthType /\ net \in NetType
  BY DEF EthInv
<1>2. /\ eth' \in EthType /\ eth'.ready = eth.ready /\ eth'.ring = eth.ring /\ eth'.rx_next = eth.rx_next
      /\ eth'.tx = eth.tx /\ eth'.tx_frames = eth.tx_frames
  BY <1>1 DEF EthIrq, OnInterrupt, Sleep, EthType
<1>3. /\ net' \in NetType /\ net'.up = net.up /\ net'.next = net.next /\ net'.last = net.last /\ net'.out = net.out
      /\ net'.late = net.late
  BY <1>1 DEF EthIrq, OnInterrupt, Sleep, NetType
<1>4. bridge' = bridge /\ mgs' = mgs
  BY DEF EthIrq, OnInterrupt, Sleep
<1>5. RingPart(eth', net'.next, net'.last, mgs'.sent)
  BY <1>2, <1>3, <1>4 DEF EthInv, RingPart
<1>6. TxFree(eth')
  BY <1>2 DEF EthInv, TxFree
<1> QED BY <1>2, <1>3, <1>4, <1>5, <1>6 DEF EthInv

(* pump_eth: the three loops, one after the other.                         *)
LEMMA PumpStep ==
  ASSUME EthInv, Pump
  PROVE  EthInv'
<1> DEFINE sk == mgs.sockets
           ring == eth.ring
           last == net.last
           sent == mgs.sent
           n == net.next
           tx == eth.tx_frames
           s0 == [b |-> bridge, answers |-> EmptyBag, unsent |-> {}]
           e0 == [eth EXCEPT !.tx_frames = <<>>]
<1>1. BridgeOK(bridge) /\ bridge \in BridgeType /\ eth \in EthType /\ net \in NetType /\ mgs \in MgsType
  BY DEF EthInv, BridgeOK
<1>2. /\ sk \in Seq(ReqFrames) /\ n \in Slots /\ tx \in Seq(FromSp) /\ net.out \in Seq(RepFrames) /\ mgs.got \in Replies
      /\ Len(sk) \in Nat
  BY <1>1 DEF EthType, NetType, MgsType
<1>3. /\ RequestsOK(bridge.rx, sk, ring, last, sent) /\ RepliesOK(mgs.got, tx, net.out, last)
      /\ RingPart(eth, n, last, sent) /\ eth.ready = net.up /\ TxFree(eth) /\ net.late = FALSE
  BY DEF EthInv
<1>4. PassInv(s0, 0, sk, ring, last, sent) /\ s0.answers = EmptyBag
  <2>1. s0 \in PassState /\ s0.b = bridge /\ s0.answers = EmptyBag
    BY <1>1, BagOfNone DEF PassState
  <2> HIDE DEF s0
  <2> QED BY <1>1, <1>3, <2>1 DEF PassInv, RequestsOK
<1>5. PICK s1 \in Through(HandleTx, {s0}, tx) :
        \E s2 \in Through(HandleHost, {s1}, sk) :
        \E p \in Through(DeliverOne, {[b |-> s2.b, e |-> e0]}, Upto(RingLen)) :
          /\ bridge' = p.b /\ eth' = p.e
          /\ mgs' = [mgs EXCEPT !.sockets = <<>>, !.unsent = mgs.unsent \cup s2.unsent, !.got = mgs.got (+) s2.answers]
          /\ UNCHANGED net
  BY DEF Pump
<1>6. PICK s2 \in Through(HandleHost, {s1}, sk) :
        \E p \in Through(DeliverOne, {[b |-> s2.b, e |-> e0]}, Upto(RingLen)) :
          /\ bridge' = p.b /\ eth' = p.e
          /\ mgs' = [mgs EXCEPT !.sockets = <<>>, !.unsent = mgs.unsent \cup s2.unsent, !.got = mgs.got (+) s2.answers]
          /\ UNCHANGED net
  BY <1>5
<1>7. PICK p \in Through(DeliverOne, {[b |-> s2.b, e |-> e0]}, Upto(RingLen)) :
          /\ bridge' = p.b /\ eth' = p.e
          /\ mgs' = [mgs EXCEPT !.sockets = <<>>, !.unsent = mgs.unsent \cup s2.unsent, !.got = mgs.got (+) s2.answers]
          /\ UNCHANGED net
  BY <1>6
<1>8. Distinct(tx)
  BY <1>3 DEF RepliesOK, TxOK
<1> HIDE DEF sk, ring, last, sent, n, tx, s0
<1>9. PassInv(s1, 0, sk, ring, last, sent) /\ Answered(s1.answers, tx, Len(tx))
  BY <1>2, <1>4, <1>5, <1>8, PassOne
<1>10. PassInv(s2, Len(sk), sk, ring, last, sent) /\ s2.answers = s1.answers
  BY <1>2, <1>3, <1>6, <1>9, PassTwo DEF RequestsOK
<1>11. /\ e0 \in EthType /\ e0.ready = eth.ready /\ e0.ring = ring /\ e0.rx_next = eth.rx_next /\ e0.tx = eth.tx
       /\ e0.tx_frames = <<>>
  BY <1>1, EmptySeq DEF EthType, ring
<1> DEFINE p0 == [b |-> s2.b, e |-> e0]
<1> HIDE DEF e0
<1>12. p0 \in DeliverState /\ p0.b = s2.b /\ p0.e = e0 /\ BridgeOK(s2.b)
  BY <1>10, <1>11 DEF DeliverState, PassInv, BridgeOK
<1>13. p \in Through(DeliverOne, {p0}, Upto(RingLen))
  BY <1>7
<1> HIDE DEF p0
<1>14. DeliverInv(p0, p0.e, n, sk, last, sent)
  <2>1. Line(s2.b.rx, sk, Len(sk), e0.ring, last, sent)
    BY <1>10, <1>11 DEF PassInv
  <2>2. e0.ready = TRUE => RingOK(e0.ring, n, e0.rx_next, last, sent)
    BY <1>3, <1>11 DEF RingPart, ring
  <2> QED BY <1>12, <2>1, <2>2 DEF DeliverInv
<1>15. DeliverInv(p, e0, n, sk, last, sent)
  BY <1>2, <1>12, <1>13, <1>14, PassThree
<1>16. /\ bridge' = p.b /\ eth' = p.e /\ net' = net
       /\ mgs' = [mgs EXCEPT !.sockets = <<>>, !.unsent = mgs.unsent \cup s2.unsent, !.got = mgs.got (+) s2.answers]
  BY <1>7
<1> DEFINE g == mgs.got (+) s2.answers
           un == mgs.unsent \cup s2.unsent
           a == s2.answers
<1>17. a \in Replies /\ s2.unsent \in SUBSET FrameType /\ Once(a) /\ \A r \in DOMAIN a : \E j \in 1..Len(tx) : r = tx[j]
  BY <1>9, <1>10 DEF PassInv, PassState, Answered
<1>18. \A r \in DOMAIN a : r \in RepFrames
  BY <1>17 DEF Replies
<1>19. DOMAIN mgs.got \cap DOMAIN a = {}
  BY <1>3, <1>17, <1>18 DEF RepliesOK, TxOK
<1>20. Once(mgs.got)
  BY <1>3 DEF RepliesOK, GotOK
<1>21. g \in Replies /\ DOMAIN g = DOMAIN mgs.got \cup DOMAIN a /\ Once(g)
  <2> HIDE DEF a
  <2>1. g = mgs.got (+) a
    BY DEF a
  <2> QED BY <1>2, <1>17, <1>19, <1>20, <2>1, BagsApart
<1>22. un \in SUBSET FrameType
  BY <1>1, <1>17 DEF MgsType
<1> HIDE DEF g, un, a
<1>23. mgs' \in MgsType /\ mgs'.sockets = <<>> /\ mgs'.got = g /\ mgs'.sent = sent
  <2>1. mgs' = [mgs EXCEPT !.sockets = <<>>, !.unsent = un, !.got = g]
    BY <1>16 DEF g, un
  <2>2. <<>> \in Seq(ReqFrames)
    BY EmptySeq
  <2> QED BY <1>1, <1>21, <1>22, <2>1, <2>2 DEF MgsType, sent
<1>24. GotOK(g, last)
  <2> SUFFICES ASSUME NEW r \in DOMAIN g PROVE Seen(r, last)
    BY <1>21 DEF GotOK
  <2>1. CASE r \in DOMAIN mgs.got
    BY <1>3, <2>1 DEF RepliesOK, GotOK
  <2>2. CASE r \in DOMAIN a
    BY <1>3, <1>17, <1>18, <2>2 DEF RepliesOK, TxOK
  <2> QED BY <1>21, <2>1, <2>2
<1>25. Len(<<>>) = 0 /\ 1..0 = {}
  OBVIOUS
<1>26. TxOK(<<>>, g, last)
  BY <1>25 DEF TxOK, Distinct
<1>27. OutOK(net.out, <<>>, g, last)
  <2>1. OutOK(net.out, tx, mgs.got, last)
    BY <1>3 DEF RepliesOK
  <2>2. ASSUME NEW i \in 1..Len(net.out) PROVE net.out[i] \notin DOMAIN g
    BY <1>17, <1>21, <2>1 DEF OutOK
  <2> QED BY <1>25, <2>1, <2>2 DEF OutOK
<1>28. RepliesOK(g, <<>>, net.out, last)
  BY <1>24, <1>26, <1>27 DEF RepliesOK
<1>29. /\ BridgeOK(p.b) /\ p.e \in EthType /\ p.e.ready = e0.ready /\ p.e.tx = e0.tx /\ p.e.tx_frames = e0.tx_frames
       /\ Line(p.b.rx, sk, Len(sk), p.e.ring, last, sent)
  BY <1>15 DEF DeliverInv, DeliverState
<1>30. RequestsOK(p.b.rx, <<>>, p.e.ring, last, sent)
  <2>1. Sorted(p.b.rx) /\ AllFit(p.b.rx, p.e.ring, last, sent)
    BY <1>29 DEF Line
  <2>2. Ahead(p.b.rx, <<>>, 0) /\ Sorted(<<>>) /\ AllFit(<<>>, p.e.ring, last, sent)
    BY <1>25 DEF Ahead, Sorted, AllFit
  <2> QED BY <1>3, <2>1, <2>2 DEF RequestsOK, Line
<1>31. RingPart(p.e, n, last, sent)
  <2>1. CASE p.e.ready = TRUE
    BY <1>15, <1>29, <2>1 DEF DeliverInv, RingPart
  <2>2. CASE p.e.ready # TRUE
    <3>1. e0.ready = FALSE
      BY <1>11, <1>29, <2>2 DEF EthType
    <3>2. p.e = e0
      BY <1>15, <3>1 DEF DeliverInv
    <3> QED BY <1>3, <1>11, <3>1, <3>2 DEF RingPart, ring
  <2> QED BY <2>1, <2>2
<1>32. TxFree(p.e)
  BY <1>3, <1>11, <1>29 DEF TxFree
<1>33. net'.next = n /\ net'.last = last /\ net'.out = net.out
  BY <1>16 DEF n, last
<1>34. eth'.tx_frames = <<>> /\ eth'.ready = net'.up
  BY <1>3, <1>11, <1>16, <1>29
<1> QED BY <1>1, <1>3, <1>16, <1>23, <1>28, <1>29, <1>30, <1>31, <1>32, <1>33, <1>34 DEF EthInv

(* The answer to a request is a reply with its port, VLAN and number.      *)
LEMMA RequestBecomesReply ==
  ASSUME NEW f \in ReqFrames
  PROVE  /\ [f EXCEPT !.kind = "reply"] \in RepFrames /\ [f EXCEPT !.kind = "reply"].flow = f.flow
         /\ [f EXCEPT !.kind = "reply"].id = f.id
<1> DEFINE g == [f EXCEPT !.kind = "reply"]
<1>1. f \in FrameType /\ f.flow \in Flows /\ f.vid = View[f.flow] /\ "reply" \in Kinds
  BY DEF ReqFrames, Kinds
<1>2. g \in FrameType /\ g.kind = "reply" /\ g.flow = f.flow /\ g.vid = f.vid /\ g.id = f.id
  BY <1>1 DEF FrameType
<1> HIDE DEF g
<1>3. g \in RepFrames
  BY <1>1, <1>2 DEF RepFrames
<1> QED BY <1>2, <1>3 DEF g

(* The reply to a new request is a new reply.                              *)
LEMMA ReplyOutJoins ==
  ASSUME NEW got, NEW tx, NEW out \in Seq(RepFrames), NEW last \in [Flows -> Nat], RepliesOK(got, tx, out, last),
         got \in Replies, NEW g \in RepFrames, last[g.flow] < g.id, NEW last2, last2 = [last EXCEPT ![g.flow] = g.id]
  PROVE  RepliesOK(got, tx, Append(out, g), last2)
<1> DEFINE o2 == Append(out, g)
           n == Len(out)
<1>0. g.flow \in Flows /\ g.id \in Nat /\ 0 < g.id /\ last[g.flow] \in Nat
  <2>1. g.flow \in Flows /\ g.id \in Nat
    BY DEF RepFrames, FrameType
  <2>2. last[g.flow] \in Nat
    BY <2>1
  <2> QED BY <2>1, <2>2
<1>1. n \in Nat /\ Len(o2) = n + 1 /\ o2[n + 1] = g /\ \A i \in 1..n : o2[i] = out[i]
  BY AppendProperties
<1>2. ASSUME NEW r \in RepFrames, Seen(r, last) PROVE Seen(r, last2) /\ r # g
  <2>1. r.flow \in Flows /\ r.id \in Nat /\ 0 < r.id /\ r.id <= last[r.flow] /\ last[r.flow] \in Nat
    BY <1>2 DEF RepFrames, FrameType, Seen
  <2>2. CASE r.flow = g.flow
    <3>1. last2[r.flow] = g.id /\ r.id < g.id
      BY <1>0, <2>1, <2>2
    <3> QED BY <2>1, <1>0, <3>1 DEF Seen
  <2>3. CASE r.flow # g.flow
    <3>1. last2[r.flow] = last[r.flow]
      BY <2>1, <2>3
    <3> QED BY <2>1, <2>3, <3>1 DEF Seen
  <2> QED BY <2>2, <2>3
<1>3. \A r \in DOMAIN got : r \in RepFrames
  BY DEF Replies
<1>4. GotOK(got, last2)
  BY <1>2, <1>3 DEF RepliesOK, GotOK
<1>5. TxOK(tx, got, last2)
  BY <1>2 DEF RepliesOK, TxOK
<1>6. \A i \in 1..n : out[i] \in RepFrames /\ Seen(out[i], last) /\ out[i] \notin DOMAIN got /\ \A j \in 1..Len(tx) : tx[j] # out[i]
  BY DEF RepliesOK, OutOK
<1>7. g \notin DOMAIN got
  BY <1>2, <1>3 DEF RepliesOK, GotOK
<1>8. \A j \in 1..Len(tx) : tx[j] # g
  BY <1>2 DEF RepliesOK, TxOK
<1>9. Seen(g, last2)
  BY <1>0 DEF Seen
<1> HIDE DEF n, o2
<1>10. \A i \in 1..n + 1 : i = n + 1 \/ i \in 1..n
  BY <1>1
<1>11. \A i \in 1..n + 1 : Seen(o2[i], last2) /\ o2[i] \notin DOMAIN got /\ \A j \in 1..Len(tx) : tx[j] # o2[i]
  BY <1>1, <1>2, <1>6, <1>7, <1>8, <1>9, <1>10
<1>12. Distinct(o2)
  <2> SUFFICES ASSUME NEW i \in 1..n + 1, NEW j \in 1..n + 1, i # j PROVE o2[i] # o2[j]
    BY <1>1 DEF Distinct
  <2>1. \A k \in 1..n : out[k] # g
    BY <1>2, <1>6
  <2>2. \A k, m \in 1..n : k # m => out[k] # out[m]
    BY <1>6 DEF RepliesOK, OutOK, Distinct, n
  <2>3. CASE i = n + 1
    BY <1>1, <1>10, <2>1, <2>3
  <2>4. CASE j = n + 1
    BY <1>1, <1>10, <2>1, <2>4
  <2>5. CASE i \in 1..n /\ j \in 1..n
    BY <1>1, <2>2, <2>5
  <2> QED BY <1>10, <2>3, <2>4, <2>5
<1>13. OutOK(o2, tx, got, last2)
  BY <1>1, <1>11, <1>12 DEF OutOK
<1> QED BY <1>4, <1>5, <1>13 DEF RepliesOK, o2

(* The driver takes a frame; a request is answered.                        *)
LEMMA ReceiveStep ==
  ASSUME EthInv, Receive
  PROVE  EthInv'
<1> USE EthConstants
<1> DEFINE ring == eth.ring
           n == net.next
           w == eth.rx_next
           last == net.last
           sent == mgs.sent
           f == ring[n].frame
           r2 == [ring EXCEPT ![n] = Empty]
           rx == bridge.rx
           sk == mgs.sockets
           last2 == net'.last
<1>1. BridgeOK(bridge) /\ eth \in EthType /\ net \in NetType /\ mgs \in MgsType
  BY DEF EthInv
<1>2. /\ ring \in [Slots -> SlotType] /\ n \in Slots /\ w \in Slots /\ last \in [Flows -> Nat] /\ ring[n] \in SlotType
      /\ net.out \in Seq(RepFrames) /\ mgs.got \in Replies /\ ring[n].own \in BOOLEAN
  BY <1>1 DEF EthType, NetType, MgsType, SlotType
<1>3. ring[n].own = FALSE /\ net.up = TRUE
  BY <1>1, <1>2 DEF Receive, NetType
<1>4. /\ RequestsOK(rx, sk, ring, last, sent) /\ RepliesOK(mgs.got, eth.tx_frames, net.out, last)
      /\ RingOK(ring, n, w, last, sent) /\ eth.ready = TRUE /\ TxFree(eth) /\ net.late = FALSE
  BY <1>3 DEF EthInv, RingPart
<1>5. f \in ToSp /\ Waits(f, last, sent)
  BY <1>2, <1>3, <1>4 DEF RingOK, RingFrames
<1>6. r2 \in [Slots -> SlotType] /\ Drained(ring, r2, n)
  <2>1. r2 \in [Slots -> SlotType] /\ r2[n] = Empty /\ \A i \in Slots : i # n => r2[i] = ring[i]
    BY <1>2, PlainSlots
  <2> HIDE DEF r2
  <2> QED BY <1>3, <2>1, PlainSlots DEF Drained
<1>7. (n + 1) % RingLen = After(n) /\ After(n) \in Slots
  BY <1>2, RingStep
<1>8. eth' = [eth EXCEPT !.ring = r2] /\ bridge' = bridge /\ mgs' = mgs
  BY DEF Receive
<1> HIDE DEF r2
<1>9. /\ eth' \in EthType /\ eth'.ready = eth.ready /\ eth'.ring = r2 /\ eth'.rx_next = w
      /\ eth'.tx = eth.tx /\ eth'.tx_frames = eth.tx_frames
  BY <1>1, <1>6, <1>8 DEF EthType
<1> DEFINE g == [f EXCEPT !.kind = "reply"]
           o2 == Append(net.out, g)
           l2 == [last EXCEPT ![f.flow] = f.id]
           late2 == net.late \/ f.id <= last[f.flow]
<1>10. /\ net' \in NetType /\ net'.up = net.up /\ net'.next = After(n) /\ net'.late = FALSE
       /\ Notes(f, last, last2) /\ RepliesOK(mgs.got, eth.tx_frames, net'.out, last2)
       /\ \A h \in Flows : last2[h] <= Len(sent[h])
  <2>1. CASE f \in CtlFrames
    <3>1. f.kind # "request" /\ f.flow \notin Flows
      BY <2>1 DEF CtlFrames
    <3>2. net' = [net EXCEPT !.next = After(n)]
      BY <1>7, <3>1 DEF Receive
    <3>3. /\ net' \in NetType /\ net'.up = net.up /\ net'.next = After(n) /\ net'.late = net.late /\ last2 = last
          /\ net'.out = net.out
      BY <1>1, <1>7, <3>2 DEF NetType
    <3> HIDE DEF last, last2
    <3> QED BY <1>4, <3>1, <3>3 DEF Notes, RequestsOK
  <2>2. CASE f \in ReqFrames
    <3>1. f.kind = "request" /\ f.flow \in Flows /\ f.id \in Nat
      BY <2>2 DEF ReqFrames, FrameType
    <3>2. g \in RepFrames /\ g.flow = f.flow /\ g.id = f.id
      BY <2>2, RequestBecomesReply
    <3>3. last[f.flow] < f.id /\ f.id <= Len(sent[f.flow]) /\ last[f.flow] \in Nat
      BY <1>2, <1>5, <3>1 DEF Waits
    <3>4. late2 = FALSE
      <4>1. ~(f.id <= last[f.flow])
        BY <3>1, <3>3
      <4> QED BY <1>4, <4>1
    <3>5. l2 \in [Flows -> Nat] /\ o2 \in Seq(RepFrames)
      BY <1>2, <3>1, <3>2
    <3>6. net' = [net EXCEPT !.next = After(n), !.out = o2, !.last = l2, !.late = late2]
      BY <1>7, <3>1 DEF Receive
    <3>7. RepliesOK(mgs.got, eth.tx_frames, o2, l2)
      <4>0. l2 = [last EXCEPT ![g.flow] = g.id] /\ last[g.flow] < g.id
        BY <3>2, <3>3
      <4> HIDE DEF g, l2, f, last
      <4> QED BY <1>2, <1>4, <3>2, <4>0, ReplyOutJoins
    <3>8. \A h \in Flows : l2[h] <= Len(sent[h])
      BY <1>2, <1>4, <3>1, <3>3 DEF RequestsOK
    <3>9. Notes(f, last, l2)
      BY <3>1 DEF Notes
    <3> HIDE DEF l2, o2, late2
    <3>10. /\ net' \in NetType /\ net'.up = net.up /\ net'.next = After(n) /\ net'.late = late2 /\ last2 = l2
           /\ net'.out = o2
      BY <1>1, <1>7, <3>4, <3>5, <3>6 DEF NetType
    <3> QED BY <3>4, <3>7, <3>8, <3>9, <3>10
  <2> QED BY <1>5, <2>1, <2>2 DEF ToSp
<1> HIDE DEF ring, n, w, last, sent, f, rx, sk, last2
<1>11. Notes(ring[n].frame, last, last2)
  BY <1>10 DEF f
<1>12. RingOK(r2, After(n), w, last2, sent)
  BY <1>2, <1>4, <1>6, <1>11, DrainKeepsRing
<1>13. AllFit(rx, r2, last2, sent) /\ AllFit(sk, r2, last2, sent)
  <2>1. AllFit(rx, ring, last, sent) /\ AllFit(sk, ring, last, sent)
    BY <1>4 DEF RequestsOK, Line
  <2> QED BY <1>2, <1>6, <1>11, <2>1, DrainKeepsFit
<1>14. RequestsOK(rx, sk, r2, last2, sent)
  BY <1>4, <1>10, <1>13 DEF RequestsOK, Line
<1>15. RingPart(eth', net'.next, last2, sent)
  BY <1>4, <1>9, <1>10, <1>12 DEF RingPart
<1>16. TxFree(eth')
  BY <1>4, <1>9 DEF TxFree
<1>17. mgs'.sent = sent /\ mgs'.sockets = sk /\ bridge'.rx = rx /\ net'.last = last2
  BY <1>8 DEF sent, sk, rx, last2
<1> QED BY <1>1, <1>3, <1>4, <1>8, <1>9, <1>10, <1>14, <1>15, <1>16, <1>17 DEF EthInv

(* A transmission leaves the RX ring alone.                                *)
LEMMA TransmitEth ==
  ASSUME EthInv, NEW f \in FromSp, Transmit(f)
  PROVE  /\ eth' \in EthType /\ TxFree(eth') /\ eth'.ready = eth.ready /\ eth'.ring = eth.ring
         /\ eth'.rx_next = eth.rx_next /\ eth'.tx_frames = Append(eth.tx_frames, f)
<1>1. eth \in EthType /\ TxFree(eth) /\ net.txnext \in Slots
  BY DEF EthInv, NetType
<1>2. eth' \in TxWalk(Posted(eth, net.txnext, f))
  BY DEF Transmit
<1> QED BY <1>1, <1>2, WalkTakes

(* It keeps the invariant if the replies are still apart.                  *)
LEMMA TransmitKeeps ==
  ASSUME EthInv, NEW f \in FromSp, Transmit(f), net' \in NetType, net'.up = net.up, net'.next = net.next,
         net'.last = net.last, net'.late = net.late,
         RepliesOK(mgs.got, Append(eth.tx_frames, f), net'.out, net.last)
  PROVE  EthInv'
<1>1. /\ eth' \in EthType /\ TxFree(eth') /\ eth'.ready = eth.ready /\ eth'.ring = eth.ring
      /\ eth'.rx_next = eth.rx_next /\ eth'.tx_frames = Append(eth.tx_frames, f)
  BY TransmitEth
<1>2. bridge' = bridge /\ mgs' = mgs
  BY DEF Transmit
<1>3. RingPart(eth', net'.next, net'.last, mgs'.sent)
  BY <1>1, <1>2 DEF EthInv, RingPart
<1> QED BY <1>1, <1>2, <1>3 DEF EthInv

(* They are if the oldest reply of the task moves to the outgoing queue.   *)
LEMMA ReplyLeaves ==
  ASSUME NEW got, NEW tx \in Seq(FromSp), NEW out \in Seq(RepFrames), out # <<>>, NEW last, RepliesOK(got, tx, out, last)
  PROVE  RepliesOK(got, Append(tx, Head(out)), Tail(out), last)
<1> DEFINE f == Head(out)
           t2 == Append(tx, f)
           o2 == Tail(out)
           n == Len(tx)
           m == Len(out)
<1>1. n \in Nat /\ Len(t2) = n + 1 /\ t2[n + 1] = f /\ \A i \in 1..n : t2[i] = tx[i]
  <2>1. f \in FromSp
    BY DEF FromSp
  <2> QED BY <2>1, AppendProperties
<1>2. m \in Nat /\ 0 < m /\ f = out[1]
  BY EmptySeq
<1>3. Len(o2) = m - 1 /\ \A i \in 1..m - 1 : o2[i] = out[i + 1]
  BY HeadTailProperties
<1>4. \A i \in 1..m : out[i] \in RepFrames /\ Seen(out[i], last) /\ out[i] \notin DOMAIN got
  BY DEF RepliesOK, OutOK
<1>5. \A i \in 1..m : \A j \in 1..n : tx[j] # out[i]
  BY DEF RepliesOK, OutOK
<1>6. \A i, j \in 1..m : i # j => out[i] # out[j]
  BY <1>4 DEF RepliesOK, OutOK, Distinct
<1>7. \A i, j \in 1..n : i # j /\ tx[i] \in RepFrames => tx[i] # tx[j]
  BY DEF RepliesOK, TxOK, Distinct
<1>8. \A i \in 1..n : tx[i] \in RepFrames => Seen(tx[i], last) /\ tx[i] \notin DOMAIN got
  BY DEF RepliesOK, TxOK
<1>9. GotOK(got, last)
  BY DEF RepliesOK
<1> HIDE DEF f, t2, o2, n, m
<1>10. \A i \in 1..n + 1 : i = n + 1 \/ i \in 1..n
  BY <1>1
<1>11. 1 \in 1..m
  BY <1>2
<1>12. TxOK(t2, got, last)
  <2>1. Distinct(t2)
    <3> SUFFICES ASSUME NEW i \in 1..n + 1, NEW j \in 1..n + 1, i # j, t2[i] \in RepFrames PROVE t2[i] # t2[j]
      BY <1>1 DEF Distinct
    <3>1. CASE i = n + 1
      BY <1>1, <1>2, <1>5, <1>10, <1>11, <3>1
    <3>2. CASE j = n + 1
      BY <1>1, <1>2, <1>5, <1>10, <1>11, <3>2
    <3>3. CASE i \in 1..n /\ j \in 1..n
      BY <1>1, <1>7, <3>3
    <3> QED BY <1>10, <3>1, <3>2, <3>3
  <2>2. ASSUME NEW i \in 1..n + 1, t2[i] \in RepFrames PROVE Seen(t2[i], last) /\ t2[i] \notin DOMAIN got
    BY <1>1, <1>2, <1>4, <1>8, <1>10, <1>11, <2>2
  <2> QED BY <1>1, <2>1, <2>2 DEF TxOK
<1>13. ASSUME NEW i \in 1..m - 1 PROVE i + 1 \in 1..m /\ o2[i] = out[i + 1] /\ i + 1 # 1
  BY <1>2, <1>3
<1>14. OutOK(o2, t2, got, last)
  <2>1. Distinct(o2)
    <3> SUFFICES ASSUME NEW i \in 1..m - 1, NEW j \in 1..m - 1, i # j PROVE o2[i] # o2[j]
      BY <1>3 DEF Distinct
    <3>1. i + 1 # j + 1
      BY <1>2
    <3> QED BY <1>6, <1>13, <3>1
  <2>2. ASSUME NEW i \in 1..m - 1 PROVE Seen(o2[i], last) /\ o2[i] \notin DOMAIN got
    BY <1>4, <1>13
  <2>3. ASSUME NEW i \in 1..m - 1, NEW j \in 1..n + 1 PROVE t2[j] # o2[i]
    <3>1. CASE j = n + 1
      BY <1>1, <1>2, <1>6, <1>11, <1>13, <3>1
    <3>2. CASE j \in 1..n
      BY <1>1, <1>5, <1>13, <3>2
    <3> QED BY <1>10, <3>1, <3>2
  <2> QED BY <1>1, <1>3, <2>1, <2>2, <2>3 DEF OutOK
<1> QED BY <1>9, <1>12, <1>14 DEF RepliesOK, t2, o2, f

(* And if the frame is one of the SP's own.                                *)
LEMMA OwnLeaves ==
  ASSUME NEW got, NEW tx \in Seq(FromSp), NEW out \in Seq(RepFrames), NEW last, RepliesOK(got, tx, out, last),
         NEW f \in OwnFrames
  PROVE  RepliesOK(got, Append(tx, f), out, last)
<1> DEFINE t2 == Append(tx, f)
           n == Len(tx)
<1>1. n \in Nat /\ Len(t2) = n + 1 /\ t2[n + 1] = f /\ \A i \in 1..n : t2[i] = tx[i]
  <2>1. f \in FromSp
    BY DEF FromSp
  <2> QED BY <2>1, AppendProperties
<1>2. f \notin RepFrames
  BY DEF OwnFrames, RepFrames
<1>7. \A i, j \in 1..n : i # j /\ tx[i] \in RepFrames => tx[i] # tx[j]
  BY DEF RepliesOK, TxOK, Distinct
<1>8. \A i \in 1..n : tx[i] \in RepFrames => Seen(tx[i], last) /\ tx[i] \notin DOMAIN got
  BY DEF RepliesOK, TxOK
<1>9. GotOK(got, last) /\ OutOK(out, tx, got, last)
  BY DEF RepliesOK
<1> HIDE DEF t2, n
<1>10. \A i \in 1..n + 1 : i = n + 1 \/ i \in 1..n
  BY <1>1
<1>12. TxOK(t2, got, last)
  <2>1. Distinct(t2)
    <3> SUFFICES ASSUME NEW i \in 1..n + 1, NEW j \in 1..n + 1, i # j, t2[i] \in RepFrames PROVE t2[i] # t2[j]
      BY <1>1 DEF Distinct
    <3>1. i \in 1..n /\ t2[i] = tx[i]
      BY <1>1, <1>2, <1>10
    <3>2. CASE j = n + 1
      BY <1>1, <1>2, <3>2
    <3>3. CASE j \in 1..n
      BY <1>1, <1>7, <3>1, <3>3
    <3> QED BY <1>10, <3>2, <3>3
  <2>2. ASSUME NEW i \in 1..n + 1, t2[i] \in RepFrames PROVE Seen(t2[i], last) /\ t2[i] \notin DOMAIN got
    BY <1>1, <1>2, <1>8, <1>10, <2>2
  <2> QED BY <1>1, <2>1, <2>2 DEF TxOK
<1>13. OutOK(out, t2, got, last)
  <2>1. ASSUME NEW i \in 1..Len(out), NEW j \in 1..n + 1 PROVE t2[j] # out[i]
    <3>1. CASE j = n + 1
      BY <1>1, <1>2, <3>1
    <3>2. CASE j \in 1..n
      BY <1>1, <1>9, <3>2 DEF OutOK, n
    <3> QED BY <1>10, <3>1, <3>2
  <2> QED BY <1>1, <1>9, <2>1 DEF OutOK
<1> QED BY <1>9, <1>12, <1>13 DEF RepliesOK, t2

(* The task sends a reply.                                                 *)
LEMMA SendReplyStep ==
  ASSUME EthInv, SendReply
  PROVE  EthInv'
<1> DEFINE f == Head(net.out)
           o2 == Tail(net.out)
<1>1. net \in NetType /\ net.out \in Seq(RepFrames) /\ net.out # <<>> /\ Transmit(f) /\ eth.tx_frames \in Seq(FromSp)
  BY DEF EthInv, NetType, EthType, SendReply
<1>2. f \in RepFrames /\ f \in FromSp /\ f.kind = "reply" /\ o2 \in Seq(RepFrames)
  BY <1>1 DEF FromSp, RepFrames
<1>3. net.txnext \in Slots /\ net.pings \in Nat
  BY <1>1 DEF NetType
<1>4. (net.txnext + 1) % RingLen \in Slots
  BY <1>3, RingStep
<1>5. net' = [net EXCEPT !.txnext = (net.txnext + 1) % RingLen, !.out = o2, !.pings = net.pings]
  BY <1>1, <1>2 DEF Transmit
<1>6. RepliesOK(mgs.got, eth.tx_frames, net.out, net.last)
  BY DEF EthInv
<1>7. RepliesOK(mgs.got, Append(eth.tx_frames, f), o2, net.last)
  BY <1>1, <1>6, ReplyLeaves
<1> HIDE DEF f, o2
<1>8. /\ net' \in NetType /\ net'.up = net.up /\ net'.next = net.next /\ net'.last = net.last /\ net'.late = net.late
      /\ net'.out = o2
  BY <1>1, <1>2, <1>3, <1>4, <1>5 DEF NetType
<1> QED BY <1>1, <1>2, <1>7, <1>8, TransmitKeeps

(* The task sends a frame of its own.                                      *)
LEMMA SendOwnStep ==
  ASSUME EthInv, NEW kind \in {"ns", "beacon"}, NEW vid \in Vids, SendOwn(kind, vid)
  PROVE  EthInv'
<1> DEFINE f == Frame(0, kind, vid, 0)
<1>1. net \in NetType /\ net.out \in Seq(RepFrames) /\ Transmit(f) /\ eth.tx_frames \in Seq(FromSp)
  BY DEF EthInv, NetType, EthType, SendOwn
<1>2. f \in OwnFrames /\ f \in FromSp /\ f.kind # "reply"
  <2>1. 0 \in Nat /\ kind \in Kinds /\ vid \in Vids \cup {0}
    BY DEF Kinds
  <2>2. f \in FrameType
    BY <2>1, FrameIsTyped
  <2>3. f.flow = 0 /\ f.kind = kind /\ f.vid = vid
    BY DEF Frame
  <2> HIDE DEF f
  <2> QED BY <2>2, <2>3 DEF OwnFrames, FromSp
<1> HIDE DEF f
<1>3. net.txnext \in Slots /\ net.pings \in Nat /\ net.pings + 1 \in Nat
  BY <1>1 DEF NetType
<1>4. (net.txnext + 1) % RingLen \in Slots
  BY <1>3, RingStep
<1>5. net' = [net EXCEPT !.txnext = (net.txnext + 1) % RingLen, !.out = net.out, !.pings = net.pings + 1]
  BY <1>1, <1>2 DEF Transmit
<1>6. RepliesOK(mgs.got, eth.tx_frames, net.out, net.last)
  BY DEF EthInv
<1>7. RepliesOK(mgs.got, Append(eth.tx_frames, f), net.out, net.last)
  BY <1>1, <1>2, <1>6, OwnLeaves
<1>8. /\ net' \in NetType /\ net'.up = net.up /\ net'.next = net.next /\ net'.last = net.last /\ net'.late = net.late
      /\ net'.out = net.out
  BY <1>1, <1>3, <1>4, <1>5 DEF NetType
<1> QED BY <1>1, <1>2, <1>7, <1>8, TransmitKeeps

(* The driver sets up the rings where the DMA starts.                      *)
LEMMA NetStartStep ==
  ASSUME EthInv, NetStart
  PROVE  EthInv'
<1> USE EthConstants
<1> DEFINE r2 == [i \in Slots |-> Empty]
           last == net.last
           sent == mgs.sent
<1>1. BridgeOK(bridge) /\ eth \in EthType /\ net \in NetType /\ mgs \in MgsType
  BY DEF EthInv
<1>2. net.up = FALSE /\ eth.ready = FALSE /\ eth.rx_next = 0
  BY <1>1 DEF EthInv, NetStart, NetType, RingPart
<1>3. r2 \in [Slots -> SlotType] /\ (\A i \in Slots : r2[i].own = TRUE)
      /\ FreshTx \in [TxSlots -> SlotType] /\ \A i \in TxSlots : FreshTx[i].own = FALSE
  BY PlainSlots DEF FreshTx, TxSlots
<1>4. 0 \in Slots /\ <<>> \in Seq(RepFrames)
  BY EmptySeq DEF Slots
<1>5. eth' = [eth EXCEPT !.ready = TRUE, !.ring = r2, !.tx = FreshTx] /\ bridge' = bridge /\ mgs' = mgs
  BY DEF NetStart
<1>6. net' = [net EXCEPT !.up = TRUE, !.next = 0, !.txnext = 0, !.irq_en = TRUE, !.note = FALSE, !.awake = TRUE, !.out = <<>>]
  BY DEF NetStart
<1> HIDE DEF r2
<1>7. /\ eth' \in EthType /\ eth'.ready = TRUE /\ eth'.ring = r2 /\ eth'.tx = FreshTx /\ eth'.rx_next = 0
      /\ eth'.tx_frames = eth.tx_frames
  BY <1>1, <1>2, <1>3, <1>5 DEF EthType
<1>8. net' \in NetType /\ net'.up = TRUE /\ net'.next = 0 /\ net'.out = <<>> /\ net'.last = last /\ net'.late = net.late
  BY <1>1, <1>4, <1>6 DEF NetType
<1>9. RingOK(r2, 0, 0, last, sent)
  <2>1. \A i \in Slots : ~(r2[i].own = FALSE)
    BY <1>3
  <2>2. \A i, j \in Slots : r2[i].own = r2[j].own
    BY <1>3, Zenon
  <2>3. Seg(r2, 0, 0)
    BY <2>2 DEF Seg
  <2> QED BY <2>1, <2>3 DEF RingOK, RingFrames, RingSorted
<1>10. ASSUME NEW q, AllFit(q, eth.ring, last, sent) PROVE AllFit(q, r2, last, sent)
  BY <1>3, <1>10 DEF AllFit, Fits
<1>11. RequestsOK(bridge.rx, mgs.sockets, r2, last, sent)
  BY <1>10 DEF EthInv, RequestsOK, Line
<1>12. RepliesOK(mgs.got, eth.tx_frames, <<>>, last)
  <2>1. Len(<<>>) = 0 /\ 1..0 = {}
    OBVIOUS
  <2> QED BY <2>1 DEF EthInv, RepliesOK, OutOK, Distinct
<1>13. TxFree(eth')
  BY <1>3, <1>7 DEF TxFree
<1>14. RingPart(eth', net'.next, net'.last, mgs'.sent)
  BY <1>5, <1>7, <1>8, <1>9 DEF RingPart
<1> QED BY <1>1, <1>5, <1>7, <1>8, <1>11, <1>12, <1>13, <1>14 DEF EthInv

(* A frame that waits still does when more are sent.                       *)
LEMMA MoreSentFits ==
  ASSUME NEW q, NEW ring, NEW last, NEW sent, AllFit(q, ring, last, sent),
         NEW s2, \A h \in Flows : Len(sent[h]) \in Nat /\ Len(s2[h]) \in Nat /\ Len(sent[h]) <= Len(s2[h]),
         \A i \in 1..Len(q) : q[i] \in ToSp
  PROVE  AllFit(q, ring, last, s2)
<1> SUFFICES ASSUME NEW i \in 1..Len(q), q[i].flow \in Flows PROVE q[i].id <= Len(s2[q[i].flow])
  BY DEF AllFit, Fits
<1>1. q[i].id <= Len(sent[q[i].flow])
  BY DEF AllFit, Fits
<1>2. q[i].id \in Nat
  BY DEF ToSp, ReqFrames, CtlFrames, FrameType
<1> QED BY <1>1, <1>2

(* A client sends its next request.                                        *)
LEMMA RequestStep ==
  ASSUME EthInv, NEW f \in Flows, Request(f)
  PROVE  EthInv'
<1> USE EthConstants
<1> DEFINE sent == mgs.sent
           sk == mgs.sockets
           ring == eth.ring
           last == net.last
           rx == bridge.rx
           k == Len(sent[f]) + 1
           r == Frame(f, "request", View[f], k)
           sf == Append(sent[f], r)
           s2 == [sent EXCEPT ![f] = sf]
           sk2 == Append(sk, r)
<1>1. BridgeOK(bridge) /\ eth \in EthType /\ net \in NetType /\ mgs \in MgsType
  BY DEF EthInv
<1>2. sent \in [Flows -> Seq(ReqFrames)] /\ sk \in Seq(ReqFrames) /\ last \in [Flows -> Nat] /\ rx \in Seq(ToSp)
  BY <1>1 DEF MgsType, NetType, BridgeOK, BridgeType
<1>3. sent[f] \in Seq(ReqFrames) /\ Len(sent[f]) \in Nat /\ k \in Nat /\ \A h \in Flows : Len(sent[h]) \in Nat
  <2>1. \A h \in Flows : sent[h] \in Seq(ReqFrames)
    BY <1>2
  <2> QED BY <2>1, LenProperties
<1>4. r \in ReqFrames /\ r.flow = f /\ r.id = k
  <2>1. f \in Nat /\ "request" \in Kinds /\ View[f] \in Vids \cup {0}
    BY DEF Kinds
  <2>2. r \in FrameType
    BY <1>3, <2>1, FrameIsTyped
  <2>3. r.flow = f /\ r.kind = "request" /\ r.vid = View[f] /\ r.id = k
    BY DEF Frame
  <2> HIDE DEF r
  <2> QED BY <2>2, <2>3 DEF ReqFrames
<1>5. mgs' = [mgs EXCEPT !.sent = s2, !.sockets = sk2] /\ bridge' = bridge /\ eth' = eth /\ net' = net
  BY DEF Request
<1> HIDE DEF r
<1>6. sf \in Seq(ReqFrames) /\ Len(sf) = k /\ sf[k] = r /\ \A j \in 1..Len(sent[f]) : sf[j] = sent[f][j]
  BY <1>3, <1>4, AppendProperties
<1>7. sk2 \in Seq(ReqFrames)
  BY <1>2, <1>4
<1> HIDE DEF sf, sk2
<1>8. s2 \in [Flows -> Seq(ReqFrames)] /\ s2[f] = sf /\ \A h \in Flows : h # f => s2[h] = sent[h]
  BY <1>2, <1>6
<1> HIDE DEF s2
<1>9. mgs' \in MgsType /\ mgs'.sent = s2 /\ mgs'.sockets = sk2 /\ mgs'.got = mgs.got
  BY <1>1, <1>5, <1>7, <1>8 DEF MgsType
<1>10. \A h \in Flows : Len(s2[h]) \in Nat /\ Len(sent[h]) <= Len(s2[h])
  <2>1. Len(s2[f]) = k /\ Len(sent[f]) <= k
    BY <1>3, <1>6, <1>8
  <2> QED BY <1>3, <1>8, <2>1
<1>11. RequestsOK(rx, sk, ring, last, sent)
  BY DEF EthInv
<1>12. Numbered(s2)
  <2> SUFFICES ASSUME NEW h \in Flows, NEW j \in 1..Len(s2[h]) PROVE s2[h][j] = Frame(h, "request", View[h], j)
    BY DEF Numbered
  <2>1. CASE h # f
    BY <1>8, <1>11, <2>1 DEF RequestsOK, Numbered
  <2>2. CASE h = f
    <3>1. s2[h] = sf /\ j \in 1..k
      BY <1>6, <1>8, <2>2
    <3>2. CASE j = k
      BY <1>6, <2>2, <3>1, <3>2 DEF r
    <3>3. CASE j # k
      <4>1. j \in 1..Len(sent[f])
        BY <1>3, <3>1, <3>3
      <4> QED BY <1>6, <1>11, <2>2, <3>1, <4>1 DEF RequestsOK, Numbered
    <3> QED BY <3>2, <3>3
  <2> QED BY <2>1, <2>2
<1> DEFINE n == Len(sk)
<1>13. n \in Nat /\ Len(sk2) = n + 1 /\ sk2[n + 1] = r /\ \A i \in 1..n : sk2[i] = sk[i]
  BY <1>2, <1>4, AppendProperties DEF sk2
<1>14. \A i \in 1..Len(rx) : rx[i] \in ToSp /\ Fits(rx[i], ring, last, sent)
  BY <1>2, <1>11 DEF RequestsOK, Line, AllFit
<1>15. \A i \in 1..n : sk[i] \in ToSp /\ Fits(sk[i], ring, last, sent)
  BY <1>2, <1>11 DEF RequestsOK, AllFit, ToSp
<1>16. AllFit(rx, ring, last, s2) /\ AllFit(sk, ring, last, s2)
  <2>1. AllFit(rx, ring, last, sent) /\ AllFit(sk, ring, last, sent)
    BY <1>11 DEF RequestsOK, Line
  <2> HIDE DEF sent, rx, sk, last, ring, k
  <2>2. \A h \in Flows : Len(sent[h]) \in Nat /\ Len(s2[h]) \in Nat /\ Len(sent[h]) <= Len(s2[h])
    BY <1>3, <1>10
  <2> QED BY <1>14, <1>15, <2>1, <2>2, MoreSentFits
<1>17. \A x \in ToSp : Fits(x, ring, last, sent) => Earlier(x, r)
  <2> SUFFICES ASSUME NEW x \in ToSp, Fits(x, ring, last, sent), x.flow = f PROVE x.id < k
    BY <1>4 DEF Earlier
  <2>1. x.id \in Nat /\ x.id <= Len(sent[f])
    BY DEF Fits, ToSp, ReqFrames, CtlFrames, FrameType
  <2> QED BY <1>3, <2>1
<1>18. Fits(r, ring, last, s2)
  <2>1. last[f] < k /\ k <= Len(s2[f])
    <3>1. last[f] <= Len(sent[f]) /\ last[f] \in Nat
      BY <1>2, <1>11 DEF RequestsOK
    <3>2. Len(s2[f]) = k
      BY <1>6, <1>8
    <3> QED BY <1>3, <3>1, <3>2
  <2>2. ASSUME NEW i \in Slots, ring[i].own = FALSE PROVE Earlier(ring[i].frame, r)
    <3>1. CASE eth.ready = TRUE
      <4>1. ring[i].frame \in ToSp /\ Waits(ring[i].frame, last, sent)
        BY <2>2, <3>1 DEF EthInv, RingPart, RingOK, RingFrames
      <4>2. SUFFICES ASSUME ring[i].frame.flow = f PROVE ring[i].frame.id < k
        BY <1>4 DEF Earlier
      <4>3. ring[i].frame.id \in Nat /\ ring[i].frame.id <= Len(sent[f])
        BY <4>1, <4>2 DEF Waits, ToSp, ReqFrames, CtlFrames, FrameType
      <4> QED BY <1>3, <4>3
    <3>2. CASE eth.ready = FALSE
      <4>1. ring[i].frame.flow \notin Flows
        BY <2>2, <3>2 DEF EthInv, RingPart
      <4> QED BY <4>1 DEF Earlier
    <3> QED BY <1>1, <3>1, <3>2 DEF EthType
  <2> QED BY <1>4, <2>1, <2>2 DEF Fits
<1> HIDE DEF sk, sent, ring, last, rx, n, k
<1>19. \A i \in 1..n + 1 : i = n + 1 \/ i \in 1..n
  BY <1>13
<1>20. AllFit(sk2, ring, last, s2)
  BY <1>13, <1>16, <1>18, <1>19 DEF AllFit, n
<1>21. Sorted(sk2)
  <2> SUFFICES ASSUME NEW i \in 1..n + 1, NEW j \in 1..n + 1, i < j PROVE Earlier(sk2[i], sk2[j])
    BY <1>13 DEF Sorted
  <2>1. i \in 1..n
    BY <1>13
  <2>2. CASE j = n + 1
    BY <1>13, <1>15, <1>17, <2>1, <2>2
  <2>3. CASE j \in 1..n
    BY <1>11, <1>13, <2>1, <2>3 DEF RequestsOK, Sorted, n
  <2> QED BY <1>19, <2>2, <2>3
<1>22. Ahead(rx, sk2, 0)
  <2> SUFFICES ASSUME NEW i \in 1..Len(rx), NEW j \in 0 + 1..n + 1 PROVE Earlier(rx[i], sk2[j])
    BY <1>13 DEF Ahead
  <2>1. CASE j = n + 1
    BY <1>13, <1>14, <1>17, <2>1
  <2>2. CASE j \in 1..n
    <3>1. j \in 0 + 1..n
      BY <2>2
    <3> QED BY <1>11, <1>13, <2>2, <3>1 DEF RequestsOK, Line, Ahead, n
  <2>3. j \in 1..n + 1
    OBVIOUS
  <2> QED BY <1>19, <2>1, <2>2, <2>3
<1>23. \A h \in Flows : last[h] <= Len(s2[h])
  <2>1. \A h \in Flows : last[h] <= Len(sent[h]) /\ last[h] \in Nat
    BY <1>2, <1>11 DEF RequestsOK
  <2> QED BY <1>3, <1>10, <2>1
<1>24. RequestsOK(rx, sk2, ring, last, s2)
  BY <1>11, <1>12, <1>16, <1>20, <1>21, <1>22, <1>23 DEF RequestsOK, Line
<1>25. RingPart(eth, net.next, last, s2)
  <2>0. RingPart(eth, net.next, last, sent)
    BY DEF EthInv, last, sent
  <2>1. CASE eth.ready = TRUE
    <3>1. RingOK(eth.ring, net.next, eth.rx_next, last, sent)
      BY <2>0, <2>1 DEF RingPart
    <3>2. ASSUME NEW i \in Slots, eth.ring[i].own = FALSE
          PROVE  eth.ring[i].frame \in ToSp /\ Waits(eth.ring[i].frame, last, s2)
      <4> DEFINE x == eth.ring[i].frame
      <4>1. x \in ToSp /\ Waits(x, last, sent)
        BY <3>1, <3>2 DEF RingOK, RingFrames
      <4> HIDE DEF x
      <4>2. x.id \in Nat
        BY <4>1 DEF ToSp, ReqFrames, CtlFrames, FrameType
      <4>3. Waits(x, last, s2)
        <5> SUFFICES ASSUME x.flow \in Flows PROVE last[x.flow] < x.id /\ x.id <= Len(s2[x.flow])
          BY DEF Waits
        <5>1. last[x.flow] < x.id /\ x.id <= Len(sent[x.flow])
          BY <4>1 DEF Waits
        <5>2. Len(sent[x.flow]) \in Nat /\ Len(s2[x.flow]) \in Nat /\ Len(sent[x.flow]) <= Len(s2[x.flow])
          BY <1>3, <1>10
        <5>3. x.id <= Len(s2[x.flow])
          BY <4>2, <5>1, <5>2
        <5> QED BY <5>1, <5>3
      <4> QED BY <4>1, <4>3 DEF x
    <3> QED BY <2>1, <3>1, <3>2 DEF RingPart, RingOK, RingFrames
  <2>2. CASE eth.ready # TRUE
    BY <2>0, <2>2 DEF RingPart
  <2> QED BY <2>1, <2>2
<1> QED BY <1>1, <1>5, <1>9, <1>24, <1>25 DEF EthInv, rx, ring, last

(* The invariant holds in every reachable state of the management network, *)
(* for every set of clients, VLANs, ring length and backlog.               *)
THEOREM EthInvariance == EthSpec => []EthInv
<1>1. EthInit => EthInv
  BY EthInitInv
<1>2. EthInv /\ [EthNext]_ethVars => EthInv'
  <2> SUFFICES ASSUME EthInv, [EthNext]_ethVars PROVE EthInv'
    OBVIOUS
  <2>1. CASE Pump
    BY <2>1, PumpStep
  <2>2. CASE EthIrq \/ OnInterrupt \/ Sleep
    BY <2>2, FlagSteps
  <2>3. CASE Receive
    BY <2>3, ReceiveStep
  <2>4. CASE SendReply
    BY <2>4, SendReplyStep
  <2>5. CASE NetStart
    BY <2>5, NetStartStep
  <2>6. CASE \E kind \in {"ns", "beacon"}, vid \in Vids : SendOwn(kind, vid)
    BY <2>6, SendOwnStep
  <2>7. CASE \E f \in Flows : Request(f)
    BY <2>7, RequestStep
  <2>8. CASE UNCHANGED ethVars
    <3>1. bridge' = bridge /\ eth' = eth /\ net' = net /\ mgs' = mgs
      BY <2>8 DEF ethVars
    <3> QED BY <3>1 DEF EthInv
  <2> QED BY <2>1, <2>2, <2>3, <2>4, <2>5, <2>6, <2>7, <2>8 DEF EthNext
<1> QED BY <1>1, <1>2, PTL DEF EthSpec

(* The DMA fills the RX descriptors in the order the driver reads them: a  *)
(* frame in the ring is one the driver will look at (eth_rx_inject).       *)
THEOREM RingStaysInStep == EthSpec => []RingInStep
<1>1. EthInv => RingInStep
  <2> SUFFICES ASSUME EthInv, net.up, NEW i \in Slots, ~eth.ring[i].own PROVE ~eth.ring[net.next].own
    BY DEF RingInStep
  <2> DEFINE ring == eth.ring
             n == net.next
             w == eth.rx_next
  <2>1. eth \in EthType /\ n \in Slots /\ w \in Slots /\ net.up \in BOOLEAN /\ ring \in [Slots -> SlotType]
    BY DEF EthInv, NetType, EthType
  <2>2. \A j \in Slots : ring[j].own \in BOOLEAN
    BY <2>1 DEF SlotType
  <2>3. eth.ready = TRUE
    BY <2>1 DEF EthInv
  <2>4. Seg(ring, n, w)
    BY <2>3 DEF EthInv, RingPart, RingOK
  <2>5. ring[i].own = FALSE
    BY <2>2
  <2>6. i \in Nat /\ n \in Nat /\ w \in Nat
    BY <2>1, EthConstants DEF Slots
  <2> HIDE DEF ring, n, w
  <2>7. ring[n].own = FALSE
    <3>1. CASE n < w
      BY <2>1, <2>4, <2>6, <3>1 DEF Seg
    <3>2. CASE w < n
      BY <2>1, <2>4, <2>6, <3>2 DEF Seg
    <3>3. CASE n = w
      BY <2>1, <2>4, <2>5, <3>3, Zenon DEF Seg
    <3>4. n < w \/ w < n \/ n = w
      BY <2>6
    <3> QED BY <3>1, <3>2, <3>3, <3>4, Zenon
  <2> QED BY <2>7 DEF ring, n
<1> QED BY <1>1, EthInvariance, PTL

(* The SP sees the requests of a client in the order they were sent,       *)
(* whatever push_rx evicts and eth_rx lets overtake.                       *)
THEOREM RequestOrder == EthSpec => []RequestsInOrder
<1>1. EthInv => RequestsInOrder
  BY DEF EthInv, RequestsInOrder
<1> QED BY <1>1, EthInvariance, PTL

(* push_rx takes nothing from a client that keeps no more than its share   *)
(* of the queue, and a control frame only from a queue of control frames.  *)
THEOREM FairEviction == EthSpec => []EvictionIsFair
<1>1. EthInv => EvictionIsFair
  BY DEF EthInv, BridgeOK, Fair, EvictionIsFair
<1> QED BY <1>1, EthInvariance, PTL

(* An answer reaches the client that asked, on the VLAN it asked on, once  *)
(* (handle_udp_tx, poll_host, eth_tx_walk).                                *)
THEOREM AnswersReachTheirAsker == EthSpec => []AnswerReachesAsker
<1>1. EthInv => AnswerReachesAsker
  <2> SUFFICES ASSUME EthInv, NEW r \in DOMAIN mgs.got
               PROVE  /\ \E j \in 1..Len(mgs.sent[r.flow]) : mgs.sent[r.flow][j] = [r EXCEPT !.kind = "request"]
                      /\ mgs.got[r] = 1
    BY DEF AnswerReachesAsker
  <2> DEFINE sent == mgs.sent
  <2>1. mgs.got \in Replies /\ sent \in [Flows -> Seq(ReqFrames)] /\ net.last \in [Flows -> Nat]
    BY DEF EthInv, MgsType, NetType
  <2>2. mgs.got[r] = 1 /\ Seen(r, net.last)
    BY DEF EthInv, RepliesOK, GotOK, Once
  <2>3. r \in RepFrames
    BY <2>1 DEF Replies
  <2>4. r \in FrameType /\ r.flow \in Flows /\ r.vid = View[r.flow] /\ r.id \in Nat
    BY <2>3 DEF RepFrames, FrameType
  <2>5. net.last[r.flow] \in Nat /\ sent[r.flow] \in Seq(ReqFrames)
    BY <2>1, <2>4
  <2>6. Len(sent[r.flow]) \in Nat /\ net.last[r.flow] <= Len(sent[r.flow])
    BY <2>4, <2>5, LenProperties DEF EthInv, RequestsOK
  <2>7. r.id \in 1..Len(sent[r.flow])
    BY <2>2, <2>4, <2>5, <2>6 DEF Seen
  <2>8. sent[r.flow][r.id] = Frame(r.flow, "request", View[r.flow], r.id)
    BY <2>4, <2>7 DEF EthInv, RequestsOK, Numbered
  <2>9. [r EXCEPT !.kind = "request"] = Frame(r.flow, "request", r.vid, r.id)
    BY <2>4 DEF FrameType, Frame
  <2> QED BY <2>2, <2>4, <2>7, <2>8, <2>9
<1> QED BY <1>1, EthInvariance, PTL

-----------------------------------------------------------------------------
(* The shared RoT service: the stages of an exchange                       *)

(* The types of the link, the RoT, an exchange, and of the three together. *)
LinkType == [mosi : Seq(Nat), miso : Seq(Nat), cs : BOOLEAN, ssa : BOOLEAN, ssd : BOOLEAN, rot_irq : BOOLEAN]
RotType == [st : {"idle", "recv", "work", "ready", "send"}, got : Seq(Nat)]
ExType == [fed : Nat, deasserted : BOOLEAN, phase2 : BOOLEAN, resp : Seq(Nat), total : Nat, done : BOOLEAN,
           quiet : Nat, it : Nat]
WorldType == [link : LinkType, rot : RotType, ex : ExType, idled : BOOLEAN]

(* A request is a run of equal bytes in the model.                         *)
AllAre(s, r) == \A i \in 1..Len(s) : s[i] = r

(* An exchange in its first phase.                                         *)
Fresh(e) == /\ e.phase2 = FALSE /\ e.resp = <<>> /\ e.total = 0 /\ e.done = FALSE /\ e.quiet = 0

(* Chip select, its release and rot-irq.                                   *)
Lines(l, cs, ssd, irq) == l.cs = cs /\ l.ssd = ssd /\ l.rot_irq = irq

(* First stage of an exchange for r: what was fed is in the FIFO or with   *)
(* the RoT, and nothing else is.                                           *)
Receiving(x, r) ==
  /\ x.rot.st \in {"idle", "recv"} /\ (x.rot.st = "idle" => x.rot.got = <<>>)
  /\ AllAre(x.rot.got, r) /\ AllAre(x.link.mosi, r)
  /\ Len(x.rot.got) + Len(x.link.mosi) = x.ex.fed
  /\ Len(x.link.mosi) <= FifoCap /\ x.ex.fed <= ReqLen /\ (x.ex.deasserted => x.ex.fed = ReqLen)
  /\ Fresh(x.ex) /\ x.link.miso = <<>>
  /\ x.ex.deasserted = FALSE => Lines(x.link, TRUE, FALSE, FALSE)
  /\ x.ex.deasserted = TRUE => Lines(x.link, FALSE, TRUE, FALSE)

(* The RoT holds request r.                                                *)
Has(t, r) == t.got # <<>> /\ Head(t.got) = r

(* Both FIFOs are empty.                                                   *)
Silent(l) == l.mosi = <<>> /\ l.miso = <<>>

(* Second stage: the request is in, the RoT works on it.                   *)
Working(x, r) ==
  /\ x.rot.st = "work" /\ Has(x.rot, r) /\ Fresh(x.ex) /\ x.ex.deasserted = TRUE
  /\ Silent(x.link) /\ Lines(x.link, FALSE, FALSE, FALSE)

(* Third stage: the reply is ready and rot-irq is asserted.                *)
Raised(x, r) ==
  /\ x.rot.st = "ready" /\ Has(x.rot, r) /\ Fresh(x.ex) /\ x.ex.deasserted = TRUE
  /\ Silent(x.link) /\ Lines(x.link, FALSE, FALSE, TRUE)

(* An exchange in its second phase.                                        *)
Phase2(e) == e.deasserted = TRUE /\ e.phase2 = TRUE /\ e.quiet = 0

(* Fourth stage: chip select is asserted again.                            *)
Selected(x, r) ==
  /\ x.rot.st = "ready" /\ Has(x.rot, r)
  /\ Phase2(x.ex) /\ x.ex.resp = <<>> /\ x.ex.total = 0 /\ x.ex.done = FALSE
  /\ Silent(x.link) /\ Lines(x.link, TRUE, FALSE, TRUE) /\ x.link.ssa = TRUE

(* Fifth stage: the whole reply is in the FIFO, perhaps behind a dummy     *)
(* byte.                                                                   *)
Sending(x, r) ==
  /\ x.rot.st = "send"
  /\ Phase2(x.ex) /\ x.ex.resp = <<>> /\ x.ex.total = 0 /\ x.ex.done = FALSE
  /\ x.link.mosi = <<>> /\ x.link.miso \in {Reply(r), <<0>> \o Reply(r)} /\ Lines(x.link, TRUE, FALSE, TRUE)

(* The reply was collected, without the dummy byte.                        *)
Collected(e, r) == Phase2(e) /\ e.resp = Reply(r) /\ e.total # 0 /\ e.done = TRUE

(* Sixth stage: chip select is released, the RoT has not seen it yet.      *)
Ending(x, r) ==
  /\ x.rot.st = "send" /\ Collected(x.ex, r)
  /\ Silent(x.link) /\ Lines(x.link, FALSE, TRUE, TRUE)

(* Last stage: the RoT is idle again.                                      *)
Ended(x, r) ==
  /\ x.rot = [st |-> "idle", got |-> <<>>] /\ Collected(x.ex, r)
  /\ Silent(x.link) /\ x.link.rot_irq = FALSE

(* What the assumption on the constants says.                              *)
LEMMA RsConstants ==
  /\ ReqLen \in Nat /\ ReqLen > 0 /\ FifoCap \in Nat /\ FifoCap > 0 /\ MaxQuiet \in Nat /\ MaxQuiet > 0
  /\ MaxIter \in Nat /\ MaxIter > 0 /\ LowMark \in Nat
  /\ \A r \in Requests : r \in Nat /\ r # 0 /\ r # 1
  BY RsAssumption

(* The arms of the RoT's step.                                             *)
LEMMA MicroArms ==
  ASSUME NEW x, NEW y \in Micro(x)
  PROVE  \/ x.rot.st \in {"idle", "recv"} /\ x.link.mosi # <<>> /\ (x.link.cs \/ x.link.ssd) /\ y = ByteIn(x)
         \/ x.rot.st = "recv" /\ x.link.mosi = <<>> /\ x.link.ssd /\ y = RequestIn(x)
         \/ x.rot.st = "work" /\ y = WorkDone(x)
         \/ /\ x.rot.st = "ready" /\ x.link.cs /\ x.link.ssa
            /\ \E dummy \in {<<>>, <<0>>} : y = ReplyOut(x, dummy)
         \/ x.rot.st = "send" /\ x.link.ssd /\ y = ReplyTaken(x)
  BY DEF Micro

(* When the RoT has a step to take.                                        *)
LEMMA MicroMoves ==
  ASSUME NEW x, NEW st
  PROVE  /\ x.rot.st \in {"idle", "recv"} /\ x.link.mosi # <<>> /\ (x.link.cs \/ x.link.ssd) => Micro(x) # {}
         /\ x.rot.st = "recv" /\ x.link.mosi = <<>> /\ x.link.ssd => Micro(x) # {}
         /\ x.rot.st = "work" => Micro(x) # {}
         /\ x.rot.st = "ready" /\ x.link.cs /\ x.link.ssa => Micro(x) # {}
         /\ x.rot.st = "send" /\ x.link.ssd => Micro(x) # {}
  BY DEF Micro

(* Taking a byte of a run of equal bytes.                                  *)
LEMMA AllAreTail ==
  ASSUME NEW r \in Nat, NEW s \in Seq(Nat), s # <<>>, AllAre(s, r)
  PROVE  Head(s) = r /\ Tail(s) \in Seq(Nat) /\ Len(Tail(s)) = Len(s) - 1 /\ AllAre(Tail(s), r)
<1>1. Tail(s) \in Seq(Nat) /\ Len(Tail(s)) = Len(s) - 1 /\ \A i \in 1..Len(Tail(s)) : Tail(s)[i] = s[i + 1]
  BY HeadTailProperties
<1>2. Len(s) \in Nat /\ Len(s) > 0
  BY EmptySeq
<1>3. Head(s) = s[1]
  OBVIOUS
<1>4. s[1] = r
  BY <1>2 DEF AllAre
<1>5. AllAre(Tail(s), r)
  BY <1>1, <1>2 DEF AllAre
<1> QED BY <1>1, <1>3, <1>4, <1>5

(* Adding one.                                                             *)
LEMMA AllAreAppend ==
  ASSUME NEW r \in Nat, NEW s \in Seq(Nat), AllAre(s, r)
  PROVE  Append(s, r) \in Seq(Nat) /\ Len(Append(s, r)) = Len(s) + 1 /\ AllAre(Append(s, r), r)
<1>1. /\ Append(s, r) \in Seq(Nat) /\ Len(Append(s, r)) = Len(s) + 1
      /\ \A i \in 1..Len(s) : Append(s, r)[i] = s[i]
      /\ Append(s, r)[Len(s) + 1] = r
  BY AppendProperties
<1>2. Len(s) \in Nat
  OBVIOUS
<1>3. ASSUME NEW i \in 1..Len(s) + 1 PROVE Append(s, r)[i] = r
  <2>1. CASE i = Len(s) + 1
    BY <1>1, <2>1
  <2>2. CASE i \in 1..Len(s)
    BY <1>1, <2>2 DEF AllAre
  <2> QED BY <1>2, <2>1, <2>2
<1> QED BY <1>1, <1>3 DEF AllAre

(* The bytes of a reply, with and without the dummy byte.                  *)
LEMMA ReplyShape ==
  ASSUME NEW r \in Nat
  PROVE  /\ Reply(r) \in Seq(Nat) /\ <<0>> \o Reply(r) \in Seq(Nat) /\ <<>> \o Reply(r) = Reply(r)
         /\ Reply(r) = <<r, 1, 0>>
         /\ Len(<<0>> \o Reply(r)) = 4 /\ (<<0>> \o Reply(r))[1] = 0
         /\ \A i \in 1..3 : (<<0>> \o Reply(r))[i + 1] = Reply(r)[i]
<1>1. Reply(r) = <<r, 1, 0>>
  BY DEF Reply
<1>2. <<r, 1, 0>> \in Seq(Nat) /\ Len(<<r, 1, 0>>) = 3 /\ <<0>> \in Seq(Nat) /\ Len(<<0>>) = 1 /\ <<0>>[1] = 0
  OBVIOUS
<1>3. <<>> \o <<r, 1, 0>> = <<r, 1, 0>>
  BY <1>2, ConcatEmptySeq
<1>4. /\ <<0>> \o <<r, 1, 0>> \in Seq(Nat)
      /\ Len(<<0>> \o <<r, 1, 0>>) = Len(<<0>>) + Len(<<r, 1, 0>>)
      /\ \A i \in 1..(Len(<<0>>) + Len(<<r, 1, 0>>)) :
            (<<0>> \o <<r, 1, 0>>)[i] = IF i <= Len(<<0>>) THEN <<0>>[i] ELSE <<r, 1, 0>>[i - Len(<<0>>)]
  BY <1>2, ConcatProperties
<1> DEFINE q == <<0>> \o <<r, 1, 0>>
           p == <<r, 1, 0>>
<1>5. q[1] = 0 /\ \A i \in 1..3 : q[i + 1] = p[i]
  <2>1. \A i \in 1..4 : q[i] = IF i <= 1 THEN <<0>>[i] ELSE p[i - 1]
    BY <1>2, <1>4
  <2>2. <<0>>[1] = 0
    OBVIOUS
  <2> HIDE DEF p, q
  <2>3. q[1] = 0
    BY <2>1, <2>2
  <2>4. ASSUME NEW i \in 1..3 PROVE q[i + 1] = p[i]
    <3>1. i + 1 \in 1..4 /\ ~(i + 1 <= 1) /\ (i + 1) - 1 = i
      OBVIOUS
    <3> QED BY <2>1, <3>1
  <2> QED BY <2>3, <2>4
<1> QED BY <1>1, <1>2, <1>3, <1>4, <1>5

(* A byte moves from one queue to another.                                 *)
LEMMA ByteMoves == \A a, b \in Nat : (a + 1) + (b - 1) = a + b
  OBVIOUS

(* In the first stage the RoT takes a byte, or ends the request.           *)
LEMMA MicroReceiving ==
  ASSUME NEW r \in Requests, NEW x \in WorldType, Receiving(x, r), NEW y \in Micro(x)
  PROVE  y \in WorldType /\ y.ex = x.ex /\ (Receiving(y, r) \/ Working(y, r))
<1> USE RsConstants
<1> DEFINE l == x.link
           t == x.rot
           la == [l EXCEPT !.mosi = Tail(l.mosi)]
           ta == [st |-> "recv", got |-> Append(t.got, Head(l.mosi))]
           lb == [l EXCEPT !.ssd = FALSE, !.ssa = FALSE]
           tb == [st |-> "work", got |-> t.got]
<1>1. l \in LinkType /\ t \in RotType /\ x.ex \in ExType
  BY DEF WorldType
<1>2. t.st \in {"idle", "recv"}
  BY DEF Receiving
<1>3. \/ l.mosi # <<>> /\ y = ByteIn(x)
      \/ t.st = "recv" /\ l.mosi = <<>> /\ l.ssd /\ y = RequestIn(x)
  BY <1>2, MicroArms
<1>4. CASE l.mosi # <<>> /\ y = ByteIn(x)
  <2>4. AllAre(t.got, r) /\ AllAre(l.mosi, r) /\ t.got \in Seq(Nat) /\ l.mosi \in Seq(Nat) /\ r \in Nat
    BY <1>1 DEF Receiving, LinkType, RotType
  <2>10. Head(l.mosi) = r /\ Tail(l.mosi) \in Seq(Nat) /\ Len(Tail(l.mosi)) = Len(l.mosi) - 1 /\ AllAre(Tail(l.mosi), r)
    BY <1>4, <2>4, AllAreTail
  <2>11. Append(t.got, r) \in Seq(Nat) /\ Len(Append(t.got, r)) = Len(t.got) + 1 /\ AllAre(Append(t.got, r), r)
    BY <2>4, AllAreAppend
  <2>1. la \in LinkType /\ la.mosi = Tail(l.mosi) /\ la.miso = l.miso /\ la.cs = l.cs /\ la.ssd = l.ssd /\ la.rot_irq = l.rot_irq
    BY <1>1, <2>10 DEF LinkType
  <2>2. ta \in RotType /\ ta.st = "recv" /\ ta.got = Append(t.got, r)
    BY <2>10, <2>11 DEF RotType
  <2>0. y = [x EXCEPT !.link = la, !.rot = ta]
    BY <1>4 DEF ByteIn
  <2> HIDE DEF la, ta
  <2>3. y \in WorldType /\ y.link = la /\ y.rot = ta /\ y.ex = x.ex
    BY <2>0, <2>1, <2>2 DEF WorldType
  <2>5. AllAre(ta.got, r) /\ AllAre(la.mosi, r) /\ Len(ta.got) + Len(la.mosi) = Len(t.got) + Len(l.mosi)
    <3>1. Len(t.got) \in Nat /\ Len(l.mosi) \in Nat
      BY <2>4
    <3> HIDE DEF l, t
    <3>2. AllAre(ta.got, r) /\ AllAre(la.mosi, r)
      BY <2>2, <2>1, <2>10, <2>11, Zenon
    <3>3. Len(ta.got) + Len(la.mosi) = Len(t.got) + Len(l.mosi)
      <4>1. Len(ta.got) = Len(t.got) + 1 /\ Len(la.mosi) = Len(l.mosi) - 1
        BY <2>2, <2>1, <2>10, <2>11, Zenon
      <4> QED BY <3>1, <4>1, ByteMoves, Zenon
    <3> QED BY <3>2, <3>3
  <2>6. Receiving(y, r)
    <3>1. Len(la.mosi) <= FifoCap
      BY <2>1, <2>4, <2>10 DEF Receiving
    <3> QED BY <2>1, <2>2, <2>3, <2>5, <3>1 DEF Receiving, Lines
  <2> QED BY <2>3, <2>6
<1>5. CASE t.st = "recv" /\ l.mosi = <<>> /\ l.ssd /\ y = RequestIn(x)
  <2>1. lb \in LinkType /\ lb.mosi = l.mosi /\ lb.miso = l.miso /\ lb.cs = l.cs /\ lb.ssd = FALSE /\ lb.rot_irq = l.rot_irq
    BY <1>1 DEF LinkType
  <2>2. tb \in RotType /\ tb.st = "work" /\ tb.got = t.got
    BY <1>1 DEF RotType
  <2>0. y = [x EXCEPT !.link = lb, !.rot = tb]
    BY <1>5 DEF RequestIn
  <2> HIDE DEF lb, tb
  <2>3. y \in WorldType /\ y.link = lb /\ y.rot = tb /\ y.ex = x.ex
    BY <2>0, <2>1, <2>2 DEF WorldType
  <2>4. x.ex.deasserted = TRUE
    BY <1>1, <1>5 DEF Receiving, Lines, ExType
  <2>5. t.got \in Seq(Nat) /\ Len(t.got) = ReqLen /\ t.got[1] = r
    BY <1>1, <1>5, <2>4 DEF Receiving, RotType, AllAre
  <2>6. Has(tb, r)
    BY <2>5, <2>2 DEF Has
  <2>7. Fresh(x.ex) /\ x.link.miso = <<>> /\ Lines(x.link, FALSE, TRUE, FALSE)
    BY <2>4 DEF Receiving
  <2>8. Working(y, r)
    BY <1>5, <2>1, <2>2, <2>3, <2>4, <2>6, <2>7 DEF Working, Lines, Silent
  <2> QED BY <2>3, <2>8
<1> QED BY <1>3, <1>4, <1>5

(* In the second it finishes its work.                                     *)
LEMMA MicroWorking ==
  ASSUME NEW r \in Requests, NEW x \in WorldType, Working(x, r), NEW y \in Micro(x)
  PROVE  y \in WorldType /\ y.ex = x.ex /\ Raised(y, r)
<1> DEFINE l == [x.link EXCEPT !.rot_irq = TRUE]
           t == [st |-> "ready", got |-> x.rot.got]
<1>1. x.link \in LinkType /\ x.rot \in RotType /\ x.ex \in ExType
  BY DEF WorldType
<1>2. y = WorkDone(x)
  BY MicroArms DEF Working
<1>3. y = [x EXCEPT !.link = l, !.rot = t]
  BY <1>2 DEF WorkDone
<1>4. l \in LinkType /\ l.mosi = x.link.mosi /\ l.miso = x.link.miso /\ l.cs = x.link.cs /\ l.ssd = x.link.ssd /\ l.rot_irq = TRUE
  BY <1>1 DEF LinkType
<1>5. t \in RotType /\ t.st = "ready" /\ t.got = x.rot.got
  BY <1>1 DEF RotType
<1> HIDE DEF l, t
<1>6. y \in WorldType /\ y.link = l /\ y.rot = t /\ y.ex = x.ex
  BY <1>3, <1>4, <1>5 DEF WorldType
<1>7. Raised(y, r)
  BY <1>4, <1>5, <1>6 DEF Raised, Working, Has, Silent, Lines
<1> QED BY <1>6, <1>7

(* In the third, fifth and last it waits.                                  *)
LEMMA MicroRaised ==
  ASSUME NEW r \in Requests, NEW x \in WorldType, Raised(x, r) \/ Sending(x, r) \/ Ended(x, r)
  PROVE  Micro(x) = {}
<1>1. x.link \in LinkType /\ x.rot \in RotType
  BY DEF WorldType
<1>2. CASE Raised(x, r)
  BY <1>2, MicroArms DEF Raised, Lines
<1>3. CASE Sending(x, r)
  BY <1>3, MicroArms DEF Sending, Lines
<1>4. CASE Ended(x, r)
  BY <1>4, MicroArms DEF Ended, Silent
<1> QED BY <1>2, <1>3, <1>4

(* In the fourth it sends the reply to its request.                        *)
LEMMA MicroSelected ==
  ASSUME NEW r \in Requests, NEW x \in WorldType, Selected(x, r)
  PROVE  /\ Micro(x) # {}
         /\ \A y \in Micro(x) : y \in WorldType /\ y.ex = x.ex /\ Sending(y, r)
<1>1. x.link \in LinkType /\ x.rot \in RotType /\ x.ex \in ExType
  BY DEF WorldType
<1>2. ASSUME NEW y \in Micro(x) PROVE y \in WorldType /\ y.ex = x.ex /\ Sending(y, r)
  <2>1. PICK dummy \in {<<>>, <<0>>} : y = ReplyOut(x, dummy)
    BY MicroArms DEF Selected
  <2> DEFINE l == [x.link EXCEPT !.miso = x.link.miso \o dummy \o Reply(Head(x.rot.got))]
             t == [st |-> "send", got |-> x.rot.got]
  <2>2. y = [x EXCEPT !.link = l, !.rot = t]
    BY <2>1 DEF ReplyOut
  <2>3. Head(x.rot.got) = r /\ x.link.miso = <<>> /\ r \in Nat
    BY RsConstants DEF Selected, Has, Silent
  <2>4. dummy \in Seq(Nat)
    <3>1. <<>> \in Seq(Nat) /\ <<0>> \in Seq(Nat)
      BY EmptySeq
    <3> QED BY <3>1
  <2>6. dummy \o Reply(r) \in {Reply(r), <<0>> \o Reply(r)} /\ dummy \o Reply(r) \in Seq(Nat)
    BY <2>3, ReplyShape
  <2>11. <<>> \o dummy = dummy
    BY <2>4, ConcatEmptySeq
  <2>5. x.link.miso \o dummy \o Reply(Head(x.rot.got)) = dummy \o Reply(r)
    BY <2>3, <2>11
  <2>7. l \in LinkType /\ l.mosi = x.link.mosi /\ l.miso = dummy \o Reply(r) /\ l.cs = x.link.cs
        /\ l.ssd = x.link.ssd /\ l.rot_irq = x.link.rot_irq
    BY <1>1, <2>5, <2>6 DEF LinkType
  <2>8. t \in RotType /\ t.st = "send"
    BY <1>1 DEF RotType
  <2> HIDE DEF l, t
  <2>9. y \in WorldType /\ y.link = l /\ y.rot = t /\ y.ex = x.ex
    BY <2>2, <2>7, <2>8 DEF WorldType
  <2>10. Sending(y, r)
    BY <2>6, <2>7, <2>8, <2>9 DEF Sending, Selected, Silent, Lines
  <2> QED BY <2>9, <2>10
<1>3. Micro(x) # {}
  BY MicroMoves DEF Selected, Lines
<1> QED BY <1>2, <1>3

(* In the sixth it becomes idle.                                           *)
LEMMA MicroEnding ==
  ASSUME NEW r \in Requests, NEW x \in WorldType, Ending(x, r)
  PROVE  /\ Micro(x) # {}
         /\ \A y \in Micro(x) : y \in WorldType /\ y.ex = x.ex /\ Ended(y, r)
<1>1. x.link \in LinkType /\ x.rot \in RotType /\ x.ex \in ExType
  BY DEF WorldType
<1>2. ASSUME NEW y \in Micro(x) PROVE y \in WorldType /\ y.ex = x.ex /\ Ended(y, r)
  <2>1. y = ReplyTaken(x)
    BY MicroArms DEF Ending
  <2> DEFINE l == [x.link EXCEPT !.ssd = FALSE, !.ssa = FALSE, !.rot_irq = FALSE]
             t == [st |-> "idle", got |-> <<>>]
  <2>2. y = [x EXCEPT !.link = l, !.rot = t]
    BY <2>1 DEF ReplyTaken
  <2>7. l \in LinkType /\ l.mosi = x.link.mosi /\ l.miso = x.link.miso /\ l.rot_irq = FALSE
    BY <1>1 DEF LinkType
  <2>8. t \in RotType
    BY DEF RotType
  <2> HIDE DEF l, t
  <2>9. y \in WorldType /\ y.link = l /\ y.rot = t /\ y.ex = x.ex
    BY <2>2, <2>7, <2>8 DEF WorldType
  <2>10. Ended(y, r)
    BY <2>7, <2>8, <2>9 DEF Ended, Ending, Silent, t
  <2> QED BY <2>9, <2>10
<1>3. Micro(x) # {}
  BY MicroMoves DEF Ending, Lines
<1> QED BY <1>2, <1>3

(* run_quantum's verdict changes nothing else.                             *)
LEMMA Idled ==
  ASSUME NEW z \in WorldType, NEW b \in BOOLEAN, NEW y, y = [z EXCEPT !.idled = b]
  PROVE  /\ y \in WorldType /\ y.link = z.link /\ y.rot = z.rot /\ y.ex = z.ex /\ y.idled = b
  BY DEF WorldType

(* A quantum is no step, one step or two of the RoT.                       *)
LEMMA QuantumArms ==
  ASSUME NEW x, NEW y \in Quantum(x)
  PROVE  \/ Micro(x) = {} /\ y = [x EXCEPT !.idled = TRUE]
         \/ \E z \in Micro(x) : y = [z EXCEPT !.idled = FALSE]
         \/ \E w \in Micro(x) : \E z \in Micro(w) : y = [z EXCEPT !.idled = FALSE]
         \/ x.rot.st = "work" /\ y = [x EXCEPT !.idled = FALSE]
<1>1. CASE Micro(x) = {}
  BY <1>1, Zenon DEF Quantum
<1>2. CASE Micro(x) # {}
  <2>1. PICK z \in Moves(x) : y = [z EXCEPT !.idled = FALSE]
    BY <1>2, Zenon DEF Quantum
  <2>2. z \in Micro(x) \/ z \in UNION {Micro(w) : w \in Micro(x)} \/ (x.rot.st = "work" /\ z = x)
    <3>1. CASE x.rot.st = "work"
      <4>1. (IF x.rot.st = "work" THEN {x} ELSE {}) = {x}
        BY <3>1
      <4>2. z \in Micro(x) \cup (UNION {Micro(w) : w \in Micro(x)}) \cup {x}
        BY <2>1, <4>1, Zenon DEF Moves
      <4> QED BY <3>1, <4>2, Zenon
    <3>2. CASE x.rot.st # "work"
      BY <2>1, <3>2, Zenon DEF Moves
    <3> QED BY <3>1, <3>2
  <2> QED BY <2>1, <2>2, Zenon
<1> QED BY <1>1, <1>2

(* A stage depends on the link, the RoT and the exchange only.             *)
LEMMA SameStage ==
  ASSUME NEW r, NEW y, NEW z, y.link = z.link, y.rot = z.rot, y.ex = z.ex
  PROVE  /\ Receiving(z, r) => Receiving(y, r)
         /\ Working(z, r) => Working(y, r)
         /\ Raised(z, r) => Raised(y, r)
         /\ Sending(z, r) => Sending(y, r)
         /\ Ended(z, r) => Ended(y, r)
  BY Zenon DEF Receiving, Working, Raised, Sending, Ended

(* A quantum in the first two stages stays there or asserts rot-irq.       *)
LEMMA QuantumReceiving ==
  ASSUME NEW r \in Requests, NEW x \in WorldType, Receiving(x, r) \/ Working(x, r), NEW y \in Quantum(x)
  PROVE  y \in WorldType /\ (Receiving(y, r) \/ Working(y, r) \/ Raised(y, r))
<1>1. CASE Micro(x) = {} /\ y = [x EXCEPT !.idled = TRUE]
  BY <1>1, Idled, SameStage
<1>2. CASE x.rot.st = "work" /\ y = [x EXCEPT !.idled = FALSE]
  BY <1>2, Idled, SameStage
<1>3. ASSUME NEW w \in WorldType, Receiving(w, r) \/ Working(w, r), NEW z \in Micro(w)
      PROVE  z \in WorldType /\ (Receiving(z, r) \/ Working(z, r) \/ Raised(z, r))
  BY <1>3, MicroReceiving, MicroWorking
<1>4. ASSUME NEW z \in WorldType, Receiving(z, r) \/ Working(z, r) \/ Raised(z, r), y = [z EXCEPT !.idled = FALSE]
      PROVE  y \in WorldType /\ (Receiving(y, r) \/ Working(y, r) \/ Raised(y, r))
  BY <1>4, Idled, SameStage
<1>5. ASSUME NEW z \in Micro(x), y = [z EXCEPT !.idled = FALSE]
      PROVE  y \in WorldType /\ (Receiving(y, r) \/ Working(y, r) \/ Raised(y, r))
  BY <1>3, <1>4, <1>5
<1>6. ASSUME NEW w \in Micro(x), NEW z \in Micro(w), y = [z EXCEPT !.idled = FALSE]
      PROVE  y \in WorldType /\ (Receiving(y, r) \/ Working(y, r) \/ Raised(y, r))
  <2>1. w \in WorldType /\ (Receiving(w, r) \/ Working(w, r))
    BY <1>3, MicroRaised, <1>6
  <2> QED BY <1>3, <1>4, <1>6, <2>1
<1> QED BY <1>1, <1>2, <1>5, <1>6, QuantumArms

(* A quantum in the fourth or sixth stage takes exactly that step.         *)
LEMMA QuantumSelected ==
  ASSUME NEW r \in Requests, NEW x \in WorldType, NEW y \in Quantum(x)
  PROVE  /\ Selected(x, r) => y \in WorldType /\ y.idled = FALSE /\ Sending(y, r)
         /\ Ending(x, r) => y \in WorldType /\ y.idled = FALSE /\ Ended(y, r)
<1>1. ASSUME Selected(x, r) PROVE y \in WorldType /\ y.idled = FALSE /\ Sending(y, r)
  <2>1. /\ Micro(x) # {} /\ \A z \in Micro(x) : z \in WorldType /\ Sending(z, r) /\ Micro(z) = {}
    BY <1>1, MicroSelected, MicroRaised
  <2>2. ~(x.rot.st = "work")
    BY <1>1 DEF Selected
  <2>3. PICK z \in Micro(x) : y = [z EXCEPT !.idled = FALSE]
    BY <2>1, <2>2, QuantumArms
  <2> QED BY <2>1, <2>3, Idled, SameStage
<1>2. ASSUME Ending(x, r) PROVE y \in WorldType /\ y.idled = FALSE /\ Ended(y, r)
  <2>1. /\ Micro(x) # {} /\ \A z \in Micro(x) : z \in WorldType /\ Ended(z, r) /\ Micro(z) = {}
    BY <1>2, MicroEnding, MicroRaised
  <2>2. ~(x.rot.st = "work")
    BY <1>2 DEF Ending
  <2>3. PICK z \in Micro(x) : y = [z EXCEPT !.idled = FALSE]
    BY <2>1, <2>2, QuantumArms
  <2> QED BY <2>1, <2>3, Idled, SameStage
<1> QED BY <1>1, <1>2

(* Feeding respects the FIFO's bound and the request's length.             *)
LEMMA FeedRoom ==
  ASSUME NEW k \in Nat, NEW f \in Nat, k <= FifoCap, f <= ReqLen, NEW n,
         n = IF ReqLen - f < FifoCap - k THEN ReqLen - f ELSE FifoCap - k
  PROVE  n \in Nat /\ n <= ReqLen /\ k + n <= FifoCap /\ f + n <= ReqLen /\ f + n \in Nat
  BY RsConstants

(* Feeding stays in the first stage; chip select is released only when all *)
(* is fed.                                                                 *)
LEMMA FeedReceiving ==
  ASSUME NEW r \in Requests, NEW x \in WorldType, Receiving(x, r)
  PROVE  Feed(x, r) \in WorldType /\ Receiving(Feed(x, r), r)
<1> USE RsConstants
<1>1. x.link \in LinkType /\ x.rot \in RotType /\ x.ex \in ExType
  BY DEF WorldType
<1>2. CASE x.ex.deasserted
  BY <1>2 DEF Feed
<1>3. CASE ~x.ex.deasserted
  <2> DEFINE mosi == x.link.mosi
             room == FifoCap - Len(mosi)
             left == ReqLen - x.ex.fed
             n == IF left < room THEN left ELSE room
             part == SubSeq(RequestBytes(r), 1, n)
             m == mosi \o part
             out == x.ex.fed + n = ReqLen /\ Len(m) <= LowMark
             e == [x.ex EXCEPT !.fed = @ + n, !.deasserted = out]
             l == [x.link EXCEPT !.mosi = m, !.cs = @ /\ ~out, !.ssd = @ \/ out]
             y == Feed(x, r)
  <2>1. y = [x EXCEPT !.ex = e, !.link = l]
    BY <1>3, Zenon DEF Feed
  <2>2. /\ mosi \in Seq(Nat) /\ Len(mosi) \in Nat /\ x.ex.fed \in Nat /\ Len(x.rot.got) \in Nat
        /\ Len(mosi) <= FifoCap /\ x.ex.fed <= ReqLen /\ AllAre(mosi, r)
    BY <1>1 DEF LinkType, ExType, RotType, Receiving
  <2>3. n \in Nat /\ n <= ReqLen /\ Len(mosi) + n <= FifoCap /\ x.ex.fed + n <= ReqLen /\ x.ex.fed + n \in Nat
    BY <2>2, FeedRoom
  <2> HIDE DEF mosi, n
  <2>4. part \in Seq(Nat) /\ Len(part) = n /\ \A i \in 1..n : part[i] = r
    <3>1. \A i \in 1..n : RequestBytes(r)[i] = r
      BY <2>3 DEF RequestBytes
    <3>2. /\ part \in Seq(Nat) /\ Len(part) = (IF 1 <= n THEN n - 1 + 1 ELSE 0)
          /\ \A i \in 1..(n - 1 + 1) : part[i] = RequestBytes(r)[1 + i - 1]
      BY <2>3, <3>1, SubSeqProperties
    <3>3. Len(part) = n
      BY <3>2, <2>3
    <3>4. ASSUME NEW i \in 1..n PROVE part[i] = r
      <4>1. i \in 1..(n - 1 + 1) /\ 1 + i - 1 = i
        BY <2>3
      <4> QED BY <3>1, <3>2, <4>1
    <3> QED BY <3>2, <3>3, <3>4
  <2> HIDE DEF part
  <2>5. /\ m \in Seq(Nat) /\ Len(m) = Len(mosi) + n
        /\ \A i \in 1..(Len(mosi) + n) : m[i] = IF i <= Len(mosi) THEN mosi[i] ELSE part[i - Len(mosi)]
    BY <2>2, <2>4, ConcatProperties
  <2> HIDE DEF m
  <2>6. AllAre(m, r)
    <3>1. ASSUME NEW i \in 1..(Len(mosi) + n) PROVE m[i] = r
      <4>1. CASE i <= Len(mosi)
        <5>1. i \in 1..Len(mosi)
          BY <2>2, <2>3, <4>1
        <5>2. mosi[i] = r
          BY <2>2, <5>1 DEF AllAre
        <5> QED BY <2>5, <4>1, <5>2
      <4>2. CASE ~(i <= Len(mosi))
        <5>1. i - Len(mosi) \in 1..n
          BY <2>2, <2>3, <4>2
        <5> QED BY <2>4, <2>5, <4>2, <5>1
      <4> QED BY <4>1, <4>2
    <3> QED BY <2>5, <3>1 DEF AllAre
  <2>7. out \in BOOLEAN /\ (out => x.ex.fed + n = ReqLen)
    OBVIOUS
  <2> HIDE DEF out
  <2>8. /\ e \in ExType /\ e.fed = x.ex.fed + n /\ e.deasserted = out
        /\ e.phase2 = x.ex.phase2 /\ e.resp = x.ex.resp /\ e.total = x.ex.total /\ e.done = x.ex.done /\ e.quiet = x.ex.quiet
    BY <1>1, <2>2, <2>3, <2>7 DEF ExType
  <2>9. Lines(x.link, TRUE, FALSE, FALSE) /\ Fresh(x.ex) /\ x.link.miso = <<>>
    BY <1>1, <1>3 DEF Receiving, ExType
  <2>10. l \in LinkType /\ l.mosi = m /\ l.miso = <<>> /\ l.rot_irq = FALSE /\ l.cs = ~out /\ l.ssd = out
    BY <1>1, <2>5, <2>7, <2>9 DEF LinkType, Lines
  <2> HIDE DEF e, l, y
  <2>11. y \in WorldType /\ y.ex = e /\ y.link = l /\ y.rot = x.rot
    BY <2>1, <2>8, <2>10 DEF WorldType
  <2>12. Fresh(e)
    BY <2>8, <2>9 DEF Fresh
  <2>13. /\ y.ex.deasserted = FALSE => Lines(y.link, TRUE, FALSE, FALSE)
         /\ y.ex.deasserted = TRUE => Lines(y.link, FALSE, TRUE, FALSE)
    BY <2>7, <2>8, <2>10, <2>11 DEF Lines
  <2>14. /\ Len(x.rot.got) + Len(m) = e.fed /\ e.fed <= ReqLen /\ Len(m) <= FifoCap
         /\ (e.deasserted => e.fed = ReqLen)
    <3>1. Len(x.rot.got) + Len(mosi) = x.ex.fed
      BY DEF Receiving, mosi
    <3>2. Len(x.rot.got) + Len(m) = e.fed
      <4> HIDE DEF e
      <4>1. Len(m) = Len(mosi) + n /\ e.fed = x.ex.fed + n
        BY <2>5, <2>8
      <4>2. Len(x.rot.got) + (Len(mosi) + n) = x.ex.fed + n
        <5>1. Len(x.rot.got) \in Nat /\ Len(mosi) \in Nat /\ x.ex.fed \in Nat /\ n \in Nat
          BY <2>2, <2>3
        <5> DEFINE g == Len(x.rot.got)
                   k == Len(mosi)
                   f == x.ex.fed
        <5>2. g \in Nat /\ k \in Nat /\ f \in Nat /\ g + k = f
          BY <3>1, <5>1
        <5> HIDE DEF g, k, f
        <5>3. g + (k + n) = f + n
          BY <5>1, <5>2
        <5> QED BY <5>3 DEF g, k, f
      <4> QED BY <4>1, <4>2, Zenon
    <3>3. e.fed <= ReqLen /\ Len(m) <= FifoCap
      BY <2>3, <2>5, <2>8
    <3> QED BY <3>2, <3>3, <2>7, <2>8
  <2>15. /\ x.rot.st \in {"idle", "recv"} /\ (x.rot.st = "idle" => x.rot.got = <<>>) /\ AllAre(x.rot.got, r)
    BY DEF Receiving
  <2>16. Receiving(y, r)
    BY <2>6, <2>10, <2>11, <2>12, <2>13, <2>14, <2>15 DEF Receiving
  <2> QED BY <2>11, <2>16 DEF y
<1> QED BY <1>2, <1>3

(* The first byte that is not a dummy.                                     *)
LEMMA FirstData ==
  ASSUME NEW q \in Seq(Nat), NEW k \in 1..Len(q), q[k] # 0, \A i \in 1..Len(q) : i < k => q[i] = 0
  PROVE  Start(q) = k
<1> DEFINE I == {i \in 1..Len(q) : q[i] # 0}
<1>1. Start(q) = IF I # {} THEN Min(I) ELSE 0
  BY Zenon DEF Start, SelectInSeq, Data
<1>2. k \in I /\ \A i \in I : i \in Int /\ k <= i
  OBVIOUS
<1> HIDE DEF I
<1>3. Min(I) = CHOOSE m \in I : \A i \in I : m <= i
  BY Zenon DEF Min
<1>4. PICK m \in I : Min(I) = m /\ \A i \in I : m <= i
  BY <1>2, <1>3, Zenon
<1>5. m = k
  BY <1>2, <1>4
<1> QED BY <1>1, <1>2, <1>4, <1>5

(* rot-irq leads from the third stage to the fourth.                       *)
LEMMA Enter ==
  ASSUME NEW r \in Requests, NEW x \in WorldType, Raised(x, r)
  PROVE  EnterPhase2(x) \in WorldType /\ Selected(EnterPhase2(x), r)
<1> DEFINE e == [x.ex EXCEPT !.phase2 = TRUE]
           l == [x.link EXCEPT !.cs = TRUE, !.ssa = TRUE, !.ssd = FALSE]
           y == EnterPhase2(x)
<1>1. x.link \in LinkType /\ x.rot \in RotType /\ x.ex \in ExType
  BY DEF WorldType
<1>2. y = [x EXCEPT !.ex = e, !.link = l]
  BY Zenon DEF EnterPhase2
<1>3. /\ e \in ExType /\ e.phase2 = TRUE /\ e.deasserted = x.ex.deasserted /\ e.resp = x.ex.resp
      /\ e.total = x.ex.total /\ e.done = x.ex.done /\ e.quiet = x.ex.quiet
  BY <1>1 DEF ExType
<1>4. /\ l \in LinkType /\ l.cs = TRUE /\ l.ssa = TRUE /\ l.ssd = FALSE /\ l.mosi = x.link.mosi
      /\ l.miso = x.link.miso /\ l.rot_irq = x.link.rot_irq
  BY <1>1 DEF LinkType
<1> HIDE DEF e, l, y
<1>5. y \in WorldType /\ y.ex = e /\ y.link = l /\ y.rot = x.rot
  BY <1>2, <1>3, <1>4 DEF WorldType
<1>6. Selected(y, r)
  BY <1>3, <1>4, <1>5 DEF Raised, Selected, Fresh, Phase2, Silent, Lines
<1> QED BY <1>5, <1>6 DEF y

(* Clearing a counter that is zero.                                        *)
LEMMA SameExchange ==
  ASSUME NEW e \in ExType, e.quiet = 0
  PROVE  [e EXCEPT !.quiet = 0] = e
  BY DEF ExType

(* The end of an iteration: collect, bound, finish, count the quiet ones.  *)
Tail3(x) == CountQuiet(Finish(Bound(Collect(x))))

(* No quiet iteration is counted in phase one or when the RoT moved.       *)
LEMMA CountNothing ==
  ASSUME NEW x \in WorldType, x.ex.quiet = 0, x.ex.phase2 = FALSE \/ x.idled = FALSE
  PROVE  CountQuiet(x) = x
<1>1. x.ex \in ExType
  BY DEF WorldType
<1>2. ~(x.ex.phase2 /\ x.idled /\ x.link.miso = <<>>)
  OBVIOUS
<1>3. CountQuiet(x) = [x EXCEPT !.ex = [x.ex EXCEPT !.quiet = 0]]
  BY <1>2, Zenon DEF CountQuiet
<1>4. [x.ex EXCEPT !.quiet = 0] = x.ex
  BY <1>1, SameExchange
<1>5. CountQuiet(x) = [x EXCEPT !.ex = x.ex]
  BY <1>3, <1>4, Zenon
<1> QED BY <1>5 DEF WorldType

(* It does nothing in phase one,                                           *)
LEMMA TailPhase1 ==
  ASSUME NEW r \in Requests, NEW x \in WorldType, Fresh(x.ex)
  PROVE  Tail3(x) = x
<1>1. x.ex \in ExType /\ x.ex.phase2 = FALSE /\ x.ex.total = 0 /\ x.ex.quiet = 0
  BY DEF WorldType, Fresh
<1>2. Collect(x) = x
  BY <1>1, Zenon DEF Collect
<1>3. Bound(x) = x
  BY <1>1, Zenon DEF Bound
<1>4. Finish(x) = x
  BY <1>1, Zenon DEF Finish
<1>5. CountQuiet(x) = x
  BY <1>1, CountNothing
<1> QED BY <1>2, <1>3, <1>4, <1>5, Zenon DEF Tail3

(* nor after the last stage;                                               *)
LEMMA TailEnded ==
  ASSUME NEW r \in Requests, NEW x \in WorldType, Ended(x, r), x.idled = FALSE
  PROVE  Tail3(x) = x
<1>1. x.link \in LinkType /\ x.ex \in ExType /\ x.ex.phase2 = TRUE /\ x.ex.total # 0 /\ x.ex.quiet = 0 /\ x.ex.done = TRUE
      /\ x.link.miso = <<>>
  BY DEF WorldType, Ended, Collected, Phase2, Silent
<1>2. Collect(x) = x
  <2>1. Collect(x) = [x EXCEPT !.ex = [x.ex EXCEPT !.resp = x.ex.resp], !.link = [x.link EXCEPT !.miso = <<>>]]
    BY <1>1, Zenon DEF Collect
  <2>2. [x.ex EXCEPT !.resp = x.ex.resp] = x.ex
    BY <1>1 DEF ExType
  <2>3. [x.link EXCEPT !.miso = <<>>] = x.link
    BY <1>1 DEF LinkType
  <2>4. Collect(x) = [x EXCEPT !.ex = x.ex, !.link = x.link]
    BY <2>1, <2>2, <2>3, Zenon
  <2> QED BY <2>4 DEF WorldType
<1>3. Bound(x) = x
  BY <1>1, Zenon DEF Bound
<1>4. Finish(x) = x
  BY <1>1, Zenon DEF Finish
<1>5. CountQuiet(x) = x
  BY <1>1, CountNothing
<1> QED BY <1>2, <1>3, <1>4, <1>5, Zenon DEF Tail3

(* in the fifth it collects the whole reply and releases chip select.      *)
LEMMA TailSending ==
  ASSUME NEW r \in Requests, NEW x \in WorldType, Sending(x, r), x.idled = FALSE
  PROVE  Tail3(x) \in WorldType /\ Ending(Tail3(x), r)
<1> DEFINE q == x.link.miso
           k == Len(q) - 2
           e1 == [x.ex EXCEPT !.resp = q]
           l1 == [x.link EXCEPT !.miso = <<>>]
           x1 == [x EXCEPT !.ex = e1, !.link = l1]
           e2 == [e1 EXCEPT !.total = k + 2]
           x2 == [x1 EXCEPT !.ex = e2]
           e3 == [e2 EXCEPT !.resp = Reply(r), !.done = TRUE]
           l3 == [l1 EXCEPT !.cs = FALSE, !.ssa = FALSE, !.ssd = TRUE]
           x3 == [x2 EXCEPT !.ex = e3, !.link = l3]
<1>1. x.link \in LinkType /\ x.rot \in RotType /\ x.ex \in ExType
  BY DEF WorldType
<1>2. r \in Nat /\ r # 0
  BY RsConstants
<1>3. /\ q \in Seq(Nat) /\ Len(q) \in {3, 4} /\ k \in 1..Len(q) /\ q[k] = r /\ q[k + 1] = 1 /\ q[k + 2] = 0
      /\ \A i \in 1..Len(q) : i < k => q[i] = 0
  <2>1. CASE q = Reply(r)
    <3> DEFINE p == <<r, 1, 0>>
    <3>1. p \in Seq(Nat) /\ Len(p) = 3 /\ p[1] = r /\ p[2] = 1 /\ p[3] = 0
      BY <1>2
    <3>2. q = p
      BY <1>2, <2>1, ReplyShape
    <3> HIDE DEF p, q
    <3>3. k = 1 /\ q \in Seq(Nat) /\ Len(q) = 3 /\ q[1] = r /\ q[2] = 1 /\ q[3] = 0
      BY <3>1, <3>2
    <3> HIDE DEF k
    <3> QED BY <3>3
  <2>2. CASE q = <<0>> \o Reply(r)
    <3> DEFINE p == Reply(r)
    <3>1. p[1] = r /\ p[2] = 1 /\ p[3] = 0
      BY <1>2, ReplyShape
    <3>2. q \in Seq(Nat) /\ Len(q) = 4 /\ q[1] = 0 /\ \A i \in 1..3 : q[i + 1] = p[i]
      BY <1>2, <2>2, ReplyShape
    <3> HIDE DEF p, q
    <3>3. q[2] = r /\ q[3] = 1 /\ q[4] = 0
      <4>1. q[1 + 1] = p[1] /\ q[2 + 1] = p[2] /\ q[3 + 1] = p[3]
        BY <3>2
      <4> QED BY <3>1, <4>1
    <3> QED BY <3>2, <3>3
  <2> QED BY <2>1, <2>2 DEF Sending
<1>4. Start(q) = k
  BY <1>2, <1>3, FirstData
<1>5. SubSeq(q, k, k + 2) = Reply(r)
  <2> DEFINE s == SubSeq(q, k, k + 2)
  <2> HIDE DEF q
  <2>1. k \in Int /\ k + 2 \in Int /\ \A i \in k..(k + 2) : q[i] \in Nat
    BY <1>2, <1>3
  <2>2. /\ s \in Seq(Nat) /\ Len(s) = (IF k <= k + 2 THEN k + 2 - k + 1 ELSE 0)
        /\ \A i \in 1..(k + 2 - k + 1) : s[i] = q[k + i - 1]
    BY <2>1, SubSeqProperties
  <2> HIDE DEF s, k
  <2>3. Len(s) = 3 /\ \A i \in 1..3 : s[i] = q[k + i - 1]
    BY <2>1, <2>2
  <2>4. s[1] = q[k] /\ s[2] = q[k + 1] /\ s[3] = q[k + 2]
    <3>1. k + 1 - 1 = k /\ k + 2 - 1 = k + 1 /\ k + 3 - 1 = k + 2
      BY <2>1
    <3>2. s[1] = q[k + 1 - 1] /\ s[2] = q[k + 2 - 1] /\ s[3] = q[k + 3 - 1]
      BY <2>3
    <3> QED BY <3>1, <3>2
  <2> DEFINE p == <<r, 1, 0>>
  <2>5. p \in Seq(Nat) /\ Len(p) = 3 /\ p[1] = r /\ p[2] = 1 /\ p[3] = 0
    BY <1>2
  <2> HIDE DEF p
  <2>6. \A i \in 1..3 : s[i] = p[i]
    BY <1>3, <2>4, <2>5
  <2>7. s = p
    BY <2>2, <2>3, <2>5, <2>6, SeqEqual
  <2> QED BY <2>7 DEF s, p, Reply
<1>6. x.ex.phase2 = TRUE /\ x.ex.done = FALSE /\ x.ex.resp = <<>> /\ x.ex.total = 0 /\ x.ex.quiet = 0
      /\ x.ex.deasserted = TRUE /\ x.link.mosi = <<>> /\ x.link.rot_irq = TRUE /\ x.rot.st = "send"
  BY DEF Sending, Phase2, Lines
<1>7. <<>> \o q = q
  BY <1>3, ConcatEmptySeq
<1>8. Collect(x) = x1
  BY <1>6, <1>7, Zenon DEF Collect
<1> HIDE DEF q, k
<1>9. e1 \in ExType /\ e1.resp = q /\ e1.phase2 = TRUE /\ e1.total = 0 /\ e1.done = FALSE /\ e1.quiet = 0 /\ e1.deasserted = TRUE
  BY <1>1, <1>3, <1>6 DEF ExType
<1>10. l1 \in LinkType /\ l1.miso = <<>> /\ l1.mosi = <<>> /\ l1.rot_irq = TRUE
  BY <1>1, <1>6 DEF LinkType
<1> HIDE DEF e1, l1
<1>11. x1 \in WorldType /\ x1.ex = e1 /\ x1.link = l1 /\ x1.rot = x.rot /\ x1.idled = FALSE
  BY <1>9, <1>10 DEF WorldType
<1> HIDE DEF x1
<1>12. k \in Nat /\ k # 0 /\ Len(q) = k + 2 /\ Len(q) \in Nat /\ k + 1 + q[k + 1] = k + 2
  BY <1>3 DEF k
<1>13. Bound(x1) = x2
  <2>1. Len(q) >= k + 1
    BY <1>12
  <2> QED BY <1>4, <1>9, <1>11, <1>12, <2>1, Zenon DEF Bound
<1>14. e2 \in ExType /\ e2.resp = q /\ e2.phase2 = TRUE /\ e2.total = k + 2 /\ e2.done = FALSE /\ e2.quiet = 0 /\ e2.deasserted = TRUE
  BY <1>9, <1>12 DEF ExType
<1> HIDE DEF e2
<1>15. x2 \in WorldType /\ x2.ex = e2 /\ x2.link = l1 /\ x2.rot = x.rot /\ x2.idled = FALSE
  BY <1>11, <1>14 DEF WorldType
<1> HIDE DEF x2
<1>16. Finish(x2) = x3
  <2>1. k + 2 # 0 /\ Len(q) >= k + 2
    BY <1>12
  <2> QED BY <1>4, <1>5, <1>14, <1>15, <2>1, Zenon DEF Finish
<1>17. e3 \in ExType /\ e3.resp = Reply(r) /\ e3.phase2 = TRUE /\ e3.total # 0 /\ e3.done = TRUE /\ e3.quiet = 0 /\ e3.deasserted = TRUE
  <2>1. Reply(r) \in Seq(Nat)
    BY <1>2, ReplyShape
  <2>2. e2.total # 0
    BY <1>12, <1>14
  <2> QED BY <1>14, <2>1, <2>2 DEF ExType
<1>18. l3 \in LinkType /\ l3.miso = <<>> /\ l3.mosi = <<>> /\ l3.rot_irq = TRUE /\ l3.cs = FALSE /\ l3.ssd = TRUE
  BY <1>10 DEF LinkType
<1> HIDE DEF e3, l3
<1>19. x3 \in WorldType /\ x3.ex = e3 /\ x3.link = l3 /\ x3.rot = x.rot /\ x3.idled = FALSE
  BY <1>15, <1>17, <1>18 DEF WorldType
<1> HIDE DEF x3
<1>20. CountQuiet(x3) = x3
  BY <1>17, <1>19, CountNothing
<1>21. Ending(x3, r)
  BY <1>6, <1>17, <1>18, <1>19 DEF Ending, Collected, Phase2, Silent, Lines
<1>22. Tail3(x) = x3
  BY <1>8, <1>13, <1>16, <1>20, Zenon DEF Tail3
<1> QED BY <1>19, <1>21, <1>22

(* What an iteration may find and leave behind.                            *)
Stage(x, r) == Receiving(x, r) \/ Working(x, r) \/ Selected(x, r) \/ Ending(x, r)

(* An iteration: a quantum, then either the entry into phase two or its    *)
(* end.                                                                    *)
LEMMA IterationArms ==
  ASSUME NEW x, NEW r, NEW z \in Iteration(x, r)
  PROVE  \E y \in Quantum(Feed(x, r)) :
            \/ ~y.ex.phase2 /\ y.link.rot_irq /\ z = EnterPhase2(y)
            \/ ~(~y.ex.phase2 /\ y.link.rot_irq) /\ z = Tail3(y)
<1>1. PICK y \in Quantum(Feed(x, r)) :
         z \in IF ~y.ex.phase2 /\ y.link.rot_irq THEN {EnterPhase2(y)}
               ELSE {CountQuiet(v) : v \in {Finish(w) : w \in {Bound(u) : u \in {Collect(y)}}}}
  BY Zenon DEF Iteration
<1>2. CASE ~y.ex.phase2 /\ y.link.rot_irq
  BY <1>1, <1>2, Zenon
<1>3. CASE ~(~y.ex.phase2 /\ y.link.rot_irq)
  <2>1. z \in {CountQuiet(v) : v \in {Finish(w) : w \in {Bound(u) : u \in {Collect(y)}}}}
    BY <1>1, <1>3, Zenon
  <2>2. z = Tail3(y)
    BY <2>1, Zenon DEF Tail3
  <2> QED BY <1>3, <2>2
<1> QED BY <1>2, <1>3

(* Feeding in any stage.                                                   *)
LEMMA FeedStage ==
  ASSUME NEW r \in Requests, NEW x \in WorldType, Stage(x, r)
  PROVE  /\ Feed(x, r) \in WorldType
         /\ Receiving(x, r) => Receiving(Feed(x, r), r)
         /\ ~Receiving(x, r) => Feed(x, r) = x
<1>1. CASE Receiving(x, r)
  BY <1>1, FeedReceiving
<1>2. CASE ~Receiving(x, r)
  <2>1. x.ex.deasserted = TRUE
    BY <1>2 DEF Stage, Working, Selected, Ending, Collected, Phase2
  <2>2. Feed(x, r) = x
    BY <2>1, Zenon DEF Feed
  <2> QED BY <1>2, <2>2
<1> QED BY <1>1, <1>2

(* An iteration leads from stage to stage.                                 *)
LEMMA IterationStage ==
  ASSUME NEW r \in Requests, NEW x \in WorldType, Stage(x, r), NEW z \in Iteration(x, r)
  PROVE  z \in WorldType /\ (Stage(z, r) \/ Ended(z, r))
<1> DEFINE f == Feed(x, r)
<1>1. /\ f \in WorldType
      /\ Receiving(x, r) => Receiving(f, r)
      /\ ~Receiving(x, r) => f = x
  BY FeedStage
<1>2. PICK y \in Quantum(f) :
            \/ ~y.ex.phase2 /\ y.link.rot_irq /\ z = EnterPhase2(y)
            \/ ~(~y.ex.phase2 /\ y.link.rot_irq) /\ z = Tail3(y)
  BY IterationArms
<1> HIDE DEF f
<1>3. CASE Receiving(f, r) \/ Working(f, r)
  <2>1. y \in WorldType /\ (Receiving(y, r) \/ Working(y, r) \/ Raised(y, r))
    BY <1>1, <1>2, <1>3, QuantumReceiving
  <2>2. CASE Raised(y, r)
    <3>1. z = EnterPhase2(y)
      BY <1>2, <2>2 DEF Raised, Fresh, Lines
    <3> QED BY <2>1, <2>2, <3>1, Enter DEF Stage
  <2>3. CASE Receiving(y, r) \/ Working(y, r)
    <3>1. Fresh(y.ex) /\ y.link.rot_irq = FALSE
      <4>1. y.ex \in ExType
        BY <2>1 DEF WorldType
      <4>2. CASE Receiving(y, r)
        BY <4>1, <4>2 DEF Receiving, Lines, ExType
      <4>3. CASE Working(y, r)
        BY <4>3 DEF Working, Lines
      <4> QED BY <2>3, <4>2, <4>3
    <3>2. z = y
      BY <1>2, <2>1, <3>1, TailPhase1
    <3> QED BY <2>1, <2>3, <3>2 DEF Stage
  <2> QED BY <2>1, <2>2, <2>3
<1>4. CASE Selected(f, r)
  <2>1. y \in WorldType /\ y.idled = FALSE /\ Sending(y, r)
    BY <1>1, <1>2, <1>4, QuantumSelected
  <2>2. z = Tail3(y)
    BY <1>2, <2>1 DEF Sending, Phase2
  <2> QED BY <2>1, <2>2, TailSending DEF Stage
<1>5. CASE Ending(f, r)
  <2>1. y \in WorldType /\ y.idled = FALSE /\ Ended(y, r)
    BY <1>1, <1>2, <1>5, QuantumSelected
  <2>2. z = Tail3(y)
    BY <1>2, <2>1 DEF Ended, Collected, Phase2
  <2>3. z = y
    BY <2>1, <2>2, TailEnded
  <2> QED BY <2>1, <2>3
<1> QED BY <1>1, <1>3, <1>4, <1>5 DEF Stage

(* The SP processes and the jobs they send to the worker.                  *)
ClientType == [st : {"idle", "wait", "done"}, req : Nat, tries : Nat, conn : Nat, calls : Nat, resp : Seq(Nat)]
JobType == [client : SpClients, conn : Nat, req : Requests]

(* The client (cl holds them) still waits for this job's answer on this    *)
(* connection.                                                             *)
Current(cl, job) == job.conn = cl[job.client].conn

(* A job of the channel is of this or an earlier connection of its client; *)
(* if of this one, the client waits for it.                                *)
Pending(cl, job) ==
  /\ job \in JobType /\ job.conn <= cl[job.client].conn
  /\ Current(cl, job) => cl[job.client].st = "wait" /\ cl[job.client].req = job.req

(* Two jobs of a client are of different connections.                      *)
Apart(a, b) == a.client = b.client => a.conn # b.conn

(* So are those of the channel.                                            *)
QueueOK(cl, q) ==
  /\ q \in Seq(JobType)
  /\ \A i \in 1..Len(q) : Pending(cl, q[i])
  /\ \A i, j \in 1..Len(q) : i < j => Apart(q[i], q[j])

(* The channel of the worker.                                              *)
JobsOK == QueueOK(rsClients, rsJobs)

(* A client has no response, or the one to its request.                    *)
ClientsOK ==
  /\ rsClients \in [SpClients -> ClientType]
  /\ \A c \in SpClients : rsClients[c].resp # <<>> =>
       rsClients[c].st = "done" /\ rsClients[c].resp = Reply(rsClients[c].req)
  /\ \A c \in SpClients : rsClients[c].st = "wait" => rsClients[c].req \in Requests

(* The cache holds the reply to each request, or nothing.                  *)
CacheOK ==
  /\ rsWorker.cache \in [Requests -> Seq(Nat)]
  /\ \A r \in Requests : rsWorker.cache[r] # <<>> => rsWorker.cache[r] = Reply(r)

(* Between exchanges the RoT is idle and the link is empty.                *)
Resting == rsRot = [st |-> "idle", got |-> <<>>] /\ Silent(rsLink)

(* During one, it is at one of the stages, for the request of the job.     *)
ExchangeOK ==
  /\ Pending(rsClients, rsWorker.job) /\ \A i \in 1..Len(rsJobs) : Apart(rsWorker.job, rsJobs[i])
  /\ Stage(World, rsWorker.job.req)

(* The parts of the worker's record that the rest needs.                   *)
RsShape ==
  /\ DOMAIN rsWorker = {"st", "job", "ex", "cache", "gaveup"}
  /\ rsWorker.gaveup \in BOOLEAN

(* The state unless an exchange ran out of iterations.                     *)
RsGood ==
  /\ JobsOK /\ ClientsOK /\ CacheOK
  /\ rsLink \in LinkType /\ rsRot \in RotType /\ rsWorker.ex \in ExType
  /\ \/ rsWorker.st = "poll" /\ Resting
     \/ rsWorker.st = "exchange" /\ ExchangeOK

(* The inductive invariant: an exchange that runs out of iterations may    *)
(* leave the RoT in the middle of a reply, and nothing is claimed after    *)
(* it.                                                                     *)
RsInv == RsShape /\ (rsWorker.gaveup \/ RsGood)

(* It holds initially.                                                     *)
LEMMA RsInvInit == RsInit => RsInv
<1> SUFFICES ASSUME RsInit PROVE RsInv
  OBVIOUS
<1>1. RsShape
  BY DEF RsInit, RsShape
<1>2. JobsOK
  BY DEF RsInit, JobsOK, QueueOK
<1>3. ClientsOK
  BY DEF RsInit, ClientsOK, ClientType
<1>4. CacheOK
  BY DEF RsInit, CacheOK
<1>5. rsLink \in LinkType /\ rsRot \in RotType /\ rsWorker.ex \in ExType /\ rsWorker.st = "poll" /\ Resting
  BY DEF RsInit, LinkType, RotType, ExType, NewExchange, IdleLink, Resting, Silent
<1> QED BY <1>1, <1>2, <1>3, <1>4, <1>5 DEF RsInv, RsGood

(* An exchange that ran out is not forgotten.                              *)
LEMMA GaveUpStays ==
  ASSUME RsShape, RsNext
  PROVE  RsShape' /\ (rsWorker.gaveup => rsWorker.gaveup')
<1>1. CASE TakeJob
  BY <1>1 DEF TakeJob, RsShape
<1>2. CASE Exchange
  BY <1>2 DEF Exchange, RsShape
<1>3. CASE UNCHANGED rsWorker
  BY <1>3 DEF RsShape
<1>4. KeepRunning => UNCHANGED rsWorker
  BY DEF KeepRunning
<1>5. ASSUME NEW c \in SpClients PROVE (Break(c) => UNCHANGED rsWorker) /\ (Return(c) => UNCHANGED rsWorker)
  BY DEF Break, Return
<1>6. ASSUME NEW c \in SpClients, NEW r \in Requests PROVE Call(c, r) => UNCHANGED rsWorker
  BY DEF Call
<1> QED BY <1>1, <1>2, <1>3, <1>4, <1>5, <1>6 DEF RsNext

(* The types of the world's parts.                                         *)
LEMMA StageNow ==
  World \in WorldType <=> rsLink \in LinkType /\ rsRot \in RotType /\ rsWorker.ex \in ExType
  BY DEF World, WorldType

(* An answer changes no client but the job's, and none's connection or     *)
(* request, nor anything if the job is not current.                        *)
OnlyAnswered(cl, d, job) ==
  /\ \A c \in SpClients : d[c].conn = cl[c].conn /\ d[c].req = cl[c].req /\ (c # job.client => d[c] = cl[c])
  /\ ~Current(cl, job) => d = cl

(* The worker's answer reaches the client that waits for it, or nobody.    *)
LEMMA AnswerKeeps ==
  ASSUME ClientsOK, NEW job \in JobType, Pending(rsClients, job), NEW resp \in Seq(Nat), Answer(job, resp),
         resp # <<>> => resp = Reply(job.req)
  PROVE  ClientsOK' /\ OnlyAnswered(rsClients, rsClients', job)
<1> DEFINE k == rsClients[job.client]
           a == [k EXCEPT !.st = "done", !.resp = resp]
<1>1. job.client \in SpClients /\ k \in ClientType /\ rsClients \in [SpClients -> ClientType]
  BY DEF ClientsOK, JobType
<1>2. a \in ClientType /\ a.conn = k.conn /\ a.req = k.req /\ a.resp = resp /\ a.st = "done"
  BY <1>1 DEF ClientType
<1>3. CASE Current(rsClients, job)
  <2>1. k.st = "wait" /\ k.conn = job.conn /\ k.req = job.req
    BY <1>3 DEF Pending, Current
  <2>2. rsClients' = [rsClients EXCEPT ![job.client] = a]
    BY <2>1, Zenon DEF Answer
  <2> HIDE DEF a
  <2>3. ClientsOK'
    BY <1>1, <1>2, <2>1, <2>2 DEF ClientsOK
  <2> QED BY <1>1, <1>2, <1>3, <2>2, <2>3 DEF OnlyAnswered
<1>4. CASE ~Current(rsClients, job)
  <2>1. ~(k.st = "wait" /\ k.conn = job.conn)
    BY <1>4 DEF Current
  <2>2. rsClients' = [rsClients EXCEPT ![job.client] = k]
    BY <2>1, Zenon DEF Answer
  <2>3. rsClients' = rsClients
    BY <1>1, <2>2
  <2> QED BY <1>4, <2>3 DEF ClientsOK, OnlyAnswered
<1> QED BY <1>3, <1>4

(* A job that is apart from the answered one stands as before.             *)
LEMMA ApartPending ==
  ASSUME NEW cl, NEW d, NEW job \in JobType, NEW b, Pending(cl, b), Apart(job, b), OnlyAnswered(cl, d, job)
  PROVE  Pending(d, b)
<1>1. job.client \in SpClients /\ b.client \in SpClients /\ b \in JobType
  BY DEF JobType, Pending
<1>2. CASE b.client # job.client
  <2>1. d[b.client] = cl[b.client]
    BY <1>1, <1>2, Zenon DEF OnlyAnswered
  <2> QED BY <2>1, Zenon DEF Pending, Current
<1>3. CASE b.client = job.client /\ Current(cl, job)
  <2>1. b.conn # cl[b.client].conn
    BY <1>3 DEF Apart, Current
  <2>2. d[b.client].conn = cl[b.client].conn
    BY <1>1, Zenon DEF OnlyAnswered
  <2> QED BY <1>1, <2>1, <2>2, Zenon DEF Pending, Current
<1>4. CASE ~Current(cl, job)
  BY <1>4, Zenon DEF OnlyAnswered
<1> QED BY <1>2, <1>3, <1>4

(* So does the channel.                                                    *)
LEMMA QueueApart ==
  ASSUME NEW cl, NEW d, NEW job \in JobType, NEW q, QueueOK(cl, q), OnlyAnswered(cl, d, job),
         \A i \in 1..Len(q) : Apart(job, q[i])
  PROVE  QueueOK(d, q)
<1>1. ASSUME NEW i \in 1..Len(q) PROVE Pending(d, q[i])
  BY ApartPending DEF QueueOK
<1> QED BY <1>1 DEF QueueOK

(* The worker takes the oldest job.                                        *)
LEMMA QueueTail ==
  ASSUME NEW cl, NEW q, QueueOK(cl, q), q # <<>>
  PROVE  /\ QueueOK(cl, Tail(q)) /\ Head(q) \in JobType /\ Pending(cl, Head(q))
         /\ \A i \in 1..Len(Tail(q)) : Apart(Head(q), Tail(q)[i])
<1> DEFINE t == Tail(q)
           h == Head(q)
<1>1. /\ t \in Seq(JobType) /\ Len(t) = Len(q) - 1 /\ \A i \in 1..Len(t) : t[i] = q[i + 1]
      /\ h \in JobType
  BY HeadTailProperties DEF QueueOK
<1>2. q \in Seq(JobType)
  BY DEF QueueOK
<1>3. Len(q) \in Nat /\ Len(q) > 0 /\ h = q[1] /\ 1 \in 1..Len(q)
  BY <1>2, EmptySeq
<1>4. Pending(cl, h)
  BY <1>3 DEF QueueOK
<1> HIDE DEF t, h
<1>5. ASSUME NEW i \in 1..Len(t) PROVE i + 1 \in 1..Len(q) /\ 1 < i + 1
  BY <1>1, <1>3
<1>6. ASSUME NEW i \in 1..Len(t) PROVE Apart(h, t[i]) /\ Pending(cl, t[i])
  BY <1>1, <1>3, <1>5 DEF QueueOK
<1>7. ASSUME NEW i \in 1..Len(t), NEW j \in 1..Len(t), i < j PROVE Apart(t[i], t[j])
  <2>1. i + 1 < j + 1
    BY <1>1, <1>3, <1>7
  <2> QED BY <1>1, <1>5, <2>1 DEF QueueOK
<1> QED BY <1>1, <1>4, <1>6, <1>7 DEF QueueOK, t, h

(* It answers from the cache or begins an exchange.                        *)
LEMMA TakeJobRs ==
  ASSUME RsShape, RsGood, TakeJob
  PROVE  RsGood'
<1> DEFINE job == Head(rsJobs)
           q == Tail(rsJobs)
<1>1. rsWorker.st = "poll" /\ Resting /\ rsJobs # <<>> /\ rsJobs' = q /\ rsRot' = rsRot
  BY DEF TakeJob, RsGood
<1>2. /\ QueueOK(rsClients, q) /\ job \in JobType /\ Pending(rsClients, job)
      /\ \A i \in 1..Len(q) : Apart(job, q[i])
  BY <1>1, QueueTail DEF RsGood, JobsOK
<1>3. job.req \in Requests
  BY <1>2 DEF JobType
<1>4. CASE rsWorker.cache[job.req] # <<>>
  <2>1. Answer(job, rsWorker.cache[job.req]) /\ rsWorker' = rsWorker /\ rsLink' = rsLink
    BY <1>4 DEF TakeJob
  <2>2. rsWorker.cache[job.req] \in Seq(Nat) /\ rsWorker.cache[job.req] = Reply(job.req)
    BY <1>3, <1>4 DEF RsGood, CacheOK
  <2> HIDE DEF job, q
  <2>3. ClientsOK' /\ OnlyAnswered(rsClients, rsClients', job)
    BY <1>2, <2>1, <2>2, AnswerKeeps DEF RsGood
  <2>4. JobsOK'
    BY <1>1, <1>2, <2>3, QueueApart DEF JobsOK
  <2>5. CacheOK'
    BY <2>1 DEF RsGood, CacheOK
  <2>6. rsLink' \in LinkType /\ rsRot' \in RotType /\ rsWorker'.ex \in ExType /\ rsWorker'.st = "poll" /\ Resting'
    BY <1>1, <2>1 DEF RsGood, Resting
  <2> QED BY <2>3, <2>4, <2>5, <2>6 DEF RsGood
<1>5. CASE rsWorker.cache[job.req] = <<>>
  <2>1. /\ rsWorker' = [rsWorker EXCEPT !.st = "exchange", !.job = job, !.ex = NewExchange]
        /\ rsLink' = Begin(rsLink) /\ rsClients' = rsClients
    BY <1>5 DEF TakeJob
  <2>2. rsWorker'.st = "exchange" /\ rsWorker'.job = job /\ rsWorker'.ex = NewExchange /\ rsWorker'.cache = rsWorker.cache
    <3> HIDE DEF job
    <3> QED BY <2>1 DEF RsShape
  <2> HIDE DEF job, q
  <2>3. ClientsOK' /\ CacheOK'
    BY <2>1, <2>2 DEF RsGood, ClientsOK, CacheOK
  <2>4. JobsOK' /\ \A i \in 1..Len(rsJobs') : Apart(rsWorker'.job, rsJobs'[i])
    BY <1>1, <1>2, <2>1, <2>2, Zenon DEF JobsOK
  <2>5. Pending(rsClients', rsWorker'.job)
    BY <1>2, <2>1, <2>2, Zenon
  <2>6. NewExchange \in ExType /\ Fresh(NewExchange) /\ NewExchange.fed = 0 /\ NewExchange.deasserted = FALSE
    BY DEF NewExchange, ExType, Fresh
  <2>7. rsLink' \in LinkType /\ Silent(rsLink') /\ Lines(rsLink', TRUE, FALSE, FALSE)
    <3>1. IdleLink \in LinkType /\ Silent(IdleLink) /\ IdleLink.ssd = FALSE /\ IdleLink.rot_irq = FALSE
      BY DEF IdleLink, LinkType, Silent
    <3>2. rsLink' = [IdleLink EXCEPT !.cs = TRUE, !.ssa = TRUE]
      BY <2>1 DEF Begin
    <3> QED BY <3>1, <3>2 DEF LinkType, Silent, Lines
  <2>8. rsRot' = [st |-> "idle", got |-> <<>>] /\ rsRot' \in RotType
    BY <1>1 DEF Resting, RotType
  <2> DEFINE w == [link |-> rsLink', rot |-> rsRot', ex |-> rsWorker'.ex, idled |-> FALSE]
  <2>9. w.link = rsLink' /\ w.rot = rsRot' /\ w.ex = NewExchange
    BY <2>2
  <2>10. World' = w
    BY DEF World
  <2> HIDE DEF w
  <2>11. Receiving(w, rsWorker'.job.req)
    <3>1. w.rot.st = "idle" /\ w.rot.got = <<>>
      BY <2>8, <2>9
    <3>2. w.link.mosi = <<>> /\ w.link.miso = <<>> /\ Lines(w.link, TRUE, FALSE, FALSE)
      BY <2>7, <2>9 DEF Silent
    <3>3. w.ex.fed = 0 /\ w.ex.deasserted = FALSE /\ Fresh(w.ex)
      BY <2>6, <2>9
    <3>4. AllAre(<<>>, rsWorker'.job.req) /\ Len(<<>>) = 0
      BY DEF AllAre
    <3>5. 0 + 0 = 0 /\ 0 <= FifoCap /\ 0 <= ReqLen
      BY RsConstants
    <3>6. /\ w.ex.deasserted # TRUE /\ Len(w.rot.got) + Len(w.link.mosi) = w.ex.fed /\ w.ex.fed <= ReqLen
          /\ Len(w.link.mosi) <= FifoCap
      BY <3>1, <3>2, <3>3, <3>4, <3>5, Zenon
    <3> QED BY <3>1, <3>2, <3>3, <3>4, <3>6, Zenon DEF Receiving
  <2>12. ExchangeOK'
    BY <2>4, <2>5, <2>10, <2>11, Zenon DEF ExchangeOK, Stage
  <2> QED BY <2>2, <2>3, <2>4, <2>6, <2>7, <2>8, <2>12 DEF RsGood
<1> QED BY <1>4, <1>5

(* It runs an iteration; the last one gives the reply to the job's         *)
(* request.                                                                *)
LEMMA ExchangeRs ==
  ASSUME RsShape, RsGood, Exchange, ~rsWorker'.gaveup
  PROVE  RsGood'
<1> DEFINE job == rsWorker.job
           r == rsWorker.job.req
<1>1. /\ rsWorker.st = "exchange" /\ Pending(rsClients, job) /\ \A i \in 1..Len(rsJobs) : Apart(job, rsJobs[i])
      /\ Stage(World, r) /\ World \in WorldType /\ rsJobs' = rsJobs
  BY StageNow DEF Exchange, RsGood, ExchangeOK
<1>2. job \in JobType /\ r \in Requests /\ r \in Nat
  BY <1>1, RsConstants DEF Pending, JobType
<1>3. PICK y \in Iteration(World, r) :
       /\ rsLink' = y.link /\ rsRot' = y.rot
       /\ IF Over(y) \/ y.ex.it + 1 = MaxIter
          THEN /\ rsWorker' = [rsWorker EXCEPT !.st = "poll", !.ex = NewExchange, !.gaveup = @ \/ ~Over(y),
                                  !.cache[rsWorker.job.req] = IF y.ex.resp # <<>> THEN y.ex.resp ELSE @]
               /\ Answer(rsWorker.job, y.ex.resp)
          ELSE /\ rsWorker' = [rsWorker EXCEPT !.ex = [y.ex EXCEPT !.it = @ + 1]]
               /\ UNCHANGED rsClients
  BY Zenon DEF Exchange
<1>4. y \in WorldType /\ (Stage(y, r) \/ Ended(y, r))
  BY <1>1, <1>2, IterationStage
<1>5. y.link \in LinkType /\ y.rot \in RotType /\ y.ex \in ExType
  BY <1>4 DEF WorldType
<1>6. rsLink' \in LinkType /\ rsRot' \in RotType
  BY <1>3, <1>5
<1>7. CASE Over(y) \/ y.ex.it + 1 = MaxIter
  <2>1. /\ rsWorker' = [rsWorker EXCEPT !.st = "poll", !.ex = NewExchange, !.gaveup = @ \/ ~Over(y),
                                  !.cache[rsWorker.job.req] = IF y.ex.resp # <<>> THEN y.ex.resp ELSE @]
        /\ Answer(rsWorker.job, y.ex.resp)
    BY <1>3, <1>7, Zenon
  <2>2. Over(y)
    BY <2>1 DEF RsShape
  <2>3. Ended(y, r)
    <3>1. y.ex.quiet = 0 => y.ex.done /\ ~y.link.rot_irq
      BY <2>2, RsConstants DEF Over
    <3>2. CASE Receiving(y, r)
      BY <3>1, <3>2 DEF Receiving, Fresh
    <3>3. CASE Working(y, r)
      BY <3>1, <3>3 DEF Working, Fresh
    <3>4. CASE Selected(y, r)
      BY <3>1, <3>4 DEF Selected, Phase2
    <3>5. CASE Ending(y, r)
      BY <3>1, <3>5 DEF Ending, Collected, Phase2, Lines
    <3> QED BY <1>4, <3>2, <3>3, <3>4, <3>5 DEF Stage
  <2>4. y.ex.resp = Reply(r) /\ Reply(r) \in Seq(Nat) /\ Reply(r) # <<>>
    <3>1. <<r, 1, 0>> # <<>>
      OBVIOUS
    <3> QED BY <1>2, <2>3, <3>1, ReplyShape DEF Ended, Collected
  <2>5. /\ rsWorker'.st = "poll" /\ rsWorker'.ex = NewExchange
        /\ rsWorker'.cache = [rsWorker.cache EXCEPT ![r] = Reply(r)]
    <3> HIDE DEF job
    <3> QED BY <2>1, <2>4 DEF RsShape
  <2> HIDE DEF job, r
  <2>6. CacheOK'
    BY <1>2, <2>4, <2>5 DEF RsGood, CacheOK
  <2>7. ClientsOK' /\ OnlyAnswered(rsClients, rsClients', job)
    BY <1>1, <1>2, <2>1, <2>4, AnswerKeeps DEF RsGood, job, r
  <2>8. JobsOK'
    BY <1>1, <1>2, <2>7, QueueApart DEF JobsOK, RsGood
  <2>9. NewExchange \in ExType
    BY DEF NewExchange, ExType
  <2>10. Resting'
    BY <1>3, <2>3 DEF Ended, Resting
  <2> QED BY <1>6, <2>5, <2>6, <2>7, <2>8, <2>9, <2>10 DEF RsGood
<1>8. CASE ~(Over(y) \/ y.ex.it + 1 = MaxIter)
  <2> DEFINE e == [y.ex EXCEPT !.it = @ + 1]
             w == [link |-> y.link, rot |-> y.rot, ex |-> e, idled |-> FALSE]
  <2>1. rsWorker' = [rsWorker EXCEPT !.ex = e] /\ rsClients' = rsClients
    BY <1>3, <1>8, Zenon
  <2>2. /\ e \in ExType /\ e.fed = y.ex.fed /\ e.deasserted = y.ex.deasserted /\ e.phase2 = y.ex.phase2
        /\ e.resp = y.ex.resp /\ e.total = y.ex.total /\ e.done = y.ex.done /\ e.quiet = y.ex.quiet
    <3>1. y.ex.it + 1 \in Nat
      BY <1>5 DEF ExType
    <3>2. e = [y.ex EXCEPT !.it = y.ex.it + 1]
      OBVIOUS
    <3> HIDE DEF e
    <3> QED BY <1>5, <3>1, <3>2 DEF ExType
  <2> HIDE DEF e
  <2>3. rsWorker'.st = rsWorker.st /\ rsWorker'.job = job /\ rsWorker'.ex = e /\ rsWorker'.cache = rsWorker.cache
    BY <2>1 DEF RsShape
  <2>4. ~Ended(y, r)
    BY <1>8 DEF Over, Ended, Collected
  <2>5. w.link = y.link /\ w.rot = y.rot /\ w.ex = e
    OBVIOUS
  <2>6. World' = w
    BY <1>3, <2>3 DEF World
  <2> HIDE DEF w, job, r
  <2>7. Stage(w, r)
    <3>1. (Fresh(y.ex) => Fresh(e)) /\ (Phase2(y.ex) => Phase2(e)) /\ (Collected(y.ex, r) => Collected(e, r))
      BY <2>2, Zenon DEF Fresh, Phase2, Collected
    <3>2. Receiving(y, r) => Receiving(w, r)
      BY <2>2, <2>5, <3>1, Zenon DEF Receiving
    <3>3. Working(y, r) => Working(w, r)
      BY <2>2, <2>5, <3>1, Zenon DEF Working
    <3>4. Selected(y, r) => Selected(w, r)
      BY <2>2, <2>5, <3>1, Zenon DEF Selected
    <3>5. Ending(y, r) => Ending(w, r)
      BY <2>2, <2>5, <3>1, Zenon DEF Ending
    <3> QED BY <1>4, <2>4, <3>2, <3>3, <3>4, <3>5 DEF Stage
  <2>8. ExchangeOK'
    <3>1. Stage(w, rsWorker'.job.req)
      BY <2>3, <2>7, Zenon DEF r, job
    <3> QED BY <1>1, <2>1, <2>3, <2>6, <3>1, Zenon DEF ExchangeOK
  <2>9. JobsOK' /\ ClientsOK' /\ CacheOK'
    BY <1>1, <2>1, <2>3, Zenon DEF RsGood, JobsOK, ClientsOK, CacheOK
  <2> QED BY <1>1, <1>6, <2>2, <2>3, <2>8, <2>9 DEF RsGood
<1> QED BY <1>7, <1>8

(* Between jobs the RoT idles.                                             *)
LEMMA KeepRunningRs ==
  ASSUME RsShape, RsGood, KeepRunning
  PROVE  RsGood'
<1>1. /\ rsWorker.st = "poll" /\ Resting /\ World \in WorldType
      /\ UNCHANGED <<rsClients, rsJobs, rsWorker>>
  BY StageNow DEF KeepRunning, RsGood
<1>2. PICK y \in Quantum(World) : rsLink' = y.link /\ rsRot' = y.rot
  BY DEF KeepRunning
<1>3. World.rot = rsRot /\ World.link = rsLink
  BY DEF World
<1>4. Micro(World) = {}
  BY <1>1, <1>3, MicroArms DEF Resting, Silent
<1>5. y = [World EXCEPT !.idled = TRUE]
  BY <1>1, <1>3, <1>4, QuantumArms DEF Resting
<1>6. rsLink' = rsLink /\ rsRot' = rsRot
  BY <1>1, <1>2, <1>3, <1>5, Idled
<1> QED BY <1>1, <1>6, Zenon DEF RsGood, JobsOK, ClientsOK, CacheOK, Resting

(* A job joins the channel.                                                *)
LEMMA QueueAppend ==
  ASSUME NEW cl, NEW q, QueueOK(cl, q), NEW b, Pending(cl, b),
         \A i \in 1..Len(q) : Apart(q[i], b)
  PROVE  QueueOK(cl, Append(q, b))
<1> DEFINE t == Append(q, b)
<1>1. q \in Seq(JobType) /\ b \in JobType /\ Len(q) \in Nat
  BY DEF QueueOK, Pending
<1>2. t \in Seq(JobType) /\ Len(t) = Len(q) + 1 /\ (\A i \in 1..Len(q) : t[i] = q[i]) /\ t[Len(q) + 1] = b
  BY <1>1, AppendProperties
<1> HIDE DEF t
<1>3. \A i \in 1..Len(t) : i \in 1..Len(q) \/ i = Len(q) + 1
  BY <1>1, <1>2
<1>4. ASSUME NEW i \in 1..Len(t) PROVE Pending(cl, t[i])
  BY <1>2, <1>3 DEF QueueOK
<1>5. ASSUME NEW i \in 1..Len(t), NEW j \in 1..Len(t), i < j PROVE Apart(t[i], t[j])
  <2>1. i \in 1..Len(q)
    BY <1>1, <1>2, <1>3, <1>5
  <2>2. CASE j \in 1..Len(q)
    BY <1>2, <1>5, <2>1, <2>2 DEF QueueOK
  <2>3. CASE j = Len(q) + 1
    BY <1>2, <2>1, <2>3
  <2> QED BY <1>3, <2>2, <2>3
<1> QED BY <1>2, <1>4, <1>5 DEF QueueOK, t

(* A client sends a job, or only changes its own record.                   *)
LEMMA ClientStep ==
  ASSUME RsGood, ClientsOK', UNCHANGED <<rsWorker, rsLink, rsRot>>,
         \A b : Pending(rsClients, b) => Pending(rsClients', b),
         \/ rsJobs' = rsJobs
         \/ \E n : /\ rsJobs' = Append(rsJobs, n) /\ Pending(rsClients', n)
                  /\ \A b : Pending(rsClients, b) => Apart(b, n)
  PROVE  RsGood'
<1>1. QueueOK(rsClients', rsJobs)
  BY DEF RsGood, JobsOK, QueueOK
<1>2. CacheOK' /\ (Resting => Resting')
  BY DEF RsGood, CacheOK, Resting
<1>3. CASE rsJobs' = rsJobs
  <2>1. JobsOK'
    BY <1>1, <1>3 DEF JobsOK
  <2>2. ExchangeOK => ExchangeOK'
    BY <1>3 DEF ExchangeOK, World
  <2> QED BY <1>2, <2>1, <2>2 DEF RsGood
<1>4. ASSUME NEW n, rsJobs' = Append(rsJobs, n), Pending(rsClients', n), \A b : Pending(rsClients, b) => Apart(b, n)
      PROVE  RsGood'
  <2>1. \A i \in 1..Len(rsJobs) : Apart(rsJobs[i], n)
    BY <1>4 DEF RsGood, JobsOK, QueueOK
  <2>2. JobsOK'
    BY <1>1, <1>4, <2>1, QueueAppend DEF JobsOK
  <2>3. ASSUME ExchangeOK PROVE ExchangeOK'
    <3>1. Pending(rsClients', rsWorker'.job) /\ Stage(World', rsWorker'.job.req)
      BY <2>3 DEF ExchangeOK, World
    <3>2. rsJobs \in Seq(JobType) /\ n \in JobType /\ Len(rsJobs) \in Nat
      BY <1>4 DEF RsGood, JobsOK, QueueOK, Pending
    <3>3. /\ Len(rsJobs') = Len(rsJobs) + 1 /\ (\A i \in 1..Len(rsJobs) : rsJobs'[i] = rsJobs[i])
          /\ rsJobs'[Len(rsJobs) + 1] = n
      BY <1>4, <3>2, AppendProperties
    <3>4. ASSUME NEW i \in 1..Len(rsJobs') PROVE Apart(rsWorker.job, rsJobs'[i])
      <4>1. CASE i \in 1..Len(rsJobs)
        BY <2>3, <3>3, <4>1 DEF ExchangeOK
      <4>2. CASE i = Len(rsJobs) + 1
        BY <1>4, <2>3, <3>3, <4>2 DEF ExchangeOK
      <4> QED BY <3>2, <3>3, <4>1, <4>2
    <3> QED BY <3>1, <3>4 DEF ExchangeOK
  <2> QED BY <1>2, <2>2, <2>3 DEF RsGood
<1> QED BY <1>3, <1>4

(* A client changes while nobody waits for it, or moves to a later         *)
(* connection.                                                             *)
LEMMA OthersStand ==
  ASSUME NEW cl, NEW d, NEW c \in SpClients, \A g \in SpClients : g # c => d[g] = cl[g],
         cl[c].conn \in Nat, d[c].conn \in Nat,
         \/ d[c].conn = cl[c].conn /\ cl[c].st # "wait"
         \/ cl[c].conn < d[c].conn,
         NEW b, Pending(cl, b), NEW n, n.client = c, n.conn = d[c].conn
  PROVE  Pending(d, b) /\ Apart(b, n)
<1>1. b \in JobType /\ b.client \in SpClients /\ b.conn \in Nat /\ b.conn <= cl[b.client].conn
  BY DEF Pending, JobType
<1>2. CASE b.client # c
  <2>1. d[b.client] = cl[b.client]
    BY <1>1, <1>2
  <2>2. Pending(d, b)
    BY <2>1, Zenon DEF Pending, Current
  <2> QED BY <1>2, <2>2, Zenon DEF Apart
<1>3. CASE b.client = c
  <2>1. b.conn <= cl[c].conn /\ (cl[c].st # "wait" => b.conn # cl[c].conn)
    BY <1>1, <1>3 DEF Pending, Current
  <2>2. b.conn < d[c].conn
    <3> DEFINE x == b.conn
               y == cl[c].conn
               z == d[c].conn
    <3>1. x \in Nat /\ y \in Nat /\ z \in Nat /\ x <= y /\ (z > y \/ (z = y /\ x # y))
      BY <1>1, <2>1
    <3> HIDE DEF x, y, z
    <3>2. x < z
      BY <3>1
    <3> QED BY <3>2 DEF x, z
  <2>3. b.conn <= d[c].conn /\ b.conn # d[c].conn
    BY <1>1, <2>2
  <2>4. Pending(d, b)
    BY <1>1, <1>3, <2>3, Zenon DEF Pending, Current
  <2> QED BY <2>3, <2>4, Zenon DEF Apart
<1> QED BY <1>2, <1>3

(* A call returns.                                                         *)
LEMMA ReturnRs ==
  ASSUME RsGood, NEW c \in SpClients, Return(c)
  PROVE  RsGood'
<1> DEFINE k == rsClients[c]
           a == [k EXCEPT !.st = "idle", !.resp = <<>>]
<1>1. /\ k.st = "done" /\ k \in ClientType /\ rsClients \in [SpClients -> ClientType]
      /\ rsClients' = [rsClients EXCEPT ![c] = a]
      /\ UNCHANGED <<rsJobs, rsWorker, rsLink, rsRot>>
  BY DEF Return, RsGood, ClientsOK
<1>2. a \in ClientType /\ a.conn = k.conn /\ a.req = k.req /\ a.resp = <<>> /\ a.st = "idle" /\ k.conn \in Nat
  <2>1. <<>> \in Seq(Nat)
    BY EmptySeq
  <2> QED BY <1>1, <2>1 DEF ClientType
<1> HIDE DEF a
<1>3. ClientsOK'
  BY <1>1, <1>2 DEF RsGood, ClientsOK
<1>4. rsClients'[c] = a /\ \A g \in SpClients : g # c => rsClients'[g] = rsClients[g]
  BY <1>1
<1>5. ASSUME NEW b, Pending(rsClients, b) PROVE Pending(rsClients', b)
  <2> DEFINE n == [client |-> c, conn |-> k.conn]
  <2>1. /\ rsClients'[c].conn = rsClients[c].conn /\ rsClients[c].conn \in Nat /\ rsClients'[c].conn \in Nat
        /\ rsClients[c].st # "wait" /\ n.conn = rsClients'[c].conn /\ n.client = c
    BY <1>1, <1>2, <1>4
  <2> HIDE DEF n
  <2> QED BY <1>4, <1>5, <2>1, OthersStand
<1> QED BY <1>1, <1>3, <1>5, ClientStep

(* A client calls rot_exchange.                                            *)
LEMMA CallRs ==
  ASSUME RsGood, NEW c \in SpClients, NEW r \in Requests, Call(c, r)
  PROVE  RsGood'
<1> DEFINE k == rsClients[c]
           a == [k EXCEPT !.st = "wait", !.req = r, !.tries = 1, !.calls = k.calls + 1]
           n == [client |-> c, conn |-> k.conn, req |-> r]
<1>1. /\ k.st = "idle" /\ k \in ClientType /\ rsClients \in [SpClients -> ClientType]
      /\ rsClients' = [rsClients EXCEPT ![c] = a] /\ rsJobs' = Append(rsJobs, n)
      /\ UNCHANGED <<rsWorker, rsLink, rsRot>>
  <2>1. rsClients' = [rsClients EXCEPT ![c] = a]
    BY Zenon DEF Call
  <2> HIDE DEF a
  <2> QED BY <2>1 DEF Call, RsGood, ClientsOK
<1>2. r \in Nat /\ k.calls + 1 \in Nat /\ k.conn \in Nat
  BY <1>1, RsConstants DEF ClientType
<1>3. a \in ClientType /\ a.conn = k.conn /\ a.req = r /\ a.resp = k.resp /\ a.st = "wait"
  BY <1>1, <1>2 DEF ClientType
<1>4. n \in JobType /\ n.client = c /\ n.conn = k.conn /\ n.req = r
  BY <1>2 DEF JobType
<1> HIDE DEF a, n
<1>5. rsClients'[c] = a /\ \A g \in SpClients : g # c => rsClients'[g] = rsClients[g]
  BY <1>1
<1>6. ASSUME NEW b, Pending(rsClients, b) PROVE Pending(rsClients', b) /\ Apart(b, n)
  <2>1. /\ rsClients'[c].conn = rsClients[c].conn /\ rsClients[c].conn \in Nat /\ rsClients'[c].conn \in Nat
        /\ rsClients[c].st # "wait" /\ n.conn = rsClients'[c].conn /\ n.client = c
    BY <1>1, <1>2, <1>3, <1>4, <1>5
  <2> QED BY <1>5, <1>6, <2>1, OthersStand
<1>7. Pending(rsClients', n)
  <2>1. k.conn <= k.conn
    BY <1>2
  <2> QED BY <1>3, <1>4, <1>5, <2>1, Zenon DEF Pending
<1>8. ClientsOK'
  <2>1. k.resp = <<>>
    BY <1>1 DEF RsGood, ClientsOK
  <2> QED BY <1>1, <1>3, <2>1 DEF RsGood, ClientsOK
<1> QED BY <1>1, <1>6, <1>7, <1>8, ClientStep

(* A connection breaks: the client sends its request again, on a new one,  *)
(* or gives up.                                                            *)
LEMMA BreakRs ==
  ASSUME RsGood, NEW c \in SpClients, Break(c)
  PROVE  RsGood'
<1> DEFINE k == rsClients[c]
           a == [k EXCEPT !.tries = 2, !.conn = k.conn + 1]
           d == [k EXCEPT !.st = "done", !.resp = <<>>, !.conn = k.conn + 1]
           n == [client |-> c, conn |-> k.conn + 1, req |-> k.req]
<1>1. /\ k.st = "wait" /\ k \in ClientType /\ rsClients \in [SpClients -> ClientType]
      /\ UNCHANGED <<rsWorker, rsLink, rsRot>>
  BY DEF Break, RsGood, ClientsOK
<1>2. \/ rsClients' = [rsClients EXCEPT ![c] = a] /\ rsJobs' = Append(rsJobs, n)
      \/ rsClients' = [rsClients EXCEPT ![c] = d] /\ rsJobs' = rsJobs
  BY Zenon DEF Break, Resend
<1>3. k.conn \in Nat /\ k.conn + 1 \in Nat /\ k.conn + 1 > k.conn /\ <<>> \in Seq(Nat) /\ k.resp = <<>>
  BY <1>1, EmptySeq DEF ClientType, RsGood, ClientsOK
<1>4. a \in ClientType /\ a.conn = k.conn + 1 /\ a.req = k.req /\ a.resp = k.resp /\ a.st = "wait"
  BY <1>1, <1>3 DEF ClientType
<1>5. d \in ClientType /\ d.conn = k.conn + 1 /\ d.req = k.req /\ d.resp = <<>>
  BY <1>1, <1>3 DEF ClientType
<1>6. n.client = c /\ n.conn = k.conn + 1 /\ n.req = k.req
  OBVIOUS
<1> HIDE DEF a, d
<1>7. /\ ClientsOK' /\ rsClients'[c].conn = k.conn + 1
      /\ \A g \in SpClients : g # c => rsClients'[g] = rsClients[g]
  BY <1>1, <1>2, <1>3, <1>4, <1>5 DEF RsGood, ClientsOK
<1>8. ASSUME NEW b, Pending(rsClients, b) PROVE Pending(rsClients', b) /\ Apart(b, n)
  <2>1. /\ rsClients[c].conn < rsClients'[c].conn /\ rsClients[c].conn \in Nat /\ rsClients'[c].conn \in Nat
        /\ n.conn = rsClients'[c].conn /\ n.client = c
    BY <1>3, <1>6, <1>7
  <2> HIDE DEF n
  <2>2. \A g \in SpClients : g # c => rsClients'[g] = rsClients[g]
    BY <1>7
  <2> QED BY <1>8, <2>1, <2>2, OthersStand
<1>9. CASE rsClients' = [rsClients EXCEPT ![c] = d] /\ rsJobs' = rsJobs
  BY <1>1, <1>7, <1>8, <1>9, ClientStep
<1>10. CASE rsClients' = [rsClients EXCEPT ![c] = a] /\ rsJobs' = Append(rsJobs, n)
  <2>1. rsClients'[c] = a /\ k.conn + 1 <= k.conn + 1
    BY <1>1, <1>3, <1>10
  <2>2. k.req \in Requests
    BY <1>1 DEF RsGood, ClientsOK
  <2>3. n \in JobType
    BY <1>3, <2>2 DEF JobType
  <2> HIDE DEF n
  <2>4. Pending(rsClients', n)
    BY <1>4, <1>6, <2>1, <2>3, Zenon DEF Pending
  <2> QED BY <1>1, <1>7, <1>8, <1>10, <2>4, ClientStep
<1> QED BY <1>2, <1>9, <1>10

(* A step that changes nothing.                                            *)
LEMMA RsStutter == RsInv /\ UNCHANGED rsVars => RsInv'
  BY DEF RsInv, RsShape, RsGood, rsVars, JobsOK, ClientsOK, CacheOK, ExchangeOK, Resting, World

(* The invariant of the shared RoT service holds in every reachable state, *)
(* for every number of SPs and every length of requests and FIFO           *)
(* (rot_service.rs, rot_exchange).                                         *)
THEOREM RsInvariance == RsSpec => []RsInv
<1>1. RsInv /\ [RsNext]_rsVars => RsInv'
  <2> SUFFICES ASSUME RsInv, [RsNext]_rsVars PROVE RsInv'
    OBVIOUS
  <2>1. CASE UNCHANGED rsVars
    BY <2>1, RsStutter
  <2>2. CASE RsNext
    <3>1. RsShape' /\ (rsWorker.gaveup => rsWorker.gaveup')
      BY <2>2, GaveUpStays DEF RsInv
    <3>2. CASE rsWorker'.gaveup
      BY <3>1, <3>2 DEF RsInv
    <3>3. CASE ~rsWorker'.gaveup
      <4>1. RsShape /\ RsGood
        BY <3>1, <3>3 DEF RsInv
      <4>2. RsGood'
        BY <2>2, <3>3, <4>1, TakeJobRs, ExchangeRs, KeepRunningRs, BreakRs, ReturnRs, CallRs DEF RsNext
      <4> QED BY <3>1, <4>2 DEF RsInv
    <3> QED BY <3>2, <3>3
  <2> QED BY <2>1, <2>2
<1> QED BY <1>1, RsInvInit, PTL DEF RsSpec

(* An SP process gets the reply to the request it made, or none, and the   *)
(* cache pairs every request with its own reply, across broken             *)
(* connections, resent requests and other SPs' exchanges, unless an        *)
(* exchange ran out of iterations (rot_service.rs).                        *)
THEOREM RepliesAreOwn == RsSpec => []OwnReplyOrNone
<1>1. RsInv => OwnReplyOrNone
  BY DEF RsInv, RsGood, ClientsOK, CacheOK, OwnReplyOrNone
<1> QED BY <1>1, RsInvariance, PTL

=============================================================================
