------------------------------ MODULE RotService ------------------------------
(***************************************************************************)
(* The shared RoT service (src/src/rot_service.rs).  Every SP process has  *)
(* a RotClient; each connection has a thread that hands one framed request *)
(* at a time to the worker; the worker owns the only RoT, drives it        *)
(* through a sprot transaction (rot_exchange) or answers from its cache.   *)
(* Connections may break and the RoT may take longer than the worker       *)
(* waits.  The RoT's firmware is external.                                 *)
(*                                                                         *)
(* Request r is ReqLen bytes r; its reply is r, the length 1 and a body    *)
(* byte 0, after any number of dummy zero bytes.                           *)
(***************************************************************************)
EXTENDS Integers, Sequences, SequencesExt

CONSTANTS
  SpClients,   \* the SP processes
  Requests,    \* positive numbers above 1
  ReqLen,      \* bytes of a request
  FifoCap,     \* bytes fed ahead of the RoT (16)
  LowMark,     \* chip select is released when this many are left (2)
  MaxQuiet,    \* quiet iterations that end a short reply (8)
  MaxIter,     \* bound: iterations of an exchange (200_000)
  MaxCalls,    \* bound: exchanges of a client
  MaxBreaks    \* bound: broken connections

ASSUME RsAssumption ==
  /\ Requests \subseteq Nat \ {0, 1}
  /\ {ReqLen, FifoCap, MaxQuiet, MaxIter} \subseteq Nat \ {0}
  /\ {LowMark, MaxCalls, MaxBreaks} \subseteq Nat

VARIABLES
  rsClients,  \* per SP: the exchange under way
  rsJobs,     \* the worker's channel: [client, conn, req]
  rsWorker,   \* the worker and its cache; gaveup: an exchange ran out of iterations
  rsLink,     \* SprotLink
  rsRot,      \* the RoT's firmware
  rsBreaks

rsVars == <<rsClients, rsJobs, rsWorker, rsLink, rsRot, rsBreaks>>

RequestBytes(r) == [i \in 1..ReqLen |-> r]
Reply(r) == <<r, 1, 0>>

-----------------------------------------------------------------------------
(* The RoT: receive until chip select is released, work, assert rot-irq,   *)
(* send when selected again, finish when deselected.                       *)

ByteIn(x) ==
  [x EXCEPT !.link = [x.link EXCEPT !.mosi = Tail(x.link.mosi)],
            !.rot = [st |-> "recv", got |-> Append(x.rot.got, Head(x.link.mosi))]]

RequestIn(x) ==
  [x EXCEPT !.link = [x.link EXCEPT !.ssd = FALSE, !.ssa = FALSE], !.rot = [st |-> "work", got |-> x.rot.got]]

WorkDone(x) ==
  [x EXCEPT !.link = [x.link EXCEPT !.rot_irq = TRUE], !.rot = [st |-> "ready", got |-> x.rot.got]]

ReplyOut(x, dummy) ==
  [x EXCEPT !.link = [x.link EXCEPT !.miso = x.link.miso \o dummy \o Reply(Head(x.rot.got))],
            !.rot = [st |-> "send", got |-> x.rot.got]]

ReplyTaken(x) ==
  [x EXCEPT !.link = [x.link EXCEPT !.ssd = FALSE, !.ssa = FALSE, !.rot_irq = FALSE],
            !.rot = [st |-> "idle", got |-> <<>>]]

Micro(x) ==
  LET l == x.link
      t == x.rot
  IN  CASE t.st \in {"idle", "recv"} /\ l.mosi # <<>> /\ (l.cs \/ l.ssd) -> {ByteIn(x)}
        [] t.st = "recv" /\ l.mosi = <<>> /\ l.ssd -> {RequestIn(x)}
        [] t.st = "work" -> {WorkDone(x)}
        [] t.st = "ready" /\ l.cs /\ l.ssa -> {ReplyOut(x, dummy) : dummy \in {<<>>, <<0>>}}
        [] t.st = "send" /\ l.ssd -> {ReplyTaken(x)}
        [] OTHER -> {}

(* run_quantum: some instructions; the core idles when it has nothing to   *)
(* do.  Work may take any number of quanta.                                *)
Moves(x) ==
  Micro(x) \cup (UNION {Micro(y) : y \in Micro(x)}) \cup (IF x.rot.st = "work" THEN {x} ELSE {})

Quantum(x) ==
  IF Micro(x) = {} THEN {[x EXCEPT !.idled = TRUE]} ELSE {[y EXCEPT !.idled = FALSE] : y \in Moves(x)}

-----------------------------------------------------------------------------
(* rot_exchange                                                            *)

IdleLink == [mosi |-> <<>>, miso |-> <<>>, cs |-> FALSE, ssa |-> FALSE, ssd |-> FALSE, rot_irq |-> FALSE]

Begin(l) == [IdleLink EXCEPT !.cs = TRUE, !.ssa = TRUE]

NewExchange == [fed |-> 0, deasserted |-> FALSE, phase2 |-> FALSE, resp |-> <<>>, total |-> 0,
                done |-> FALSE, quiet |-> 0, it |-> 0]

(* Phase 1: the request goes in as the RoT drains it.                      *)
Feed(x, r) ==
  IF x.ex.deasserted THEN x
  ELSE LET room == FifoCap - Len(x.link.mosi)
           left == ReqLen - x.ex.fed
           n    == IF left < room THEN left ELSE room
           m    == x.link.mosi \o SubSeq(RequestBytes(r), 1, n)
           out  == x.ex.fed + n = ReqLen /\ Len(m) <= LowMark
       IN  [x EXCEPT !.ex = [x.ex EXCEPT !.fed = @ + n, !.deasserted = out],
                     !.link = [x.link EXCEPT !.mosi = m, !.cs = @ /\ ~out, !.ssd = @ \/ out]]

EnterPhase2(x) ==
  [x EXCEPT !.ex = [x.ex EXCEPT !.phase2 = TRUE],
            !.link = [x.link EXCEPT !.cs = TRUE, !.ssa = TRUE, !.ssd = FALSE]]

(* The reply is collected in phase 2 only; after its end it is discarded.  *)
Collect(x) ==
  IF ~x.ex.phase2 THEN x
  ELSE [x EXCEPT !.ex = [x.ex EXCEPT !.resp = IF x.ex.done THEN @ ELSE @ \o x.link.miso],
                 !.link = [x.link EXCEPT !.miso = <<>>]]

Data(b) == b # 0
Start(resp) == SelectInSeq(resp, Data)

(* The declared length bounds the reply; the end releases chip select.     *)
Bound(x) ==
  LET start == Start(x.ex.resp)
  IN  IF x.ex.phase2 /\ x.ex.total = 0 /\ start # 0 /\ Len(x.ex.resp) >= start + 1
      THEN [x EXCEPT !.ex = [x.ex EXCEPT !.total = start + 1 + x.ex.resp[start + 1]]]
      ELSE x

Finish(x) ==
  IF x.ex.total # 0 /\ Len(x.ex.resp) >= x.ex.total /\ ~x.ex.done
  THEN [x EXCEPT !.ex = [x.ex EXCEPT !.resp = SubSeq(@, Start(@), x.ex.total), !.done = TRUE],
                 !.link = [x.link EXCEPT !.cs = FALSE, !.ssa = FALSE, !.ssd = TRUE]]
  ELSE x

CountQuiet(x) ==
  [x EXCEPT !.ex = [x.ex EXCEPT !.quiet = IF x.ex.phase2 /\ x.idled /\ x.link.miso = <<>> THEN @ + 1 ELSE 0]]

Over(x) == (x.ex.done /\ ~x.link.rot_irq) \/ x.ex.quiet >= MaxQuiet

(* One iteration; entering phase 2 ends it early.                          *)
Iteration(x, r) ==
  UNION {IF ~y.ex.phase2 /\ y.link.rot_irq THEN {EnterPhase2(y)}
         ELSE {CountQuiet(z) : z \in {Finish(w) : w \in {Bound(v) : v \in {Collect(y)}}}}
           : y \in Quantum(Feed(x, r))}

-----------------------------------------------------------------------------
(* The worker                                                              *)

World == [link |-> rsLink, rot |-> rsRot, ex |-> rsWorker.ex, idled |-> FALSE]

(* The job's connection is still the client's: the answer gets through.    *)
Answer_AnyConn(job, resp) ==
  rsClients' = [rsClients EXCEPT ![job.client] =
    IF @.st = "wait" THEN [@ EXCEPT !.st = "done", !.resp = resp] ELSE @]

Answer(job, resp) ==
  rsClients' = [rsClients EXCEPT ![job.client] =
    IF @.st = "wait" /\ @.conn = job.conn THEN [@ EXCEPT !.st = "done", !.resp = resp] ELSE @]

TakeJob ==
  /\ rsWorker.st = "poll" /\ rsJobs # <<>>
  /\ LET job == Head(rsJobs)
     IN  IF rsWorker.cache[job.req] # <<>>
         THEN /\ Answer(job, rsWorker.cache[job.req])
              /\ UNCHANGED <<rsWorker, rsLink>>
         ELSE /\ rsWorker' = [rsWorker EXCEPT !.st = "exchange", !.job = job, !.ex = NewExchange]
              /\ rsLink' = Begin(rsLink)
              /\ UNCHANGED rsClients
  /\ rsJobs' = Tail(rsJobs)
  /\ UNCHANGED <<rsRot, rsBreaks>>

Exchange ==
  /\ rsWorker.st = "exchange"
  /\ \E y \in Iteration(World, rsWorker.job.req) :
       /\ rsLink' = y.link /\ rsRot' = y.rot
       /\ IF Over(y) \/ y.ex.it + 1 = MaxIter
          THEN /\ rsWorker' = [rsWorker EXCEPT !.st = "poll", !.ex = NewExchange, !.gaveup = @ \/ ~Over(y),
                                  !.cache[rsWorker.job.req] = IF y.ex.resp # <<>> THEN y.ex.resp ELSE @]
               /\ Answer(rsWorker.job, y.ex.resp)
          ELSE /\ rsWorker' = [rsWorker EXCEPT !.ex = [y.ex EXCEPT !.it = @ + 1]]
               /\ UNCHANGED rsClients
  /\ UNCHANGED <<rsJobs, rsBreaks>>

(* Between requests the RoT keeps running.                                 *)
KeepRunning ==
  /\ rsWorker.st = "poll" /\ rsJobs = <<>>
  /\ \E y \in Quantum(World) : rsLink' = y.link /\ rsRot' = y.rot
  /\ UNCHANGED <<rsClients, rsJobs, rsWorker, rsBreaks>>

-----------------------------------------------------------------------------
(* The clients                                                             *)

(* exchange: connect if need be, write the frame and wait; conn_loop reads *)
(* it and passes it on.                                                    *)
Call(c, r) ==
  LET k == rsClients[c] IN
  /\ k.st = "idle" /\ k.calls < MaxCalls
  /\ rsClients' = [rsClients EXCEPT ![c] = [k EXCEPT !.st = "wait", !.req = r, !.tries = 1, !.calls = k.calls + 1]]
  /\ rsJobs' = Append(rsJobs, [client |-> c, conn |-> k.conn, req |-> r])
  /\ UNCHANGED <<rsWorker, rsLink, rsRot, rsBreaks>>

Resend_Forgotten(c, k) == rsJobs
Resend(c, k) == Append(rsJobs, [client |-> c, conn |-> k.conn + 1, req |-> k.req])

(* The connection breaks.  The first time the request is sent again on a   *)
(* new one; when that breaks too, or cannot be made, the answer is empty.  *)
Break(c) ==
  LET k == rsClients[c] IN
  /\ k.st = "wait" /\ rsBreaks < MaxBreaks
  /\ rsBreaks' = rsBreaks + 1
  /\ \/ /\ k.tries = 1
        /\ rsClients' = [rsClients EXCEPT ![c] = [k EXCEPT !.tries = 2, !.conn = k.conn + 1]]
        /\ rsJobs' = Resend(c, k)
     \/ /\ rsClients' = [rsClients EXCEPT ![c] = [k EXCEPT !.st = "done", !.resp = <<>>, !.conn = k.conn + 1]]
        /\ UNCHANGED rsJobs
  /\ UNCHANGED <<rsWorker, rsLink, rsRot>>

Return(c) ==
  /\ rsClients[c].st = "done"
  /\ rsClients' = [rsClients EXCEPT ![c] = [@ EXCEPT !.st = "idle", !.resp = <<>>]]
  /\ UNCHANGED <<rsJobs, rsWorker, rsLink, rsRot, rsBreaks>>

RsInit ==
  /\ rsClients = [c \in SpClients |-> [st |-> "idle", req |-> 0, tries |-> 0, conn |-> 1, calls |-> 0, resp |-> <<>>]]
  /\ rsJobs = <<>>
  /\ rsWorker = [st |-> "poll", job |-> [client |-> "none", conn |-> 0, req |-> 0], ex |-> NewExchange,
                 cache |-> [r \in Requests |-> <<>>], gaveup |-> FALSE]
  /\ rsLink = IdleLink /\ rsRot = [st |-> "idle", got |-> <<>>] /\ rsBreaks = 0

RsNext ==
  \/ TakeJob \/ Exchange \/ KeepRunning
  \/ \E c \in SpClients : Break(c) \/ Return(c)
  \/ \E c \in SpClients, r \in Requests : Call(c, r)

(* The worker thread runs.                                                 *)
RsFairness == WF_rsVars(TakeJob \/ Exchange)

RsSpec == RsInit /\ [][RsNext]_rsVars /\ RsFairness

-----------------------------------------------------------------------------
(* Properties                                                              *)

\* What an exchange returns is the RoT's reply to that very request, whole and
\* without padding, or nothing: not another client's, not that of a request
\* whose connection broke; and the cache holds no other, until an exchange runs
\* out of iterations (rot_exchange, conn_loop, RotClient::exchange).
OwnReplyOrNone ==
  rsWorker.gaveup \/
  /\ \A c \in SpClients : rsClients[c].resp # <<>> => rsClients[c].resp = Reply(rsClients[c].req)
  /\ \A r \in Requests : rsWorker.cache[r] # <<>> => rsWorker.cache[r] = Reply(r)

\* Every exchange of an SP ends: with connections breaking at any moment and a
\* RoT that may not answer in time, no job is left without an answer.  The SPs
\* make finitely many.
ExchangeReturns == []<>(\A c \in SpClients : rsClients[c].st # "wait")
=============================================================================
