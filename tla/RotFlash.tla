------------------------------ MODULE RotFlash -------------------------------
(***************************************************************************)
(* The LPC55 flash and its command engine (src/src/rot_flash.rs): an array *)
(* of pages, a set of erased pages that stands for the ECC, a page buffer  *)
(* filled row by row and committed by Program, and two backing files, the  *)
(* array and the erased set, written one after the other by every command  *)
(* that changes flash.  The firmware's driver writes whole pages; the      *)
(* emulator may be killed at any point of a command, and either host write *)
(* may fail, before or after it has changed its file.                      *)
(*                                                                         *)
(* A word has one bit: TRUE as after an erase, FALSE cleared.              *)
(***************************************************************************)
EXTENDS Integers, Sequences

CONSTANTS
  RfPages,     \* NPAGES
  RfRows,      \* WORDS_PER_PAGE
  SeedPages,   \* pages a fresh device has programmed
  RfAddrs,     \* word numbers firmware writes to STARTA and STOPA, within the array or not
  RfContents   \* what firmware writes to a page

ASSUME RotFlashAssumption ==
  /\ {RfPages, RfRows} \subseteq Nat \ {0}
  /\ SeedPages \subseteq 0..RfPages - 1 /\ RfAddrs \subseteq Nat
  /\ RfContents \subseteq [0..RfRows - 1 -> BOOLEAN]

Page  == 0..RfPages - 1
Row   == 0..RfRows - 1
WordNo == 0..RfPages * RfRows - 1
PageOf(w)     == w \div RfRows
(* The pages cmd_erase goes through: those of the range within the array.  *)
PagesOf(a, b) == {p \in Page : PageOf(a) <= p /\ p <= PageOf(b)}
BlankBuf == [r \in Row |-> TRUE]

VARIABLES
  rf,       \* the model: mem, erased, page_buf, file
  rfDisk,   \* the two backing files
  rfAlive,  \* the process runs
  rfDrv,    \* the driver's page write: rows written and rows to write
  rfAck,    \* per page, what the last command made of it
  rfStored, \* the pages for which the array file, and the bitset file, have that
  rfResp    \* STATUS and DATAW after a read or a blank check, until firmware took them

rfVars == <<rf, rfDisk, rfAlive, rfDrv, rfAck, rfStored, rfResp>>

NoDrv   == [st |-> "idle", page |-> 0, row |-> 0, data |-> BlankBuf]
NoResp  == [cmd |-> "none", a |-> 0, b |-> 0, ans |-> [status |-> {}, dataw |-> 0]]
Unknowable == [k |-> "any", v |-> BlankBuf]
AckErased  == [k |-> "erased", v |-> BlankBuf]
Data(v) == [k |-> "data", v |-> v]
NoneStored == [array |-> {}, bits |-> {}]

-----------------------------------------------------------------------------
(* The backing files                                                       *)

NewFlash(m, e) == [mem |-> m, erased |-> e, page_buf |-> BlankBuf, file |-> FALSE]
Off == NewFlash([w \in WordNo |-> TRUE], Page)

NoDisk == [data |-> <<>>, bits |-> {}, exists |-> FALSE, hasBits |-> FALSE]

(* What new() makes of the array file: a short file leaves the rest erased. *)
LoadedMem(d) == [w \in WordNo |-> IF w < Len(d.data) THEN d.data[w + 1] ELSE TRUE]

(* n of the words lo.. of m in the file; a seek alone does not extend it.  *)
PutWords(d, m, lo, n) ==
  LET len == IF n = 0 \/ Len(d.data) > lo + n THEN Len(d.data) ELSE lo + n
  IN  [d EXCEPT !.exists = TRUE,
                !.data = [i \in 1..len |-> IF i > lo /\ i <= lo + n THEN m[i - 1]
                                           ELSE IF i <= Len(d.data) THEN d.data[i] ELSE FALSE]]

(* fs::write truncates the bitset and writes it again.  new() takes a      *)
(* short one, of the first n pages (a byte is eight of them): the others   *)
(* keep their default, erased.                                             *)
PutBits(d, e, n) == [d EXCEPT !.bits = {p \in Page : p < n => p \in e}, !.hasBits = TRUE]

(* The write through to the array, which after a failure is given up.      *)
WriteArray(f, d, lo, n) ==
  IF f.file THEN {[d |-> PutWords(d, f.mem, lo, n), f |-> f, whole |-> TRUE]}
                 \cup {[d |-> PutWords(d, f.mem, lo, k), f |-> [f EXCEPT !.file = FALSE], whole |-> FALSE] :
                         k \in 0..n}
  ELSE {[d |-> d, f |-> f, whole |-> FALSE]}

(* persist_bitset: the file does not open and stays, or has the first n.   *)
WriteBits(d, e) ==
  {[d |-> d, opened |-> FALSE, upto |-> 0]}
  \cup {[d |-> PutBits(d, e, n), opened |-> TRUE, upto |-> n] : n \in 0..RfPages}

(* The array, then the bitset, whatever became of the array; the process   *)
(* goes on, or was killed at this point.                                   *)
Outcomes(f, d, lo, n) ==
  UNION {{[d |-> b.d, f |-> a.f, whole |-> a.whole, opened |-> b.opened, upto |-> b.upto, alive |-> alive] :
            b \in WriteBits(a.d, f.erased), alive \in BOOLEAN} : a \in WriteArray(f, d, lo, n)}

(* Nothing is written.                                                     *)
Unwritten(f, alive) ==
  [d |-> rfDisk, f |-> f, whole |-> FALSE, opened |-> FALSE, upto |-> 0, alive |-> alive]

(* persist_pages: the slice of a range that ends before it begins, as one  *)
(* beyond the array does, panics.                                          *)
PersistPages(f, first, last) ==
  LET lo  == first * RfRows
      end == IF last < RfPages THEN (last + 1) * RfRows ELSE RfPages * RfRows
  IN  IF f.file /\ lo > end THEN {Unwritten(f, FALSE)} ELSE Outcomes(f, rfDisk, lo, end - lo)

PersistAll(f) == Outcomes(f, rfDisk, 0, RfPages * RfRows)

(* The files have a page of ps after a command that completed and wrote it *)
(* whole.  The bits of the others are written along.                       *)
Stored(o, ps) ==
  [array |-> IF o.whole /\ o.alive THEN rfStored.array \cup ps ELSE rfStored.array \ ps,
   bits  |-> IF o.opened THEN {p \in Page : p < o.upto} ELSE rfStored.bits \ ps]

(* What is known once the process is gone: what both files have.           *)
Outlives(ack, st) == [p \in Page |-> IF p \in st.array \cap st.bits THEN ack[p] ELSE Unknowable]

(* The end of a command, or of a start, that makes new of the pages ps.    *)
Settle(saves, ps, new, old) ==
  \E o \in saves :
    LET ack == [p \in Page |-> IF p \in ps THEN new[p] ELSE old[p]]
    IN  /\ rf' = (IF o.alive THEN o.f ELSE Off) /\ rfDisk' = o.d /\ rfAlive' = o.alive
        /\ rfStored' = Stored(o, ps)
        /\ rfAck' = IF o.alive THEN ack ELSE Outlives(ack, Stored(o, ps))

-----------------------------------------------------------------------------
(* new(), seed_fresh and the bootleby image of build_rot_core              *)

WritePages(f, ps) ==
  [f EXCEPT !.mem = [w \in WordNo |-> IF PageOf(w) \in ps THEN FALSE ELSE f.mem[w]],
            !.erased = @ \ ps]

SeedFresh == WritePages(Off, SeedPages)

(* With bootleby configured, build_rot_core lays its image over page 0 at  *)
(* every start, over that of persisted state too.                          *)
Installed(f, bootleby) == IF bootleby THEN WritePages(f, {0}) ELSE f

AckOf(f) ==
  [p \in Page |-> IF p \in f.erased THEN AckErased
                  ELSE Data([r \in Row |-> f.mem[p * RfRows + r]])]

Boot(fresh, opens, bootleby) ==
  LET persisted == rfDisk.exists /\ ~fresh
      base == IF persisted THEN NewFlash(LoadedMem(rfDisk), rfDisk.bits) ELSE SeedFresh
      f    == [Installed(base, bootleby) EXCEPT !.file = opens]
      made == IF ~persisted THEN Page ELSE IF bootleby THEN {0} ELSE {}
  IN  /\ ~rfAlive
      /\ persisted => rfDisk.hasBits
      /\ Settle(IF made = {} THEN {Unwritten(f, TRUE)} ELSE PersistAll(f), made, AckOf(f), rfAck)
      /\ rfDrv' = NoDrv /\ rfResp' = NoResp

(* new() refuses an array without its bitset; the operator deletes it.     *)
DeleteCorrupt ==
  /\ ~rfAlive /\ rfDisk.exists /\ ~rfDisk.hasBits
  /\ rfDisk' = NoDisk /\ rfStored' = NoneStored /\ rfAck' = Outlives(rfAck, NoneStored)
  /\ UNCHANGED <<rf, rfAlive, rfDrv, rfResp>>

-----------------------------------------------------------------------------
(* do_cmd: the driver clears INT_STATUS, sets STARTA and STOPA, issues the *)
(* command and reads INT_STATUS and DATAW.  Every command sets DONE.       *)

CmdErase(f, a, b) ==
  [f EXCEPT !.mem = [w \in WordNo |-> PageOf(w) \in PagesOf(a, b) \/ f.mem[w]],
            !.erased = @ \cup PagesOf(a, b)]

CmdWrite(f, row, v) == [f EXCEPT !.page_buf[row] = v]

(* Flash cells only lose bits; Program commits the buffer and resets it,   *)
(* the latter for a page beyond the array too.                             *)
CmdProgram(f, p) ==
  [f EXCEPT !.mem = [w \in WordNo |->
                       IF PageOf(w) = p THEN f.mem[w] /\ f.page_buf[w % RfRows] ELSE f.mem[w]],
            !.erased = @ \ {p},
            !.page_buf = BlankBuf]

Answer(st, x) == [status |-> st, dataw |-> x]

(* The first of the words a..b that counts as programmed.                  *)
FirstOf(hits) ==
  IF hits = {} THEN Answer({}, 0) ELSE Answer({"fail"}, CHOOSE w \in hits : \A x \in hits : w <= x)

CmdBlank_ByContent(f, a, b) == FirstOf({w \in a..b : w \in WordNo /\ ~f.mem[w]})
CmdBlank(f, a, b) == FirstOf({w \in a..b : w \in WordNo /\ PageOf(w) \notin f.erased})

CmdRead(f, w) ==
  IF PageOf(w) \notin Page \/ PageOf(w) \in f.erased THEN Answer({"ecc"}, 0)
  ELSE Answer({}, IF f.mem[w] THEN 1 ELSE 0)

-----------------------------------------------------------------------------
(* The firmware: erase a range, write a page, read it, check it is blank   *)

Ready == rfAlive /\ rfDrv.st = "idle" /\ rfResp = NoResp

Erase(a, b) ==
  LET f == CmdErase(rf, a, b)
  IN  /\ Ready
      /\ Settle(PersistPages(f, PageOf(a), PageOf(b)), PagesOf(a, b), [p \in Page |-> AckErased], rfAck)
      /\ UNCHANGED <<rfDrv, rfResp>>

BeginPage(p, v) ==
  LET f == CmdErase(rf, p * RfRows, p * RfRows)
  IN  /\ Ready
      /\ Settle(PersistPages(f, p, p), {p} \cap Page, [q \in Page |-> AckErased], rfAck)
      /\ rfDrv' = IF rfAlive' THEN [st |-> "rows", page |-> p, row |-> 0, data |-> v] ELSE NoDrv
      /\ UNCHANGED rfResp

LoadRow ==
  /\ rfAlive /\ rfDrv.st = "rows" /\ rfDrv.row < RfRows
  /\ rf' = CmdWrite(rf, rfDrv.row, rfDrv.data[rfDrv.row])
  /\ rfDrv' = [rfDrv EXCEPT !.row = @ + 1]
  /\ UNCHANGED <<rfDisk, rfAlive, rfAck, rfStored, rfResp>>

CommitPage ==
  /\ rfAlive /\ rfDrv.st = "rows" /\ rfDrv.row = RfRows
  /\ LET f == CmdProgram(rf, rfDrv.page)
     IN  Settle(IF rfDrv.page \in Page THEN PersistPages(f, rfDrv.page, rfDrv.page) ELSE {Unwritten(f, TRUE)},
                {rfDrv.page} \cap Page, [q \in Page |-> Data(rfDrv.data)], rfAck)
  /\ rfDrv' = NoDrv /\ UNCHANGED rfResp

(* The firmware's task may be restarted between two commands.              *)
DropPage ==
  /\ rfAlive /\ rfDrv.st = "rows"
  /\ rfDrv' = NoDrv
  /\ UNCHANGED <<rf, rfDisk, rfAlive, rfAck, rfStored, rfResp>>

Ask(cmd, a, b, ans) ==
  /\ Ready
  /\ rfResp' = [cmd |-> cmd, a |-> a, b |-> b, ans |-> ans]
  /\ UNCHANGED <<rf, rfDisk, rfAlive, rfDrv, rfAck, rfStored>>

ReadWord(w)      == Ask("read", w, w, CmdRead(rf, w))
BlankCheck(a, b) == Ask("blank", a, b, CmdBlank(rf, a, b))

(* Any other command value.                                                *)
Unknown == Ask("other", 0, 0, Answer({"fail"}, 0))

Taken ==
  /\ rfResp # NoResp /\ rfResp' = NoResp
  /\ UNCHANGED <<rf, rfDisk, rfAlive, rfDrv, rfAck, rfStored>>

Kill ==
  /\ rfAlive
  /\ rf' = Off /\ rfAlive' = FALSE /\ rfResp' = NoResp /\ rfDrv' = NoDrv
  /\ rfAck' = Outlives(rfAck, rfStored) /\ UNCHANGED <<rfDisk, rfStored>>

RfInit ==
  /\ rf = Off /\ rfDisk = NoDisk /\ rfAlive = FALSE
  /\ rfDrv = NoDrv /\ rfAck = [p \in Page |-> Unknowable] /\ rfStored = NoneStored
  /\ rfResp = NoResp

RfNext ==
  \/ \E fresh, opens, bootleby \in BOOLEAN : Boot(fresh, opens, bootleby)
  \/ DeleteCorrupt
  \/ \E a, b \in RfAddrs : Erase(a, b) \/ BlankCheck(a, b)
  \/ \E p \in 0..RfPages, v \in RfContents : BeginPage(p, v)
  \/ LoadRow \/ CommitPage \/ DropPage
  \/ \E w \in RfAddrs : ReadWord(w)
  \/ Unknown \/ Taken \/ Kill

RfSpec == RfInit /\ [][RfNext]_rfVars

-----------------------------------------------------------------------------
(* What the engine answers about a page is what the last command made of   *)
(* it: always in the process that ran the command, whichever host writes   *)
(* failed, and in later ones if the array file and the bitset file had the *)
(* page when the process ended.  An erased page, and one beyond the array, *)
(* raises ECC_ERR; a programmed one reads as written, and is not blank     *)
(* even where its bytes are all 0xFF.  A blank check names the first word  *)
(* of the first programmed page of its range.                              *)
RfReadBack ==
  LET known(p) == rfAck[p].k # "any"
      set      == {w \in rfResp.a..rfResp.b : w \in WordNo /\ rfAck[PageOf(w)].k = "data"}
  IN  /\ (rfResp.cmd = "read" /\ PageOf(rfResp.a) \notin Page) => "ecc" \in rfResp.ans.status
      /\ (rfResp.cmd = "read" /\ PageOf(rfResp.a) \in Page /\ known(PageOf(rfResp.a))) =>
           LET k == rfAck[PageOf(rfResp.a)]
           IN  IF k.k = "erased" THEN "ecc" \in rfResp.ans.status
               ELSE /\ "ecc" \notin rfResp.ans.status
                    /\ rfResp.ans.dataw = IF k.v[rfResp.a % RfRows] THEN 1 ELSE 0
      /\ (rfResp.cmd = "blank" /\ \A p \in PagesOf(rfResp.a, rfResp.b) : known(p)) =>
           IF set = {} THEN "fail" \notin rfResp.ans.status
           ELSE /\ "fail" \in rfResp.ans.status
                /\ rfResp.ans.dataw \in set /\ \A w \in set : rfResp.ans.dataw <= w
=============================================================================
