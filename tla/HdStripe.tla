------------------------------- MODULE HdStripe -------------------------------
(***************************************************************************)
(* The striped scheduling policy (hd_stripe and what it calls at the end of *)
(* hd_sched.c) with the loop of hd_schedule, the end and the continuation   *)
(* of a physical request (hd_end, hd_resume in hd_phys.c) and the splitting *)
(* around bad blocks (hd_chkblk).                                           *)
(*                                                                         *)
(* A request is cut at the boundaries of the stripes, a physical buffer for *)
(* each piece.  When the buffers run out in the middle, what has been cut   *)
(* is started, and the request goes back to pending_Q for the rest.  The    *)
(* last piece to end looks over all of them.                               *)
(*                                                                         *)
(* Blocks are the unit of everything.  Requests that overlap are kept apart *)
(* before they come here (HdStrat); what the disk and the relocation of bad *)
(* blocks make of a transfer (HdBadBlk) is success, or an error behind some *)
(* of its blocks.  glb_sched_intlock makes each handler one step.           *)
(*                                                                         *)
(* hd_stripe_done looks for an error with b_error & B_ERROR: it tests the   *)
(* error number against the bit that b_flags has for an error.  b_error is  *)
(* therefore a number here, and a piece may fail without being noticed.     *)
(***************************************************************************)
EXTENDS Integers, Sequences, FiniteSets, SequencesExt

CONSTANTS
  Req,             \* logical requests
  NPbuf,           \* physical buffers
  striping_width, part_stripes, stripe_blks,  \* partitions per set, stripes
                                              \* per partition, blocks per stripe
  NSets,           \* partition sets of the logical volume
  Extent,          \* the <<b_blkno, blocks>> that requests ask for
  Defects,         \* the sets of places that may have a bad-block structure
  Errno,           \* the errors that disk drivers end a transfer with
  MaxIssue, MaxErr, MaxMissing   \* bounds: requests, I/O errors, disks that
                                 \* go missing

ASSUME StripeAssumption ==
  /\ striping_width \in Nat \ {0} /\ part_stripes \in Nat \ {0}
  /\ stripe_blks \in Nat \ {0} /\ NSets \in Nat \ {0}

ASSUME PbufAssumption == NPbuf \in Nat

ASSUME ErrnoAssumption == Errno \subseteq Nat \ {0}

VARIABLES
  m,       \* the driver: [req, pending_Q, free (hd_freebuf), bad (blocks with a
           \* bad-block structure), LV_NOBBREL]
  missing, \* disks of the volume that are missing
  count    \* what has been issued and has failed

vars == <<m, missing, count>>

Logical == 0..(NSets * striping_width * part_stripes * stripe_blks - 1)
Place == [part : 0..(NSets * striping_width - 1), blk : 0..(part_stripes * stripe_blks - 1)]

(* validate_req: a request begins in the volume and does not cross the end of *)
(* a track group, of which the volume is made.                              *)
ASSUME ExtentAssumption ==
  \A e \in Extent : e[1] \in Logical /\ e[2] \in Nat \ {0} /\ e[1] + e[2] - 1 \in Logical

(* The partitions of a set are on different disks.                          *)
pvol(part) == part % striping_width

NoReq == [st |-> "idle", blk |-> 0, n |-> 0, serial |-> FALSE, resid |-> 0, err |-> FALSE,
          partial |-> FALSE, list |-> <<>>, moved |-> {}, lost |-> {}]

B_ERROR == 4       \* the flag of b_flags
EMEDIA == 110

(* b_error & B_ERROR: EIO (5) and EMEDIA have the bit, EBUSY (16), ENODEV    *)
(* (19), EFORMAT (48) and ENOCONNECT (50) have not.                         *)
Seen(b_error) == (b_error \div B_ERROR) % 2 = 1
-----------------------------------------------------------------------------
(* Mutant: the sets are left out of the partition number.                   *)
hd_stripe_xlate_Row(l) ==
  LET stripe_num == l \div stripe_blks
  IN  [part |-> stripe_num % striping_width,
       blk |-> ((stripe_num \div striping_width) % part_stripes) * stripe_blks + (l % stripe_blks)]

(* Block l of the logical volume: its partition and the block in it.        *)
hd_stripe_xlate(l) ==
  LET stripe_num == l \div stripe_blks
      set_num == stripe_num \div (part_stripes * striping_width)
  IN  [part |-> set_num * striping_width + (stripe_num % striping_width),
       blk |-> ((stripe_num \div striping_width) % part_stripes) * stripe_blks + (l % stripe_blks)]

(* Where the blocks of a piece p that are still to be moved start.          *)
At(p) == LET x == hd_stripe_xlate(p.addr) IN [x EXCEPT !.blk = @ + p.at - p.addr]

(* How many of them the next transfer takes: up to the first bad block, or  *)
(* that block alone; none is FAILURE.                                       *)
hd_chkblk(c, p) ==
  LET a == At(p)
      left == p.addr + p.n - p.at
      B == {k \in 0..(left - 1) : [a EXCEPT !.blk = @ + k] \in c.bad}
      first == CHOOSE k \in B : \A j \in B : k <= j
  IN  IF B = {} THEN left ELSE IF c.nobbrel THEN 0 ELSE IF first = 0 THEN 1 ELSE first

Start(c, p) ==
  LET k == hd_chkblk(c, p)
  IN  IF k = 0 THEN [p EXCEPT !.status = "STRIPE_DONE", !.b_error = EMEDIA]
      ELSE [p EXCEPT !.bcount = k, !.busy = TRUE]

(* Mutant: it is enough that the pieces up to the last that has ended are.  *)
Complete_Prefix(list) ==
  \E i \in DOMAIN list : /\ ~list[i].busy /\ \A j \in 1..i : list[j].status = "STRIPE_DONE"

Complete(list) == \A i \in DOMAIN list : list[i].status = "STRIPE_DONE"

(* What is left after a list of pieces.  b_bcount is that of the last       *)
(* transfer: a piece that was split counts for less than it has moved.      *)
Rest(r) ==
  LET sum[i \in 0..Len(r.list)] == IF i = 0 THEN 0 ELSE sum[i - 1] + r.list[i].bcount
  IN  r.resid - sum[Len(r.list)]

(* Mutant: the seen error that came last is taken for the first.            *)
FirstError_Last(list) == SelectLastInSeq(list, LAMBDA p : Seen(p.b_error))

(* 0 also when the errors of the list are none that the test sees.          *)
FirstError(list) == SelectInSeq(list, LAMBDA p : Seen(p.b_error))

(* Mutant: the request is not put back for the rest.                        *)
hd_stripe_done_Forgets(c, q) ==
  LET r == c.req[q]
      e == FirstError(r.list)
      d == [c EXCEPT !.free = @ + Len(r.list)]
  IN  IF ~Complete(r.list) THEN c
      ELSE IF e # 0
      THEN [d EXCEPT !.req[q].st = "returned", !.req[q].err = TRUE,
                     !.req[q].resid = r.n - (r.list[e].at - r.blk)]
      ELSE IF r.partial THEN [d EXCEPT !.req[q].resid = Rest(r)]
      ELSE [d EXCEPT !.req[q].st = "returned", !.req[q].resid = 0]

hd_stripe_done(c, q) ==
  LET r == c.req[q]
      e == FirstError(r.list)
      d == [c EXCEPT !.free = @ + Len(r.list)]
  IN  IF ~Complete(r.list) THEN c
      ELSE IF e # 0
      THEN [d EXCEPT !.req[q].st = "returned", !.req[q].err = TRUE,
                     !.req[q].resid = r.n - (r.list[e].at - r.blk)]
      ELSE IF r.partial THEN [d EXCEPT !.req[q].resid = Rest(r), !.pending_Q = Append(@, q)]
      ELSE [d EXCEPT !.req[q].st = "returned", !.req[q].resid = 0]

(* The first blocks of the pieces that the rest of a request falls into.    *)
Cut(r) ==
  LET from == r.blk + r.n - r.resid
      first == from \div stripe_blks
      last == (r.blk + r.n - 1) \div stripe_blks
  IN  [i \in 1..(last - first + 1) |-> IF i = 1 THEN from ELSE (first + i - 1) * stripe_blks]

Piece(r, l) ==
  LET next == ((l \div stripe_blks) + 1) * stripe_blks
      end == r.blk + r.n
  IN  [addr |-> l, n |-> (IF next < end THEN next ELSE end) - l, at |-> l, bcount |-> 0,
       status |-> "STRIPE_NOTDONE", b_error |-> 0, busy |-> FALSE]

(* The scheduling policy, with a buffer at least.  On a translation that    *)
(* fails (XLATE_FAIL) the buffers taken so far stay taken.  Reads into a    *)
(* buffer that is not aligned go one piece at a time.                       *)
hd_stripe(c, q) ==
  LET r == c.req[q]
      cut == Cut(r)
      most == IF r.serial THEN 1 ELSE c.free
      k == IF Len(cut) < most THEN Len(cut) ELSE most
      fail == SelectInSeq(SubSeq(cut, 1, k), LAMBDA l : pvol(hd_stripe_xlate(l).part) \in missing)
      list == [i \in 1..k |-> Start(c, Piece(r, cut[i]))]
      d == [c EXCEPT !.free = @ - k, !.req[q].list = list, !.req[q].partial = (k < Len(cut))]
  IN  IF fail # 0
      THEN [c EXCEPT !.free = @ - fail, !.req[q].st = "returned", !.req[q].err = TRUE,
                     !.req[q].resid = r.n, !.req[q].list = <<>>]
      ELSE hd_stripe_done(d, q)

(* One request after the other as long as there are buffers (without one     *)
(* hd_stripe returns FAILURE and the request stays at the head).  The sets   *)
(* hold what becomes of the one state c.                                    *)
hd_schedule(c) ==
  LET after[i \in 0..Len(c.pending_Q)] ==
        IF i = 0 THEN {c}
        ELSE {IF d.free = 0 THEN d
              ELSE hd_stripe([d EXCEPT !.pending_Q = Tail(@)], c.pending_Q[i]) : d \in after[i - 1]}
  IN  after[Len(c.pending_Q)]
-----------------------------------------------------------------------------
Active(q) == m.req[q].st = "active"
Blocks(r) == r.blk..(r.blk + r.n - 1)

hd_strategy(q, e, serial) ==
  LET r == [NoReq EXCEPT !.st = "active", !.blk = e[1], !.n = e[2], !.resid = e[2], !.serial = serial]
  IN  /\ ~Active(q) /\ count.issue < MaxIssue
      /\ \A o \in Req : Active(o) => Blocks(r) \cap Blocks(m.req[o]) = {}
      /\ \E d \in {[m EXCEPT !.req[q] = r, !.pending_Q = Append(@, q)]} : m' \in hd_schedule(d)
      /\ count' = [count EXCEPT !.issue = @ + 1]
      /\ UNCHANGED missing

(* The transfer of piece i ends behind k blocks, with the error e unless     *)
(* these were all.  hd_resume goes on with a piece that was split.  lost     *)
(* remembers the blocks that a piece leaves behind unnoticed.               *)
hd_end(q, i, k, e) ==
  LET p == m.req[q].list[i]
      err == k < p.bcount
      a == At(p)
      moved == {<<p.at + j, [a EXCEPT !.blk = @ + j]>> : j \in 0..(k - 1)}
      ended == [p EXCEPT !.at = @ + k, !.busy = FALSE]
      lost == IF err /\ ~Seen(e) THEN ended.at..(p.addr + p.n - 1) ELSE {}
      next == IF err THEN [ended EXCEPT !.status = "STRIPE_DONE", !.b_error = e]
              ELSE IF ended.at = p.addr + p.n THEN [ended EXCEPT !.status = "STRIPE_DONE"]
              ELSE Start(m, ended)
      d == [m EXCEPT !.req[q].list[i] = next, !.req[q].moved = @ \cup moved,
                     !.req[q].lost = @ \cup lost]
  IN  /\ p.busy
      /\ err => count.err < MaxErr
      /\ count' = IF err THEN [count EXCEPT !.err = @ + 1] ELSE count
      /\ \E f \in {IF next.status = "STRIPE_DONE" THEN hd_stripe_done(d, q) ELSE d} : m' \in hd_schedule(f)
      /\ UNCHANGED missing

(* The VGSAs say that a disk is missing (HdVgsa).                           *)
SETSA_PVMISS(pv) ==
  /\ pv \notin missing /\ Cardinality(missing) < MaxMissing
  /\ missing' = missing \cup {pv}
  /\ UNCHANGED <<m, count>>

Init ==
  /\ m \in [req : {[q \in Req |-> NoReq]}, pending_Q : {<<>>}, free : {NPbuf},
            bad : Defects, nobbrel : BOOLEAN]
  /\ missing = {}
  /\ count = [issue |-> 0, err |-> 0]

TransferEnds(q) ==
  \E i \in DOMAIN m.req[q].list : \E k \in 0..m.req[q].list[i].bcount, e \in Errno : hd_end(q, i, k, e)

Next ==
  \/ \E q \in Req, e \in Extent, serial \in BOOLEAN : hd_strategy(q, e, serial)
  \/ \E q \in Req : TransferEnds(q)
  \/ \E pv \in 0..(striping_width - 1) : SETSA_PVMISS(pv)

(* A transfer that has been handed to a disk driver ends.                   *)
Spec == Init /\ [][Next]_vars /\ \A q \in Req : WF_vars(TransferEnds(q))
-----------------------------------------------------------------------------
Busy(q) == {i \in DOMAIN m.req[q].list : m.req[q].list[i].busy}

(* The pool neither gives out more buffers than it has nor gets more back.   *)
TypeOK ==
  /\ m.free \in 0..NPbuf
  /\ Cardinality(UNION {{q} \X Busy(q) : q \in Req}) <= NPbuf - m.free
  /\ \A q \in Req : /\ m.req[q].st \in {"idle", "active", "returned"}
                    /\ m.req[q].resid \in 0..m.req[q].n

(* The place of a logical block by the layout: sets, stripes across the     *)
(* partitions of a set, blocks of a stripe, in this order.                  *)
LogicalOf(x) ==
  LET set_num == x.part \div striping_width
      row == set_num * part_stripes + (x.blk \div stripe_blks)
  IN  (row * striping_width + (x.part % striping_width)) * stripe_blks + (x.blk % stripe_blks)

(* Each block of a request is moved to or from its place in the volume, by   *)
(* hd_stripe_xlate for the first of a piece and by counting on from there,   *)
(* whatever the buffers and the bad blocks have cut the request into.        *)
InPlace == \A q \in Req : \A x \in m.req[q].moved : x[2] \in Place /\ LogicalOf(x[2]) = x[1]

(* What hd_stripe_done reports: no error means all the blocks, b_resid of an *)
(* error counts back to the lowest address that has failed, and no disk still *)
(* works on a piece, also when hd_chkblk refuses some of the pieces before    *)
(* the others are started.  Except for a set of blocks that may be missing.  *)
ReturnedBut(r, except) ==
  /\ r.err \/ r.resid = 0
  /\ r.blk..(r.blk + r.n - r.resid - 1) \subseteq {x[1] : x \in r.moved} \cup except

(* Nothing but the blocks behind an error that b_error & B_ERROR misses is   *)
(* reported as moved without having been: the errors that the test sees are  *)
(* accounted for from the lowest address on, in whatever order the pieces    *)
(* end, are split, refused or put off for want of buffers, and beside pieces *)
(* whose error is missed.                                                   *)
ReturnedUpToMissed ==
  \A q \in Req : m.req[q].st = "returned" => Busy(q) = {} /\ ReturnedBut(m.req[q], m.req[q].lost)

(* "If one or more stripe requests encountered an error, the error from the  *)
(* request with the lowest logical address is returned" (hd_stripe_done): all *)
(* that is reported as moved has been.                                      *)
ReturnedIsTrue ==
  \A q \in Req : m.req[q].st = "returned" => Busy(q) = {} /\ ReturnedBut(m.req[q], {})

(* hd_stripe_done "returns all associated pbufs": between requests the pool  *)
(* is full.  Not so when a translation has failed.                          *)
PbufsReturned == (\A q \in Req : ~Active(q)) => m.free = NPbuf

(* Every request returns, unless failed translations have used up the pool:  *)
(* one that has got some of the buffers gives them back before it asks again *)
(* (hd_stripe starts what it has cut rather than wait for more).            *)
NoPbufLeft == m.free = 0 /\ \A q \in Req : Busy(q) = {}
EveryRequestReturns == \A q \in Req : Active(q) ~> (~Active(q) \/ NoPbufLeft)
=============================================================================
