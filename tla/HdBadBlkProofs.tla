--------------------------- MODULE HdBadBlkProofs ---------------------------
(***************************************************************************)
(* Proof that one copy of the bad block directory is whole at any moment,  *)
(* for any disk, relocation pool and directory, any errors and any crash:  *)
(* the writes of hd_bbdirop tear one copy at a time, and each way out of    *)
(* their order either finds both written or turns relocation off.           *)
(***************************************************************************)
EXTENDS HdBadBlk, TLAPS

(* The shape of the driver's memory, as far as the directory depends on it. *)
IsMem(c) ==
  /\ {"hld", "pb", "pvstate"} \subseteq DOMAIN c
  /\ c.hld \in Seq(Req)
  /\ c.pb = NULL \/ c.pb \in [op : DirOp, orig : Req]

(* The copy that the write before the one under way has left with UPDATE.   *)
Half(pb) == IF pb = NULL THEN {}
            ELSE IF pb.op = "WT_DBBPRIM" THEN {"PRIM"}
            ELSE IF pb.op = "WT_DBBBACK" THEN {"BACK"} ELSE {}

AllWholeBut(S, dsk) == \A c \in Copy \ S : dsk[c].hdr = "DEFECT"

(* The inductive invariant.                                                 *)
WholeInv ==
  /\ disk = [c \in Copy |-> disk[c]]
  /\ mode = "up" => IsMem(m)
  /\ mode = "up" /\ m.pvstate # "PV_RORELOC" => AllWholeBut(Half(m.pb), disk)

(* What the handlers of a request do: relocation can only be turned off,    *)
(* and an update of the directory only start, from its first step.          *)
Starts(c, d) ==
  /\ IsMem(d)
  /\ d.pvstate = c.pvstate \/ d.pvstate = "PV_RORELOC"
  /\ d.pb = c.pb \/ (Half(d.pb) = {} /\ c.pb = NULL)

(* ... and what the end of an update does.                                  *)
Ends(c, d) == IsMem(d) /\ d.pvstate = c.pvstate /\ Half(d.pb) = {}
-----------------------------------------------------------------------------
LEMMA StartKept ==
  ASSUME NEW c, IsMem(c), NEW q \in Req, NEW at, NEW wr, NEW iodone
  PROVE  Starts(c, hd_start(c, q, at, wr, iodone))
  BY DEF IsMem, Starts, hd_start

LEMMA FinishKept ==
  ASSUME NEW c, IsMem(c), NEW q \in Req, NEW err
  PROVE  Starts(c, Finish(c, q, err))
  BY DEF IsMem, Starts, Finish

LEMMA ReleaseKept ==
  ASSUME NEW c, IsMem(c), NEW l
  PROVE  Starts(c, Release(c, l))
  BY DEF IsMem, Starts, Release

LEMMA NotRelocatedKept ==
  ASSUME NEW c, IsMem(c), NEW q \in Req
  PROVE  Starts(c, NotRelocated(c, q))
  BY DEF IsMem, Starts, NotRelocated, Finish, Release

LEMMA UpdBbdirKept ==
  ASSUME NEW c, IsMem(c), NEW q \in Req
  PROVE  Starts(c, hd_upd_bbdir(c, q))
  BY NullAssumption DEF IsMem, Starts, hd_upd_bbdir, Half, DirOp

LEMMA StartsTransitive ==
  ASSUME NEW a, NEW b, NEW c, Starts(a, b), Starts(b, c)
  PROVE  Starts(a, c)
  BY DEF Starts, Half

LEMMA ChkblkKept ==
  ASSUME NEW c, IsMem(c), NEW q \in Req
  PROVE  Starts(c, hd_chkblk(c, q))
<1> DEFINE at == Place(c.tbl, c.req[q].blk)
           rd == [c EXCEPT !.req[q].bbop = "BB_RDDFCT", !.req[q].bad = at]
           wr == [c EXCEPT !.req[q].bbop = "BB_WTDFCT", !.req[q].bad = at,
                           !.req[q].fix = "FIX_READ_ERROR", !.tbl[at].stat = "REL_DEVICE"]
<1>1. Starts(c, rd) /\ IsMem(rd)
  BY DEF IsMem, Starts
<1>2. Starts(c, wr) /\ IsMem(wr)
  BY DEF IsMem, Starts
<1>3. Starts(c, hd_start(c, q, at, c.req[q].op = "write", "hd_end"))
  BY StartKept
<1>4. Starts(c, hd_start(rd, q, at, FALSE, "hd_bbend"))
  BY <1>1, StartKept, StartsTransitive
<1>5. Starts(c, hd_start(wr, q, at, TRUE, "hd_bbend"))
  BY <1>2, StartKept, StartsTransitive
<1>6. Starts(c, Finish(c, q, TRUE))
  BY FinishKept
<1> QED
  BY <1>3, <1>4, <1>5, <1>6, Zenon DEF hd_chkblk

LEMMA BadblkKept ==
  ASSUME NEW c, IsMem(c), NEW q \in Req, NEW error, NEW short
  PROVE  Starts(c, hd_badblk(c, q, error, short))
<1> DEFINE at == c.req[q].at
           new == [c EXCEPT !.tbl[at] = Desired, !.req[q].bad = at]
           add == [new EXCEPT !.req[q].bbop = "BB_ADD", !.req[q].err = TRUE]
           fix(f) == [new EXCEPT !.tbl[at].stat = "REL_DEVICE", !.req[q].bbop = "BB_WTDFCT",
                                 !.req[q].fix = f]
<1>1. Starts(c, new) /\ IsMem(new)
  BY DEF IsMem, Starts
<1> HIDE DEF new
<1>2. Starts(new, add) /\ IsMem(add)
  BY <1>1 DEF IsMem, Starts
<1>3. \A f : Starts(new, fix(f)) /\ IsMem(fix(f))
  BY <1>1 DEF IsMem, Starts
<1> HIDE DEF add, fix
<1>4. Starts(c, hd_upd_bbdir(add, q))
  BY <1>1, <1>2, UpdBbdirKept, StartsTransitive
<1>5. \A f : Starts(c, hd_start(fix(f), q, at, TRUE, "hd_bbend"))
  BY <1>1, <1>3, StartKept, StartsTransitive
<1>6. Starts(c, Finish(c, q, error = "EMEDIA"))
  BY FinishKept
<1> QED
  BY <1>4, <1>5, <1>6, Zenon DEF hd_badblk, new, add, fix

LEMMA BaddoneKept ==
  ASSUME NEW c, IsMem(c), NEW q \in Req
  PROVE  Starts(c, hd_baddone(c, q))
<1> DEFINE done == [c EXCEPT !.tbl[c.req[q].bad].stat = "REL_DONE", !.req[q].fix = ""]
           dir(op) == [done EXCEPT !.req[q].bbop = op]
<1>1. Starts(c, done) /\ IsMem(done)
  BY DEF IsMem, Starts
<1> HIDE DEF done
<1>2. \A op : Starts(done, dir(op)) /\ IsMem(dir(op))
  BY <1>1 DEF IsMem, Starts
<1> HIDE DEF dir
<1>3. \A op : Starts(c, hd_upd_bbdir(dir(op), q))
  BY <1>1, <1>2, UpdBbdirKept, StartsTransitive
<1>4. Starts(c, Finish(Release(c, c.req[q].bad), q, c.req[q].err))
  <2>1. Starts(c, Release(c, c.req[q].bad)) /\ IsMem(Release(c, c.req[q].bad))
    BY ReleaseKept DEF Starts
  <2> QED
    BY <2>1, FinishKept, StartsTransitive
<1> QED
  BY <1>3, <1>4, Zenon DEF hd_baddone, done, dir

LEMMA SwrelocKept ==
  ASSUME NEW c, IsMem(c), NEW q \in Req, NEW error
  PROVE  Starts(c, hd_swreloc(c, q, error))
  BY NotRelocatedKept DEF IsMem, Starts, hd_swreloc, hd_start

LEMMA BbhldEnds ==
  ASSUME NEW c, IsMem(c)
  PROVE  Ends(c, hd_chk_bbhld(c))
  BY NullAssumption DEF IsMem, Ends, hd_chk_bbhld, hd_upd_bbdir, Half, DirOp

LEMMA BbdirdoneEnds ==
  ASSUME NEW c, IsMem(c), NEW ok, NEW renamed
  PROVE  Ends(c, hd_bbdirdone(c, ok, renamed))
<1> DEFINE q == c.pb.orig
           d == IF ok THEN Updated(c, q) ELSE NotUpdated(c, q, renamed)
           f == Finish(d, q, c.req[q].err \/ ~ok)
<1>1. IsMem(Updated(c, q)) /\ Updated(c, q).pvstate = c.pvstate
  BY DEF IsMem, Updated, Release
<1>2. IsMem(NotUpdated(c, q, renamed)) /\ NotUpdated(c, q, renamed).pvstate = c.pvstate
  BY DEF IsMem, NotUpdated, Release
<1>3. IsMem(d) /\ d.pvstate = c.pvstate
  BY <1>1, <1>2
<1> HIDE DEF d
<1>4. IsMem(f) /\ f.pvstate = d.pvstate
  BY <1>3 DEF IsMem, Finish
<1>5. Ends(f, hd_chk_bbhld(f))
  BY <1>4, BbhldEnds
<1> HIDE DEF f
<1>6. Ends(c, hd_chk_bbhld(f))
  BY <1>3, <1>4, <1>5 DEF Ends
<1> QED
  BY <1>6, Zenon DEF hd_bbdirdone, d, f

(* The change in memory writes nothing: it ends with the first write due,   *)
(* or ends the update.                                                      *)
LEMMA ChangeEnds ==
  ASSUME NEW c, IsMem(c), c.pb # NULL
  PROVE  /\ IsMem(Change(c)) /\ Half(Change(c).pb) = {}
         /\ Change(c).pvstate = c.pvstate \/ Change(c).pvstate = "PV_RORELOC"
<1> DEFINE Fine(d) == /\ IsMem(d) /\ Half(d.pb) = {}
                      /\ d.pvstate = c.pvstate \/ d.pvstate = "PV_RORELOC"
           next(e) == [c EXCEPT !.buf = e, !.pb.op = "WT_UBBPRIM"]
           del(e, o) == [next(e) EXCEPT !.tbl[o].stat = "REL_DONE"]
<1>1. Fine(hd_bbdirdone(c, FALSE, FALSE))
  BY BbdirdoneEnds DEF Ends
<1>2. Fine(hd_bbdirdone(ReadOnly(c), FALSE, FALSE))
  <2>1. IsMem(ReadOnly(c)) /\ ReadOnly(c).pvstate = "PV_RORELOC"
    BY DEF IsMem, ReadOnly
  <2> QED
    BY <2>1, BbdirdoneEnds DEF Ends
<1>3. ASSUME NEW e
      PROVE  IsMem(next(e)) /\ Half(next(e).pb) = {} /\ next(e).pvstate = c.pvstate
  BY NullAssumption DEF IsMem, Half, DirOp
<1> HIDE DEF next
<1>4. \A e, o : Fine(del(e, o))
  BY <1>3 DEF IsMem
<1>5. \A e : Fine(next(e))
  BY <1>3
<1> HIDE DEF del, Fine
<1>6. Fine(Change(c))
  BY <1>1, <1>2, <1>4, <1>5, Zenon DEF Change, next, del
<1> QED
  BY <1>6 DEF Fine

(* Returning requests touches nothing else.                                 *)
LEMMA ReturnKept ==
  ASSUME NEW d, NEW g, IsMem(d), Return(d, g)
  PROVE  IsMem(m') /\ m'.pb = d.pb /\ m'.pvstate = d.pvstate
  BY DEF IsMem, Return

LEMMA HandlerKept ==
  ASSUME NEW d, NEW g, WholeInv, mode = "up", Starts(m, d), Return(d, g),
         UNCHANGED <<disk, mode>>
  PROVE  WholeInv'
<1>1. IsMem(m') /\ m'.pb = d.pb /\ m'.pvstate = d.pvstate
  BY ReturnKept DEF Starts
<1> QED
  BY <1>1 DEF WholeInv, Starts, AllWholeBut, Half, IsMem
-----------------------------------------------------------------------------
LEMMA BeginKept ==
  ASSUME WholeInv, NEW q \in Req, NEW b \in Blk, NEW op, NEW ro, hd_begin(q, b, op, ro)
  PROVE  WholeInv'
<1> DEFINE c == [m EXCEPT !.req[q] = [NewReq EXCEPT !.blk = b, !.op = op, !.ro = ro]]
<1>1. Starts(m, c) /\ IsMem(c)
  BY DEF hd_begin, WholeInv, IsMem, Starts
<1>2. Return(hd_chkblk(c, q), good) /\ mode = "up" /\ UNCHANGED <<disk, mode>>
  BY Zenon DEF hd_begin
<1> HIDE DEF c
<1>3. Starts(m, hd_chkblk(c, q))
  BY <1>1, ChkblkKept, StartsTransitive
<1> QED
  BY <1>2, <1>3, HandlerKept

LEMMA EndKept ==
  ASSUME WholeInv, NEW q \in Req, NEW error, NEW short, hd_end(q, error, short)
  PROVE  WholeInv'
<1> DEFINE moved == m.req[q].wr /\ error \in {"none", "ESOFT"}
           c == IF moved THEN Wrote(q) ELSE m
           g == IF moved THEN Landed(m, q, m.req[q].at) ELSE good
<1>1. mode = "up" /\ UNCHANGED <<disk, mode>>
  BY DEF hd_end, InFlight
<1>2. Starts(m, c) /\ IsMem(c)
  BY <1>1 DEF WholeInv, IsMem, Starts, Wrote
<1>3. Return(hd_badblk(c, q, error, short), g) \/ Return(Finish(c, q, error = "EIO"), g)
  BY Zenon DEF hd_end
<1> HIDE DEF c, g
<1>4. Starts(m, hd_badblk(c, q, error, short)) /\ Starts(m, Finish(c, q, error = "EIO"))
  BY <1>2, BadblkKept, FinishKept, StartsTransitive
<1> QED
  BY <1>1, <1>3, <1>4, HandlerKept

LEMMA BbendKept ==
  ASSUME WholeInv, NEW q \in Req, NEW error, hd_bbend(q, error)
  PROVE  WholeInv'
<1> DEFINE r == m.req[q]
           moved == [Wrote(q) EXCEPT !.req[q].err = (error = "ESOFT")]
           rw == [m EXCEPT !.req[q].bbop = "BB_WTDFCT", !.req[q].fix = "FIX_READ_ERROR",
                           !.tbl[r.bad].stat = "REL_DEVICE"]
           rewrite == hd_start(rw, q, r.at, TRUE, "hd_bbend")
<1>1. mode = "up" /\ IsMem(m) /\ UNCHANGED <<disk, mode>>
  BY DEF hd_bbend, InFlight, WholeInv
<1>2. Starts(m, rw) /\ IsMem(rw)
  BY <1>1 DEF IsMem, Starts
<1>3. Starts(m, moved) /\ IsMem(moved)
  <2>1. Starts(m, Wrote(q)) /\ IsMem(Wrote(q))
    BY <1>1 DEF IsMem, Starts, Wrote
  <2> QED
    BY <2>1 DEF IsMem, Starts
<1>4. \/ Return(rewrite, good)
      \/ Return(hd_baddone(moved, q), Landed(m, q, r.at))
      \/ Return(Finish(m, q, TRUE), good)
      \/ Return(hd_swreloc(m, q, error), good)
  BY Zenon DEF hd_bbend
<1> HIDE DEF moved, rw
<1>5. /\ Starts(m, rewrite)
      /\ Starts(m, hd_baddone(moved, q))
      /\ Starts(m, Finish(m, q, TRUE))
      /\ Starts(m, hd_swreloc(m, q, error))
  BY <1>1, <1>2, <1>3, StartKept, BaddoneKept, FinishKept, SwrelocKept, StartsTransitive
<1> QED
  BY <1>1, <1>4, <1>5, HandlerKept

LEMMA BbdiropKept ==
  ASSUME WholeInv, hd_bbdirop
  PROVE  WholeInv'
<1>1. mode = "up" /\ mode' = "up" /\ m.pb # NULL /\ IsMem(m)
  BY DEF hd_bbdirop, WholeInv
<1>2. m.pb \in [op : DirOp, orig : Req]
  BY <1>1 DEF IsMem
<1>3. CASE m.pb.op = "RD_BBPRIM"
  <2>1. Return(Change(m), good) /\ UNCHANGED disk
    BY <1>3, Zenon DEF hd_bbdirop
  <2>2. /\ IsMem(m') /\ Half(m'.pb) = {}
        /\ m'.pvstate = m.pvstate \/ m'.pvstate = "PV_RORELOC"
    BY <1>1, <2>1, ChangeEnds, ReturnKept
  <2>3. Half(m.pb) = {}
    BY <1>3 DEF Half
  <2> QED
    BY <1>1, <2>1, <2>2, <2>3 DEF WholeInv, AllWholeBut
<1>4. CASE m.pb.op = "WT_DBBBACK"
  <2>1. Return(hd_bbdirdone(m, TRUE, FALSE), good)
    BY <1>4, Zenon DEF hd_bbdirop, Written
  <2>2. disk' = [disk EXCEPT !["BACK"] = Whole(m.buf)]
    BY <1>4 DEF hd_bbdirop, Written
  <2>3. IsMem(m') /\ Half(m'.pb) = {} /\ m'.pvstate = m.pvstate
    <3>1. Ends(m, hd_bbdirdone(m, TRUE, FALSE))
      BY <1>1, BbdirdoneEnds
    <3> QED
      BY <2>1, <3>1, ReturnKept DEF Ends
  <2> QED
    BY <1>1, <1>4, <2>2, <2>3 DEF WholeInv, AllWholeBut, Half, Copy, Whole
<1>5. CASE m.pb.op \in {"WT_UBBPRIM", "WT_DBBPRIM", "WT_UBBBACK"}
  <2> DEFINE n == [m EXCEPT !.pb.op = Written.next]
  <2>1. Return(n, good) /\ disk' = [disk EXCEPT ![Written.copy] = Written.to]
    BY <1>5 DEF hd_bbdirop, Written
  <2>2. Written.next \in DirOp
    BY <1>5 DEF Written, DirOp
  <2>3. IsMem(n) /\ n.pb = [m.pb EXCEPT !.op = Written.next] /\ n.pvstate = m.pvstate
    BY <1>1, <1>2, <2>2 DEF IsMem
  <2> HIDE DEF n
  <2>4. IsMem(m') /\ m'.pb = [m.pb EXCEPT !.op = Written.next] /\ m'.pvstate = m.pvstate
    BY <2>1, <2>3, ReturnKept
  <2>5. m'.pb # NULL /\ m'.pb.op = Written.next
    BY <1>2, <2>2, <2>4, NullAssumption
  <2> QED
    BY <1>1, <1>5, <2>1, <2>4, <2>5 DEF WholeInv, AllWholeBut, Half, Copy, Written, Whole, Torn
<1> QED
  BY <1>2, <1>3, <1>4, <1>5 DEF DirOp

LEMMA DirectoryErrorKept ==
  ASSUME WholeInv, DirectoryError
  PROVE  WholeInv'
<1> DEFINE c == ReadOnly(m)
           d == hd_bbdirdone(c, FALSE, m.pb.op # "RD_BBPRIM")
<1>1. mode = "up" /\ mode' = "up" /\ IsMem(m) /\ Return(d, good) /\ disk' \in MayHaveWritten
  BY DEF DirectoryError, WholeInv
<1>2. IsMem(c) /\ c.pvstate = "PV_RORELOC"
  BY <1>1 DEF IsMem, ReadOnly
<1> HIDE DEF c
<1>3. Ends(c, d)
  BY <1>2, BbdirdoneEnds
<1> HIDE DEF d
<1>4. IsMem(m') /\ m'.pvstate = "PV_RORELOC"
  BY <1>1, <1>2, <1>3, ReturnKept DEF Ends
<1>5. disk' = [x \in Copy |-> disk'[x]]
  BY <1>1 DEF WholeInv, MayHaveWritten
<1> QED
  BY <1>4, <1>5 DEF WholeInv

LEMMA CrashKept ==
  ASSUME WholeInv, Crash
  PROVE  WholeInv'
<1>1. disk' = [x \in Copy |-> disk'[x]]
  BY DEF Crash, WholeInv, MayHaveWritten
<1> QED
  BY <1>1 DEF WholeInv, Crash

(* A varyon leaves relocation on only if it has put both copies right.      *)
LEMMA VaryonKept ==
  ASSUME WholeInv, NEW readable, NEW rewritten, lvm_rdbbdir(readable, rewritten)
  PROVE  WholeInv'
<1> DEFINE U == Usable(readable)
           best == IF "PRIM" \in U THEN "PRIM" ELSE "BACK"
           Mem == Memory(lvm_bldbblst(disk[best].ent), next_relblk(disk[best].ent),
                         IF rewritten THEN "PV_ACTIVE" ELSE "PV_RORELOC")
<1>1. CASE U = {}
  BY <1>1 DEF lvm_rdbbdir, WholeInv
<1>2. CASE U # {}
  <2>1. mode' = "up" /\ m' = Mem
    BY <1>2, Zenon DEF lvm_rdbbdir
  <2>2. IsMem(m') /\ m'.pb = NULL /\ (m'.pvstate # "PV_RORELOC" => rewritten)
    BY <2>1 DEF IsMem, Memory
  <2>3. disk' \in IF rewritten
                  THEN {[x \in Copy |-> IF x \in U THEN disk[x] ELSE disk[best]]}
                  ELSE {disk, [x \in Copy |-> IF x \in U THEN disk[x] ELSE Torn]}
    BY <1>2, Zenon DEF lvm_rdbbdir
  <2>4. \A x \in U : disk[x].hdr = "DEFECT"
    BY DEF Usable
  <2>5. best \in U
    BY <1>2 DEF lvm_rdbbdir, Usable, Copy
  <2>6. disk' = [x \in Copy |-> disk'[x]]
    BY <2>3 DEF WholeInv
  <2>7. rewritten => \A x \in Copy : disk'[x].hdr = "DEFECT"
    BY <2>3, <2>4, <2>5
  <2> QED
    BY <2>2, <2>6, <2>7 DEF WholeInv, AllWholeBut
<1> QED
  BY <1>1, <1>2

(* The inductive invariant holds of every reachable state.                  *)
THEOREM WholeInvariance == Spec => []WholeInv
<1>1. Init => WholeInv
  BY DEF Init, WholeInv, Memory, IsMem, AllWholeBut, Whole
<1>2. WholeInv /\ [Next]_vars => WholeInv'
  <2> SUFFICES ASSUME WholeInv, [Next]_vars
               PROVE  WholeInv'
    OBVIOUS
  <2>1. ASSUME NEW q \in Req, NEW b \in Blk, NEW op, NEW ro, hd_begin(q, b, op, ro)
        PROVE  WholeInv'
    BY <2>1, BeginKept
  <2>2. ASSUME NEW q \in Req, TransferEnds(q)
        PROVE  WholeInv'
    BY <2>2, EndKept, BbendKept DEF TransferEnds
  <2>3. ASSUME NEW readable, NEW rewritten, lvm_rdbbdir(readable, rewritten)
        PROVE  WholeInv'
    BY <2>3, VaryonKept
  <2>4. CASE UNCHANGED vars
    BY <2>4 DEF vars, WholeInv, IsMem
  <2> QED
    BY <2>1, <2>2, <2>3, <2>4, BbdiropKept, DirectoryErrorKept, CrashKept, Zenon DEF Next
<1> QED
  BY <1>1, <1>2, PTL DEF Spec

(* hd_bbdirop writes the copies one after the other, and every way out of    *)
(* that order turns relocation off: while it is on, one copy is whole.      *)
THEOREM OneCopyWholeHolds == Spec => []OneCopyWhole
<1>1. WholeInv => OneCopyWhole
  BY DEF WholeInv, OneCopyWhole, WholeCopy, AllWholeBut, Half, Copy
<1> QED
  BY <1>1, WholeInvariance, PTL

=============================================================================
