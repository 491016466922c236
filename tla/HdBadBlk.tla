------------------------------ MODULE HdBadBlk ------------------------------
(***************************************************************************)
(* Bad-block relocation and the bad block directory of one disk            *)
(* (hd_bbrel.c, hd_bbdir.c, hd_begin and hd_end in hd_phys.c), a crash and  *)
(* the varyon that reads the directory again (bbdirutl.c, bblstutl.c in     *)
(* liblvm).                                                                *)
(*                                                                         *)
(* A block the disk reports bad is rewritten, so that the disk relocates it *)
(* (hardware relocation), or else written to a block of the pool at the end *)
(* of the disk.  The driver keeps a structure per bad block in defect_tbl;  *)
(* the disk keeps two copies of a directory, which are written one after    *)
(* the other, each first with UPDATE in its header and then with DEFECT.    *)
(* A block of the pool may go bad as well: the directory then has a chain.  *)
(*                                                                         *)
(* A request is for one block, as the driver splits requests around bad     *)
(* blocks (hd_chkblk, hd_resume), and requests for one block are serialized *)
(* (HdStrat).  glb_sched_intlock makes each handler one step.               *)
(***************************************************************************)
EXTENDS Integers, Sequences, FiniteSets, SequencesExt

CONSTANTS
  Req,            \* physical buffers
  Blk,            \* blocks of the disk that requests address
  beg_relblk, max_relblk,   \* the relocation pool
  MAX_SWRETRY,    \* dasd.h: 3
  MAX_BBENTRIES,  \* entries that fit in the directory
  ReadOnlyReloc,  \* may a request ask for RORELOC: a subset of BOOLEAN
  MaxIssue, MaxErr, MaxCrash,   \* bounds: requests, I/O errors, crashes
  NULL

Pool == beg_relblk..max_relblk
Loc == Blk \cup Pool

DirOp == {"RD_BBPRIM", "WT_UBBPRIM", "WT_DBBPRIM", "WT_UBBBACK", "WT_DBBBACK"}

ASSUME NullAssumption == NULL \notin [op : DirOp, orig : Req]
ASSUME BlkAssumption == Blk \subseteq 1..(beg_relblk - 1) /\ beg_relblk \in Nat /\ max_relblk \in Nat

VARIABLES
  m,         \* what the driver has in memory
  disk,      \* the two copies of the directory
  good,      \* good[b]: where the data last acknowledged for b, or newer, are
  mode,      \* "up", "down" or, when no copy could be read, "unusable"
  diverged,  \* a varyon has found the copies different and left them so
  count      \* what has been issued, has failed, has crashed

vars == <<m, disk, good, mode, diverged, count>>

Copy == {"PRIM", "BACK"}
Entry == [bb : Loc, stat : {"REL_DONE", "REL_DESIRED"}, rel : Pool \cup {0}]

NewReq == [blk |-> 0, op |-> "read", ro |-> FALSE, at |-> 0, wr |-> FALSE,
           iodone |-> "hd_end", bbop |-> "", fix |-> "", swretry |-> 0, bad |-> 0,
           err |-> FALSE, wrote |-> {}]

Active(q) == m.req[q] # NULL
-----------------------------------------------------------------------------
(* Lists of directory entries.                                              *)

Torn == [hdr |-> "UPDATE", ent |-> <<>>]
Whole(e) == [hdr |-> "DEFECT", ent |-> e]

(* The block whose chain of relocations in e ends at r: one pass backwards. *)
Original(e, r) ==
  FoldRight(LAMBDA x, b : IF b >= beg_relblk /\ x.rel = b THEN x.bb ELSE b, e, r)

IndexOf(e, b) == SelectLastInSeq(e, LAMBDA x : x.bb = b)

(* From entry i forward to the last of its chain.                           *)
ChainEnd(e, i) ==
  FoldLeftDomain(LAMBDA k, j : IF j > i /\ e[k].rel = e[j].bb THEN j ELSE k, i, e)

(* Entry i goes behind the last one that is done, if that is behind it.     *)
Sorted(e, i) ==
  LET j == SelectLastInSeq(e, LAMBDA x : x.stat = "REL_DONE")
  IN  IF j > i THEN InsertAt(RemoveAt(e, i), j, e[i]) ELSE e

(* What the routines return: the new directory, or why there is none.       *)
hd_bbadd(e, b, bad) ==
  IF Len(e) = MAX_BBENTRIES THEN [rc |-> "BB_FULL", ent |-> e]
  ELSE IF b >= beg_relblk /\ Original(e, b) >= beg_relblk THEN [rc |-> "BB_ERROR", ent |-> e]
  ELSE [rc |-> "BB_SUCCESS", ent |-> Append(e, [bb |-> b, stat |-> bad.stat, rel |-> bad.rel])]

hd_bbdel(e, b) ==
  LET i == IndexOf(e, b)
  IN  IF i = 0 THEN [rc |-> "BB_ERROR", ent |-> e]
      ELSE IF Original(RemoveAt(e, i), b) >= beg_relblk
      THEN [rc |-> "BB_ERROR", ent |-> RemoveAt(e, i)]
      ELSE [rc |-> "BB_SUCCESS", ent |-> RemoveAt(e, i)]

hd_bbupd(e, b, bad) ==
  LET i == IndexOf(e, b)
      k == IF e[i].stat = "REL_DESIRED" THEN i ELSE ChainEnd(e, i)
      new == Sorted([e EXCEPT ![k].stat = bad.stat, ![k].rel = bad.rel], k)
  IN  IF i = 0 THEN [rc |-> "BB_ERROR", ent |-> e]
      ELSE IF Original(new, b) >= beg_relblk THEN [rc |-> "BB_ERROR", ent |-> new]
      ELSE [rc |-> "BB_SUCCESS", ent |-> new]

(* lvm_bbdsane: the relocation blocks must be in ascending order.           *)
lvm_bbdsane(e) ==
  \A i, j \in DOMAIN e : i < j /\ e[i].stat = "REL_DONE" /\ e[j].stat = "REL_DONE"
                          => e[i].rel < e[j].rel

(* lvm_bldbblst: the structures for a directory.  A relocation block has    *)
(* one of its own only while it is to be relocated.                         *)
lvm_bldbblst(e) ==
  FoldLeftDomain(
    LAMBDA tbl, i :
      LET x == e[i]
          o == Original(SubSeq(e, 1, i - 1), x.bb)
      IN  IF x.bb < beg_relblk THEN [tbl EXCEPT ![x.bb] = [stat |-> x.stat, rel |-> x.rel]]
          ELSE IF x.stat = "REL_DONE" THEN [tbl EXCEPT ![o].rel = x.rel]
          ELSE [tbl EXCEPT ![x.bb] = [stat |-> x.stat, rel |-> x.rel],
                           ![o].stat = "REL_CHAINED"],
    [l \in Loc |-> NULL], e)

(* ... and the next block of the pool to be given out.                      *)
next_relblk(e) ==
  LET i == SelectLastInSeq(e, LAMBDA x : x.stat = "REL_DONE")
  IN  IF i = 0 THEN beg_relblk ELSE e[i].rel + 1
-----------------------------------------------------------------------------
(* What the handlers do to the driver's memory.                             *)

hd_start(c, q, at, wr, iodone) ==
  [c EXCEPT !.req[q].at = at, !.req[q].wr = wr, !.req[q].iodone = iodone]

Finish(c, q, err) == [c EXCEPT !.req[q].iodone = IF err THEN "error" ELSE "success"]

(* A structure that is freed, or whose number has been changed, is no       *)
(* longer found under l.                                                    *)
Release(c, l) == [c EXCEPT !.tbl[l] = NULL]
Desired == [stat |-> "REL_DESIRED", rel |-> 0]

(* Nobody can use block b: hd_chkblk would panic or follow a null pointer.  *)
Trap(tbl, b) ==
  /\ tbl[b] # NULL
  /\ \/ tbl[b].stat \in {"REL_PENDING", "REL_DEVICE"}
     \/ tbl[b].stat = "REL_CHAINED" /\ (tbl[b].rel = 0 \/ tbl[tbl[b].rel] = NULL)

(* The block that has to be relocated for b, if any, and where b is now.    *)
Place(tbl, b) ==
  IF tbl[b] = NULL \/ tbl[b].stat = "REL_DESIRED" THEN b ELSE tbl[b].rel
NeedsReloc(tbl, b) == tbl[b] # NULL /\ tbl[b].stat \in {"REL_DESIRED", "REL_CHAINED"}

RORELOC(c, q) == c.pvstate = "PV_RORELOC" \/ c.req[q].ro

hd_chkblk(c, q) ==
  LET r == c.req[q]
      at == Place(c.tbl, r.blk)
  IN  IF ~NeedsReloc(c.tbl, r.blk) THEN hd_start(c, q, at, r.op = "write", "hd_end")
      ELSE IF RORELOC(c, q) THEN Finish(c, q, TRUE)
      ELSE IF r.op = "read"
      THEN hd_start([c EXCEPT !.req[q].bbop = "BB_RDDFCT", !.req[q].bad = at],
                    q, at, FALSE, "hd_bbend")
      ELSE hd_start([c EXCEPT !.req[q].bbop = "BB_WTDFCT", !.req[q].bad = at,
                              !.req[q].fix = "FIX_READ_ERROR", !.tbl[at].stat = "REL_DEVICE"],
                    q, at, TRUE, "hd_bbend")

hd_upd_bbdir(c, q) ==
  LET w == [c EXCEPT !.req[q].iodone = "hd_bbdirend"]
  IN  IF c.pb # NULL THEN [w EXCEPT !.hld = Append(@, q)]
      ELSE [w EXCEPT !.pb = [op |-> "RD_BBPRIM", orig |-> q]]

hd_badblk(c, q, error, short) ==
  LET at == c.req[q].at
      new == [c EXCEPT !.tbl[at] = Desired, !.req[q].bad = at]
  IN  IF short \/ RORELOC(c, q) THEN Finish(c, q, error = "EMEDIA")
      ELSE IF c.req[q].op = "read" /\ error = "EMEDIA"
      THEN hd_upd_bbdir([new EXCEPT !.req[q].bbop = "BB_ADD", !.req[q].err = TRUE], q)
      ELSE hd_start([new EXCEPT !.tbl[at].stat = "REL_DEVICE", !.req[q].bbop = "BB_WTDFCT",
                                !.req[q].fix = IF error = "ESOFT" THEN "FIX_ESOFT" ELSE "FIX_EMEDIA"],
                    q, at, TRUE, "hd_bbend")

(* Mutant: a block that was in the directory is only taken off the table.   *)
hd_baddone_NoDelete(c, q) ==
  LET r == c.req[q]
      read_error == r.fix = "FIX_READ_ERROR"
  IN  IF c.tbl[r.bad].stat = "REL_PENDING"
      THEN hd_upd_bbdir([c EXCEPT !.tbl[r.bad].stat = "REL_DONE", !.req[q].fix = "",
                                  !.req[q].bbop = IF read_error THEN "BB_UPDATE" ELSE "BB_ADD"], q)
      ELSE Finish(Release(c, r.bad), q, r.err)

hd_baddone(c, q) ==
  LET r == c.req[q]
      read_error == r.fix = "FIX_READ_ERROR"
      done == [c EXCEPT !.tbl[r.bad].stat = "REL_DONE", !.req[q].fix = ""]
  IN  IF c.tbl[r.bad].stat = "REL_PENDING"
      THEN hd_upd_bbdir([done EXCEPT !.req[q].bbop = IF read_error THEN "BB_UPDATE" ELSE "BB_ADD"], q)
      ELSE IF read_error THEN hd_upd_bbdir([done EXCEPT !.req[q].bbop = "BB_DELETE"], q)
      ELSE Finish(Release(c, r.bad), q, r.err)

(* hd_swreloc cannot relocate the block.                                    *)
NotRelocated(c, q) ==
  LET r == c.req[q]
      ro == [c EXCEPT !.pvstate = "PV_RORELOC"]
  IN  IF r.fix = "FIX_ESOFT" THEN Finish(Release(ro, r.bad), q, FALSE)
      ELSE IF c.pvstate = "PV_RORELOC"
      THEN Finish([c EXCEPT !.tbl[r.bad].stat = "REL_DESIRED"], q, TRUE)
      ELSE IF r.bad >= beg_relblk THEN Finish(Release(ro, r.bad), q, TRUE)
      ELSE Finish([ro EXCEPT !.tbl[r.bad] = Desired], q, TRUE)

(* Mutant: the end of the pool is not looked at.                            *)
hd_assignalt_Endless(c) == c.next

hd_assignalt(c) == IF c.next > max_relblk THEN 0 ELSE c.next

hd_swreloc(c, q, error) ==
  LET r == c.req[q]
      alt == hd_assignalt(c)
      retry == c.tbl[r.bad].stat # "REL_PENDING" \/ error = "EMEDIA"
  IN  IF c.pvstate = "PV_RORELOC" \/ ~retry \/ r.swretry + 1 >= MAX_SWRETRY \/ alt = 0
      THEN NotRelocated(c, q)
      ELSE hd_start([c EXCEPT !.tbl[r.bad] = [stat |-> "REL_PENDING", rel |-> alt],
                              !.next = alt + 1, !.req[q].swretry = @ + 1,
                              !.req[q].bbop = "BB_SWRELO"], q, alt, TRUE, "hd_bbend")

(* Mutant: the structure of a relocation block is always released.          *)
Updated_Releases(c, q) ==
  LET r == c.req[q]
      o == Original(c.buf, r.bad)
      stat == IF c.tbl[r.bad].stat = "REL_DONE" THEN c.tbl[r.bad] ELSE [c.tbl[o] EXCEPT !.stat = "REL_CHAINED"]
  IN  IF r.bbop = "BB_DELETE" THEN Release(c, r.bad)
      ELSE IF r.bad < beg_relblk THEN c
      ELSE Release([c EXCEPT !.tbl[o] = stat], r.bad)

(* Mutant: the original keeps the number of the first relocation block.     *)
Updated_Keeps(c, q) ==
  LET r == c.req[q]
      o == Original(c.buf, r.bad)
  IN  IF r.bbop = "BB_DELETE" THEN Release(c, r.bad)
      ELSE IF r.bad < beg_relblk THEN c
      ELSE IF c.tbl[r.bad].stat = "REL_DONE"
      THEN Release([c EXCEPT !.tbl[o].stat = "REL_DONE"], r.bad)
      ELSE [c EXCEPT !.tbl[o].stat = "REL_CHAINED"]

(* The end of an update that reached both copies.  A relocation block ends  *)
(* as the relocation of the block o its chain starts from.                  *)
Updated(c, q) ==
  LET r == c.req[q]
      o == Original(c.buf, r.bad)
  IN  IF r.bbop = "BB_DELETE" THEN Release(c, r.bad)
      ELSE IF r.bad < beg_relblk THEN c
      ELSE IF c.tbl[r.bad].stat = "REL_DONE"
      THEN Release([c EXCEPT !.tbl[o] = c.tbl[r.bad]], r.bad)
      ELSE [c EXCEPT !.tbl[o].stat = "REL_CHAINED"]

(* ... that failed; renamed: hd_bbadd or hd_bbupd had put the number of o   *)
(* into the structure of the relocation block.                              *)
NotUpdated(c, q, renamed) ==
  LET r == c.req[q]
      o == Original(c.buf, r.bad)
  IN  IF r.bad < beg_relblk \/ r.bbop = "BB_DELETE" \/ ~renamed
      THEN [c EXCEPT !.tbl[r.bad] = Desired]
      ELSE IF r.bbop = "BB_ADD" THEN Release([c EXCEPT !.tbl[o] = Desired], r.bad)
      ELSE Release(c, r.bad)

(* The structure a held request has changed, seen from its block: hd_fndbbrel *)
(* looks for the one that is relocated to a relocation block.               *)
hd_fndbbrel(c, q) ==
  IF c.req[q].bbop = "BB_ADD" /\ c.req[q].bad >= beg_relblk
  THEN {l \in Loc : c.tbl[l] # NULL /\ c.tbl[l].rel = c.req[q].bad}
  ELSE {c.req[q].bad}

(* Mutant: the held requests stay on the queue.                             *)
hd_chk_bbhld_Leaves(c) ==
  IF c.hld # <<>> /\ c.pvstate # "PV_RORELOC"
  THEN hd_upd_bbdir([c EXCEPT !.hld = Tail(@), !.pb = NULL], Head(c.hld))
  ELSE [c EXCEPT !.pb = NULL]

hd_chk_bbhld(c) ==
  LET Q == Range(c.hld)
      lost == UNION {hd_fndbbrel(c, q) : q \in Q}
  IN  IF c.hld = <<>> THEN [c EXCEPT !.pb = NULL]
      ELSE IF c.pvstate # "PV_RORELOC"
      THEN hd_upd_bbdir([c EXCEPT !.hld = Tail(@), !.pb = NULL], Head(c.hld))
      ELSE [c EXCEPT !.hld = <<>>, !.pb = NULL,
                     !.tbl = [l \in Loc |-> IF l \in lost THEN Desired ELSE @[l]],
                     !.req = [q \in Req |-> IF q \in Q THEN [@[q] EXCEPT !.iodone = "error"] ELSE @[q]]]

hd_bbdirdone(c, ok, renamed) ==
  LET q == c.pb.orig
      d == IF ok THEN Updated(c, q) ELSE NotUpdated(c, q, renamed)
  IN  hd_chk_bbhld(Finish(d, q, c.req[q].err \/ ~ok))

ReadOnly(c) == [c EXCEPT !.pvstate = "PV_RORELOC"]

(* The directory has been read: it is changed in memory.                    *)
Change(c) ==
  LET q == c.pb.orig
      r == c.req[q]
      e == disk["PRIM"].ent
      res == CASE r.bbop = "BB_ADD" -> hd_bbadd(e, r.bad, c.tbl[r.bad])
               [] r.bbop = "BB_DELETE" -> hd_bbdel(e, r.bad)
               [] r.bbop = "BB_UPDATE" -> hd_bbupd(e, r.bad, c.tbl[r.bad])
      o == Original(res.ent, r.bad)
      next == [c EXCEPT !.buf = res.ent, !.pb.op = "WT_UBBPRIM"]
  IN  IF disk["PRIM"].hdr # "DEFECT" THEN hd_bbdirdone(ReadOnly(c), FALSE, FALSE)
      ELSE IF res.rc = "BB_FULL" THEN hd_bbdirdone(c, FALSE, FALSE)
      ELSE IF res.rc = "BB_ERROR" THEN hd_bbdirdone(ReadOnly(c), FALSE, FALSE)
      ELSE IF r.bbop = "BB_DELETE" /\ r.bad >= beg_relblk
      THEN [next EXCEPT !.tbl[o].stat = "REL_DONE"]
      ELSE next
-----------------------------------------------------------------------------
(* The steps.  A write that reaches place l makes it current for its block  *)
(* and for no other.                                                        *)
Landed(c, q, l) ==
  LET r == c.req[q]
      new == r.op = "write" \/ r.bad \in good[r.blk]
  IN  [b \in Blk |-> IF b = r.blk /\ new THEN good[b] \cup {l} ELSE good[b] \ {l}]

(* The memory is c once the requests that are finished have been returned.  *)
Return(c, g) ==
  \E d \in {c}, h \in {g} :
    LET ends == {q \in Req : d.req[q] # NULL /\ d.req[q].iodone \in {"success", "error"}}
        acked == {q \in ends : d.req[q].iodone = "success" /\ d.req[q].op = "write"}
    IN  /\ m' = [d EXCEPT !.req = [q \in Req |-> IF q \in ends THEN NULL ELSE @[q]]]
        /\ good' = [b \in Blk |-> LET A == {q \in acked : d.req[q].blk = b}
                                  IN  IF A = {} THEN h[b] ELSE UNION {d.req[q].wrote : q \in A}]

Errors(n) == /\ count.err + n <= MaxErr
             /\ count' = [count EXCEPT !.err = @ + n]

InFlight(q, iodone) == mode = "up" /\ Active(q) /\ m.req[q].iodone = iodone

Wrote(q) == [m EXCEPT !.req[q].wrote = @ \cup {m.req[q].at}]

hd_begin(q, b, op, ro) ==
  /\ mode = "up" /\ ~Active(q) /\ count.issue < MaxIssue
  /\ \A r \in Req : Active(r) => m.req[r].blk # b
  /\ ~Trap(m.tbl, b)
  /\ Return(hd_chkblk([m EXCEPT !.req[q] = [NewReq EXCEPT !.blk = b, !.op = op, !.ro = ro]], q), good)
  /\ count' = [count EXCEPT !.issue = @ + 1]
  /\ UNCHANGED <<disk, mode, diverged>>

(* The end of a transfer; short: there is no structure left for a bad block *)
(* (hd_freebad).  With ESOFT the data have been transferred.                *)
hd_end(q, error, short) ==
  LET r == m.req[q]
      moved == r.wr /\ error \in {"none", "ESOFT"}
      c == IF moved THEN Wrote(q) ELSE m
      g == IF moved THEN Landed(m, q, r.at) ELSE good
  IN  /\ InFlight(q, "hd_end")
      /\ Errors(IF error = "none" THEN 0 ELSE 1)
      /\ IF error \in {"EMEDIA", "ESOFT"} THEN Return(hd_badblk(c, q, error, short), g)
         ELSE ~short /\ Return(Finish(c, q, error = "EIO"), g)
      /\ UNCHANGED <<disk, mode, diverged>>

(* The error flag of a soft error is not reset: the block is relocated, and *)
(* yet the request returns with the error.                                  *)
hd_bbend(q, error) ==
  LET r == m.req[q]
      done == error \in {"none", "ESOFT"}
      moved == [Wrote(q) EXCEPT !.req[q].err = (error = "ESOFT")]
  IN  /\ InFlight(q, "hd_bbend")
      /\ Errors(IF error = "none" THEN 0 ELSE 1)
      /\ IF done /\ r.bbop = "BB_RDDFCT"
         THEN Return(hd_start([m EXCEPT !.req[q].bbop = "BB_WTDFCT", !.req[q].fix = "FIX_READ_ERROR",
                                        !.tbl[r.bad].stat = "REL_DEVICE"],
                              q, r.at, TRUE, "hd_bbend"), good)
         ELSE IF done THEN Return(hd_baddone(moved, q), Landed(m, q, r.at))
         ELSE IF r.bbop = "BB_RDDFCT" THEN Return(Finish(m, q, TRUE), good)
         ELSE Return(hd_swreloc(m, q, error), good)
      /\ UNCHANGED <<disk, mode, diverged>>

(* Mutant: the request goes on when the primary is written.                 *)
Written_PrimaryOnly ==
  CASE m.pb.op = "WT_UBBPRIM" -> [copy |-> "PRIM", to |-> Torn, next |-> "WT_DBBPRIM"]
    [] m.pb.op = "WT_DBBPRIM" -> [copy |-> "PRIM", to |-> Whole(m.buf), next |-> ""]

(* Mutant: both copies get their entries before either its DEFECT.          *)
Written_Together ==
  CASE m.pb.op = "WT_UBBPRIM" -> [copy |-> "PRIM", to |-> Torn, next |-> "WT_UBBBACK"]
    [] m.pb.op = "WT_UBBBACK" -> [copy |-> "BACK", to |-> Torn, next |-> "WT_DBBPRIM"]
    [] m.pb.op = "WT_DBBPRIM" -> [copy |-> "PRIM", to |-> Whole(m.buf), next |-> "WT_DBBBACK"]
    [] m.pb.op = "WT_DBBBACK" -> [copy |-> "BACK", to |-> Whole(m.buf), next |-> ""]

(* The writes of the directory: what each leaves on which copy.  With       *)
(* UPDATE in its header a copy counts for nothing, whatever its entries.    *)
Written ==
  CASE m.pb.op = "WT_UBBPRIM" -> [copy |-> "PRIM", to |-> Torn, next |-> "WT_DBBPRIM"]
    [] m.pb.op = "WT_DBBPRIM" -> [copy |-> "PRIM", to |-> Whole(m.buf), next |-> "WT_UBBBACK"]
    [] m.pb.op = "WT_UBBBACK" -> [copy |-> "BACK", to |-> Torn, next |-> "WT_DBBBACK"]
    [] m.pb.op = "WT_DBBBACK" -> [copy |-> "BACK", to |-> Whole(m.buf), next |-> ""]

(* A transfer that failed, or was cut off, may have reached the disk.       *)
MayHaveWritten ==
  IF m.pb = NULL \/ (m.pb # NULL /\ m.pb.op = "RD_BBPRIM") THEN {disk}
  ELSE {disk, [disk EXCEPT ![Written.copy] = Written.to]}

hd_bbdirop ==
  /\ mode = "up" /\ m.pb # NULL
  /\ IF m.pb.op = "RD_BBPRIM" THEN Return(Change(m), good) /\ UNCHANGED disk
     ELSE /\ disk' = [disk EXCEPT ![Written.copy] = Written.to]
          /\ IF Written.next = "" THEN Return(hd_bbdirdone(m, TRUE, FALSE), good)
             ELSE Return([m EXCEPT !.pb.op = Written.next], good)
  /\ UNCHANGED <<mode, diverged, count>>

(* hd_bbdirend with an error.                                               *)
DirectoryError ==
  /\ mode = "up" /\ m.pb # NULL
  /\ Errors(1)
  /\ disk' \in MayHaveWritten
  /\ Return(hd_bbdirdone(ReadOnly(m), FALSE, m.pb.op # "RD_BBPRIM"), good)
  /\ UNCHANGED <<mode, diverged>>
-----------------------------------------------------------------------------
Memory(tbl, next, pvstate) ==
  [req |-> [q \in Req |-> NULL], tbl |-> tbl, hld |-> <<>>, pb |-> NULL, buf |-> <<>>,
   pvstate |-> pvstate, next |-> next]

NoMemory == Memory([l \in Loc |-> NULL], 0, "PV_ACTIVE")

Crash ==
  /\ mode = "up" /\ count.crash < MaxCrash
  /\ mode' = "down" /\ m' = NoMemory /\ disk' \in MayHaveWritten
  /\ count' = [count EXCEPT !.crash = @ + 1]
  /\ UNCHANGED <<good, diverged>>

(* lvm_rdbbdir: the copies that varyon can use, of those it can read.       *)
Usable(readable) == {c \in readable : disk[c].hdr = "DEFECT" /\ lvm_bbdsane(disk[c].ent)}

(* The copy that is used replaces one that is not; two are not compared.    *)
lvm_rdbbdir(readable, rewritten) ==
  LET U == Usable(readable)
      best == IF "PRIM" \in U THEN "PRIM" ELSE "BACK"
      e == disk[best].ent
  IN  /\ mode = "down" /\ readable \subseteq Copy
      /\ Errors(Cardinality(Copy \ readable) + IF rewritten THEN 0 ELSE 1)
      /\ IF U = {} THEN /\ rewritten /\ mode' = "unusable"
                        /\ UNCHANGED <<m, disk, diverged>>
         ELSE /\ mode' = "up" /\ (rewritten \/ U # Copy)
              /\ disk' \in IF rewritten
                           THEN {[c \in Copy |-> IF c \in U THEN disk[c] ELSE disk[best]]}
                           ELSE {disk, [c \in Copy |-> IF c \in U THEN disk[c] ELSE Torn]}
              /\ diverged' = (diverged \/ (disk'["PRIM"] # disk'["BACK"] /\ \A c \in Copy : disk'[c].hdr = "DEFECT"))
              /\ m' = Memory(lvm_bldbblst(e), next_relblk(e),
                             IF rewritten THEN "PV_ACTIVE" ELSE "PV_RORELOC")
      /\ UNCHANGED good

Init ==
  /\ m = Memory([l \in Loc |-> NULL], beg_relblk, "PV_ACTIVE")
  /\ disk = [c \in Copy |-> Whole(<<>>)]
  /\ good = [b \in Blk |-> {b}]
  /\ mode = "up" /\ diverged = FALSE
  /\ count = [issue |-> 0, err |-> 0, crash |-> 0]

TransferEnds(q) ==
  \E error \in {"none", "EIO", "EMEDIA", "ESOFT"} :
    hd_bbend(q, error) \/ \E short \in BOOLEAN : hd_end(q, error, short)

Next ==
  \/ \E q \in Req, b \in Blk, op \in {"read", "write"}, ro \in ReadOnlyReloc : hd_begin(q, b, op, ro)
  \/ \E q \in Req : TransferEnds(q)
  \/ hd_bbdirop \/ DirectoryError \/ Crash
  \/ \E readable \in SUBSET Copy, rewritten \in BOOLEAN : lvm_rdbbdir(readable, rewritten)

(* A transfer that has been handed to the disk driver ends, with whatever   *)
(* outcome; nothing is said of new requests, crashes and varyons.  (Weak    *)
(* fairness, with ENABLED written out.)                                     *)
UnderWay(q) == InFlight(q, "hd_end") \/ InFlight(q, "hd_bbend")
Updating == mode = "up" /\ m.pb # NULL
Fairness ==
  /\ \A q \in Req : []<>~UnderWay(q) \/ []<><<TransferEnds(q)>>_vars
  /\ []<>~Updating \/ []<><<hd_bbdirop \/ DirectoryError>>_vars

Spec == Init /\ [][Next]_vars /\ Fairness
-----------------------------------------------------------------------------
(* Structures, directory and retries keep their ranges: hd_assignalt gives   *)
(* out no block past the pool, and hd_swreloc gives up at MAX_SWRETRY.       *)
TypeOK ==
  /\ m.tbl \in [Loc -> {NULL} \cup [stat : {"REL_DESIRED", "REL_PENDING", "REL_DEVICE", "REL_CHAINED", "REL_DONE"},
                        rel : Pool \cup {0}]]
  /\ m.next \in 0..max_relblk + 1
  /\ \A c \in Copy : disk[c].ent \in Seq(Entry) /\ Len(disk[c].ent) <= MAX_BBENTRIES
  /\ \A q \in Req : Active(q) => m.req[q].swretry < MAX_SWRETRY
  /\ good \in [Blk -> SUBSET Loc]

Idle(b) == \A q \in Req : Active(q) => m.req[q].blk # b
Refused(b) == NeedsReloc(m.tbl, b) /\ m.pvstate = "PV_RORELOC"

(* Where the next varyon will look for block b if it uses copy c.           *)
After(c, b) == Place(lvm_bldbblst(disk[c].ent), b)

(* hd_chkblk: a request never finds its block in a state that only another  *)
(* request leaves it in, nor a chained relocation block without structure.  *)
(* Once relocation is off (PV_RORELOC) the code does not keep this.          *)
Trapped == \E b \in Blk : Idle(b) /\ Trap(m.tbl, b)
NoTrap == mode = "up" /\ m.pvstate # "PV_RORELOC" => ~Trapped

(* Data that hd_end or hd_baddone has acknowledged are where hd_chkblk sends *)
(* the next request, through relocations that fail half way, held updates,  *)
(* and a restart.                                                          *)
AckedIsFound ==
  mode = "up" /\ ~diverged =>
    \A b \in Blk : Idle(b) /\ ~Refused(b) => Place(m.tbl, b) \in good[b]

(* Whatever moment the system stops at, each copy of the directory that the *)
(* next lvm_rdbbdir may use leads to the data that were acknowledged.       *)
RestartFinds == ~diverged => \A c \in Usable(Copy), b \in Blk : After(c, b) \in good[b]

(* hd_bbdirop writes the copies one after the other: "DEFECT when valid data *)
(* exits in the directory" (bbdir.h) is true of one of them between any two  *)
(* of its writes, as long as relocation is on.                              *)
WholeCopy == \E c \in Copy : disk[c].hdr = "DEFECT"
OneCopyWhole == mode = "up" /\ m.pvstate # "PV_RORELOC" => WholeCopy

(* The comment on hd_bbadd: the entries are in the order of their relocation *)
(* blocks.  lvm_bbdsane refuses a directory that is not.                    *)
InOrder == \A c \in Copy : disk[c].hdr = "DEFECT" => lvm_bbdsane(disk[c].ent)

(* Between updates the structures are those that lvm_bldbblst would build   *)
(* from the directory: hd_bbadd, hd_bbupd and hd_bbdel change the entries,   *)
(* hd_bbdirdone the structures.  For a block that hd_bbadd has found the     *)
(* directory full for there is a structure and no entry.                    *)
LeftOut(b) == m.tbl[b] = Desired /\ IndexOf(disk["PRIM"].ent, b) = 0
TableIsDirectory ==
  mode = "up" /\ m.pvstate # "PV_RORELOC" /\ m.pb = NULL =>
    LET tbl == lvm_bldbblst(disk["PRIM"].ent)
    IN  \A b \in Blk : Idle(b) =>
          /\ m.tbl[b] = tbl[b] \/ LeftOut(b)
          /\ NeedsReloc(tbl, b) => m.tbl[Place(tbl, b)] = tbl[Place(tbl, b)]

(* hd_chk_bbhld: every request comes back, those held behind the update of  *)
(* another one included, or is lost in a crash.                             *)
EveryRequestReturns == \A q \in Req : Active(q) ~> ~Active(q)
=============================================================================
