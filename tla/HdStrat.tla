------------------------------ MODULE HdStrat ------------------------------
(***************************************************************************)
(* The strategy layer of the logical volume device driver                  *)
(* (src/bos/kernext/lvm/hd_strat.c), the non-mirrored scheduling policy     *)
(* and the end of a physical transfer (hd_sched.c, hd_phys.c), for the      *)
(* logical volumes of one volume group.                                    *)
(*                                                                         *)
(* A request (struct buf) is validated, linked on the work_Q hash chain of  *)
(* its logical volume, and marked ELBBLOCKED when an older request of the   *)
(* chain touches one of its 4K pages; otherwise it goes to the pending_Q.   *)
(* hd_schedule() gives a physical buffer to each pending request, and the   *)
(* completion of one unblocks those that waited for it.  hd_quiet() waits   *)
(* for the requests it finds in progress, for a close or a reduce.          *)
(*                                                                         *)
(* glb_sched_intlock is held from "initiate" or "schedule" until it is      *)
(* "free" again: the steps in between are the iterations of the two loops.  *)
(***************************************************************************)
EXTENDS Integers, Sequences, FiniteSets, Functions

CONSTANTS
  Req,          \* request buffers
  Lv,           \* logical volumes of the volume group
  Trk,          \* logical track groups of a volume
  Page,         \* 4K pages of a track group
  Cpu,          \* processors, each with its own list of finished buffers
  WORKQ_SIZE,   \* number of hash chains of a work_Q
  NPbuf,        \* physical buffers in the pool
  MaxList,      \* longest list given to one hd_strategy call
  NULL,         \* no request parameters: the buffer is with its owner
  Other         \* a finished buffer whose b_iodone is not hd_end

ASSUME NPbufAssumption == NPbuf \in Nat \ {0}
ASSUME TrkAssumption == Trk \subseteq Nat /\ WORKQ_SIZE \in Nat \ {0}
ASSUME ReqAssumption == IsFiniteSet(Req) /\ Other \notin Req

VARIABLES
  lv_status,    \* lvol.lv_status of each volume
  VG_FORCEDOFF, \* the volume group lost its quorum
  lbuf,         \* parameters of each request the driver holds, else NULL
  work_Q,       \* requests linked on a hash chain
  older,        \* the requests in front of each one on its chain
  b_error,      \* "none", or "ELBBLOCKED" while blocked
  inflight,     \* requests marked B_INFLIGHT
  complcnt,     \* lvol.complcnt
  pending_Q,    \* requests waiting for hd_schedule
  hd_freebuf,   \* number of free physical buffers
  started,      \* requests whose physical buffer is with a disk
  iodonelist,   \* finished buffers each processor has still to hand back
  lock,         \* what the holder of glb_sched_intlock is doing
  req_list,     \* rest of the list hd_initiate is working on
  quiet         \* the process in hd_open, hd_close or hd_quiet, if any

qvars == <<work_Q, older, b_error, inflight, complcnt, lbuf>>
vars == <<lv_status, VG_FORCEDOFF, qvars, pending_Q, hd_freebuf, started,
          iodonelist, lock, req_list, quiet>>

Extent == [dev: Lv, trk: Trk, work: (SUBSET Page) \ {{}}]

ASSUME NullAssumption == NULL \notin Extent

Idle == [pc |-> "idle", op |-> "none"]
QuietState ==
  {Idle} \cup [pc: {"enter", "asleep", "awake"}, op: {"close", "drain"}, lv: Lv]

Init ==
  /\ lv_status = [l \in Lv |-> "LV_CLOSED"]
  /\ VG_FORCEDOFF = FALSE
  /\ lbuf = [r \in Req |-> NULL]
  /\ work_Q = {}
  /\ older = [r \in Req |-> {}]
  /\ b_error = [r \in Req |-> "none"]
  /\ inflight = {}
  /\ complcnt = [l \in Lv |-> 0]
  /\ pending_Q = <<>>
  /\ hd_freebuf = NPbuf
  /\ started = {}
  /\ iodonelist = [c \in Cpu |-> <<>>]
  /\ lock = "free"
  /\ req_list = <<>>
  /\ quiet = Idle
-----------------------------------------------------------------------------
HD_HASH(r) == lbuf[r].trk % WORKQ_SIZE

(* The requests of the hash chain that r belongs to. *)
Chain(r) == {q \in work_Q : /\ lbuf[q].dev = lbuf[r].dev
                            /\ HD_HASH(q) = HD_HASH(r)}

(* Mutant: only the requests on their way to a disk are looked at.          *)
Conflicts_Unblocked(r, S) ==
  UNION {lbuf[q].work : q \in {p \in S : /\ lbuf[p].trk = lbuf[r].trk
                                         /\ b_error[p] # "ELBBLOCKED"}}

(* The pages of r's track group that the requests of S work on. *)
Conflicts(r, S) == UNION {lbuf[q].work : q \in {p \in S : lbuf[p].trk = lbuf[r].trk}}

Overlaps(r, S) == Conflicts(r, S) \cap lbuf[r].work # {}

(* The orders of S in which an older request of a chain precedes a newer. *)
ChainOrders(S) ==
  {s \in [1..Cardinality(S) -> S] :
     /\ Range(s) = S
     /\ \A i, j \in 1..Cardinality(S) : i < j => s[i] \in older[s[j]]}

Blocked(r) == b_error[r] = "ELBBLOCKED"
-----------------------------------------------------------------------------
(* hd_strategy: take the lock with a list of requests to initiate.          *)
hd_strategy(list, ext) ==
  /\ lock = "free"
  /\ \A i \in DOMAIN list : lbuf[list[i]] = NULL
  /\ lbuf' = [r \in Req |-> IF r \in Range(list) THEN ext[r] ELSE lbuf[r]]
  /\ req_list' = list
  /\ lock' = "initiate"
  /\ UNCHANGED <<lv_status, VG_FORCEDOFF, work_Q, older, b_error, inflight,
                 complcnt, pending_Q, hd_freebuf, started, iodonelist, quiet>>

(* Mutant: a closing volume still takes requests.                           *)
validate_req_Closing(r) == ~VG_FORCEDOFF /\ lv_status[lbuf[r].dev] # "LV_CLOSED"

(* validate_req: the volume group is active and the volume is open.         *)
validate_req(r) == ~VG_FORCEDOFF /\ lv_status[lbuf[r].dev] = "LV_OPEN"

(* serialize_data_access: link r at the tail of its chain, blocked if an    *)
(* outstanding request works on one of its pages.                           *)
serialize_data_access(r) ==
  /\ work_Q' = work_Q \cup {r}
  /\ older' = [older EXCEPT ![r] = Chain(r)]
  /\ b_error' = [b_error EXCEPT
                   ![r] = IF Overlaps(r, Chain(r)) THEN "ELBBLOCKED" ELSE "none"]

(* One iteration of hd_initiate: the head of the list is returned as        *)
(* invalid, or serialized and put on the pending_Q unless it is blocked.    *)
hd_initiate ==
  /\ lock = "initiate" /\ req_list # <<>>
  /\ req_list' = Tail(req_list)
  /\ LET r == Head(req_list) IN
     IF validate_req(r)
     THEN /\ serialize_data_access(r)
          /\ pending_Q' = IF b_error'[r] = "ELBBLOCKED" THEN pending_Q
                                                        ELSE Append(pending_Q, r)
          /\ UNCHANGED lbuf
     ELSE /\ lbuf' = [lbuf EXCEPT ![r] = NULL]
          /\ UNCHANGED <<work_Q, older, b_error, pending_Q>>
  /\ UNCHANGED <<lv_status, VG_FORCEDOFF, inflight, complcnt, hd_freebuf,
                 started, iodonelist, lock, quiet>>

(* hd_strategy goes on to hd_schedule when hd_initiate has done the list.   *)
Initiated ==
  /\ lock = "initiate" /\ req_list = <<>>
  /\ lock' = "schedule"
  /\ UNCHANGED <<lv_status, VG_FORCEDOFF, qvars, pending_Q, hd_freebuf,
                 started, iodonelist, req_list, quiet>>
-----------------------------------------------------------------------------
(* Mutant: one older request gone is enough, whatever else is in front.     *)
hd_unblock_Eager(q, gone) == gone # {}

(* hd_unblock: q, behind the requests that are gone, conflicts with none    *)
(* of those still in front of it.                                           *)
hd_unblock(q, gone) == ~Overlaps(q, older[q] \ gone)

(* The requests among gone that hd_quiet waits for.                         *)
Completed(gone) == inflight \cap gone

(* hd_terminate of request r, which has been taken off the queue pq: r      *)
(* leaves its chain, and the blocked requests behind r are scanned.  Those   *)
(* of refused saw VG_FORCEDOFF and go back to their owners with EIO; the    *)
(* flag is set by hd_sa_iodone, which does not hold glb_sched_intlock, so    *)
(* that it may appear in the middle of the scan.  The others are put on     *)
(* the pending_Q if nothing in front of them conflicts any more.  Whoever    *)
(* waits for the volume is woken when its complcnt has come down to 0.      *)
hd_terminate(r, pq) ==
  LET waiting == {q \in work_Q : r \in older[q] /\ Blocked(q)}
      lv == lbuf[r].dev IN
  \E refused \in SUBSET waiting :
    /\ VG_FORCEDOFF => refused = waiting
    /\ \A p \in refused : \A q \in waiting : p \in older[q] => q \in refused
    /\ LET gone == {r} \cup refused
           ready == {q \in waiting \ refused : hd_unblock(q, gone)} IN
       /\ work_Q' = work_Q \ gone
       /\ older' = [q \in Req |-> IF q \in gone THEN {} ELSE older[q] \ gone]
       /\ b_error' = [q \in Req |->
                        IF q \in gone \cup ready THEN "none" ELSE b_error[q]]
       /\ lbuf' = [q \in Req |-> IF q \in gone THEN NULL ELSE lbuf[q]]
       /\ \E s \in ChainOrders(ready) : pending_Q' = pq \o s
       /\ inflight' = inflight \ gone
       /\ complcnt' = [complcnt EXCEPT ![lv] = @ - Cardinality(Completed(gone))]
    /\ VG_FORCEDOFF' = (VG_FORCEDOFF \/ refused # {})
    /\ quiet' = IF quiet.pc = "asleep" /\ quiet.lv = lv /\ complcnt'[lv] = 0
                THEN [quiet EXCEPT !.pc = "awake"] ELSE quiet

(* Mutant: the error path gives back a physical buffer it did not take.     *)
Refuse_Releases ==
  /\ lock = "schedule" /\ pending_Q # <<>>
  /\ hd_terminate(Head(pending_Q), Tail(pending_Q))
  /\ hd_freebuf' = hd_freebuf + 1
  /\ UNCHANGED <<lv_status, started, iodonelist, lock, req_list>>

(* One iteration of hd_schedule calls hd_regular for the head of pending_Q. *)
(* It errors off a request that avoids the only copy before it looks for a  *)
(* physical buffer; with one in hand it finds the partition being reduced,  *)
(* the disk missing or the block known to be bad, finishes with an error    *)
(* and gives the physical buffer back.                                      *)
Refuse ==
  /\ lock = "schedule" /\ pending_Q # <<>>
  /\ hd_terminate(Head(pending_Q), Tail(pending_Q))
  /\ UNCHANGED <<lv_status, hd_freebuf, started, iodonelist, lock, req_list>>

(* hd_regular takes a physical buffer and begins the transfer.              *)
Begin ==
  /\ lock = "schedule" /\ pending_Q # <<>> /\ hd_freebuf > 0
  /\ hd_freebuf' = hd_freebuf - 1
  /\ started' = started \cup {Head(pending_Q)}
  /\ pending_Q' = Tail(pending_Q)
  /\ UNCHANGED <<lv_status, VG_FORCEDOFF, qvars, iodonelist, lock, req_list, quiet>>

(* The end of hd_schedule: nothing is pending, or hd_regular found no       *)
(* physical buffer and its request is back at the head of the pending_Q.    *)
Scheduled ==
  /\ lock = "schedule" /\ (pending_Q = <<>> \/ hd_freebuf = 0)
  /\ lock' = "free"
  /\ UNCHANGED <<lv_status, VG_FORCEDOFF, qvars, pending_Q, hd_freebuf,
                 started, iodonelist, req_list, quiet>>
-----------------------------------------------------------------------------
OnIodonelist(b) == \E c \in Cpu : b \in Range(iodonelist[c])

(* A disk driver hands a finished buffer to iodone() on processor c.        *)
iodone(c, b) ==
  /\ ~OnIodonelist(b)
  /\ b \in started \cup {Other}
  /\ iodonelist' = [iodonelist EXCEPT ![c] = Append(@, b)]
  /\ UNCHANGED <<lv_status, VG_FORCEDOFF, qvars, pending_Q, hd_freebuf,
                 started, lock, req_list, quiet>>

(* Mutant: whatever is behind the buffer sets the flag.                     *)
B_MORE_DONE_Any(c) == Tail(iodonelist[c]) # <<>>

(* NEXT_FROM_IODONELIST: B_MORE_DONE is set on the oldest buffer of a list  *)
(* if a buffer with the same iodone routine is behind it.                   *)
B_MORE_DONE(c) == Range(Tail(iodonelist[c])) \cap Req # {}

(* iodone_offl on processor c runs the iodone routine of the oldest buffer. *)
(* That of a physical buffer is hd_end: with the lock, hd_finished frees    *)
(* the physical buffer and terminates the request, and hd_schedule follows  *)
(* unless more of them are to come.                                         *)
hd_end(c) ==
  /\ iodonelist[c] # <<>> /\ Head(iodonelist[c]) \in Req
  /\ lock = "free"
  /\ LET r == Head(iodonelist[c]) IN
     /\ started' = started \ {r}
     /\ hd_freebuf' = hd_freebuf + 1
     /\ hd_terminate(r, pending_Q)
  /\ lock' = IF B_MORE_DONE(c) THEN "free" ELSE "schedule"
  /\ iodonelist' = [iodonelist EXCEPT ![c] = Tail(@)]
  /\ UNCHANGED <<lv_status, req_list>>

OtherDone(c) ==
  /\ iodonelist[c] # <<>> /\ Head(iodonelist[c]) = Other
  /\ iodonelist' = [iodonelist EXCEPT ![c] = Tail(@)]
  /\ UNCHANGED <<lv_status, VG_FORCEDOFF, qvars, pending_Q, hd_freebuf,
                 started, lock, req_list, quiet>>

(* The volume group loses its quorum (hd_sa_qrmchk), at any moment.         *)
ForceOff ==
  /\ ~VG_FORCEDOFF /\ VG_FORCEDOFF' = TRUE
  /\ UNCHANGED <<lv_status, qvars, pending_Q, hd_freebuf, started,
                 iodonelist, lock, req_list, quiet>>
-----------------------------------------------------------------------------
(* hd_open: vg_lock keeps out every other open, close and configuration.    *)
hd_open(l) ==
  /\ quiet = Idle /\ ~VG_FORCEDOFF /\ lv_status[l] = "LV_CLOSED"
  /\ lv_status' = [lv_status EXCEPT ![l] = "LV_OPEN"]
  /\ UNCHANGED <<VG_FORCEDOFF, qvars, pending_Q, hd_freebuf, started,
                 iodonelist, lock, req_list, quiet>>

(* hd_close closes the volume to new requests and goes to wait in hd_quiet. *)
hd_close(l) ==
  /\ quiet = Idle /\ lv_status[l] = "LV_OPEN"
  /\ lv_status' = [lv_status EXCEPT ![l] = "LV_CLOSING"]
  /\ quiet' = [pc |-> "enter", op |-> "close", lv |-> l]
  /\ UNCHANGED <<VG_FORCEDOFF, qvars, pending_Q, hd_freebuf, started,
                 iodonelist, lock, req_list>>

(* hd_sa_config drains an open volume before it reduces it.                 *)
Drain(l) ==
  /\ quiet = Idle /\ lv_status[l] = "LV_OPEN"
  /\ quiet' = [pc |-> "enter", op |-> "drain", lv |-> l]
  /\ UNCHANGED <<lv_status, VG_FORCEDOFF, qvars, pending_Q, hd_freebuf,
                 started, iodonelist, lock, req_list>>

(* The return of hd_quiet, and for hd_close the rest of the close.          *)
Quieted ==
  /\ quiet' = Idle
  /\ lv_status' = IF quiet.op = "close"
                  THEN [lv_status EXCEPT ![quiet.lv] = "LV_CLOSED"] ELSE lv_status

(* Mutant: the blocked requests are marked but not counted.                 *)
hd_quiet_Uncounted ==
  /\ quiet.pc = "enter" /\ lock = "free" /\ complcnt[quiet.lv] = 0
  /\ LET busy == {r \in work_Q : lbuf[r].dev = quiet.lv} IN
     /\ inflight' = inflight \cup busy
     /\ complcnt' = [complcnt EXCEPT ![quiet.lv] =
                       Cardinality({r \in busy : ~Blocked(r)})]
     /\ IF busy = {} THEN Quieted
        ELSE quiet' = [quiet EXCEPT !.pc = "asleep"] /\ UNCHANGED lv_status
  /\ UNCHANGED <<VG_FORCEDOFF, lbuf, work_Q, older, b_error, pending_Q,
                 hd_freebuf, started, iodonelist, lock, req_list>>

(* hd_quiet: when nobody's requests are counted, mark and count those in    *)
(* progress, and sleep if there are any.                                    *)
hd_quiet ==
  /\ quiet.pc = "enter" /\ lock = "free" /\ complcnt[quiet.lv] = 0
  /\ LET busy == {r \in work_Q : lbuf[r].dev = quiet.lv} IN
     /\ inflight' = inflight \cup busy
     /\ complcnt' = [complcnt EXCEPT ![quiet.lv] = Cardinality(busy)]
     /\ IF busy = {} THEN Quieted
        ELSE quiet' = [quiet EXCEPT !.pc = "asleep"] /\ UNCHANGED lv_status
  /\ UNCHANGED <<VG_FORCEDOFF, lbuf, work_Q, older, b_error, pending_Q,
                 hd_freebuf, started, iodonelist, lock, req_list>>

(* Woken up, hd_quiet looks at complcnt again.                              *)
QuietWakes ==
  /\ quiet.pc = "awake" /\ lock = "free"
  /\ IF complcnt[quiet.lv] = 0 THEN Quieted
     ELSE quiet' = [quiet EXCEPT !.pc = "asleep"] /\ UNCHANGED lv_status
  /\ UNCHANGED <<VG_FORCEDOFF, qvars, pending_Q, hd_freebuf, started,
                 iodonelist, lock, req_list>>
-----------------------------------------------------------------------------
(* Lists of distinct requests.                                              *)
ReqLists == {s \in UNION {[1..n -> Req] : n \in 1..MaxList} : IsInjective(s)}

Strategy == \E list \in ReqLists : \E ext \in [Range(list) -> Extent] :
              hd_strategy(list, ext)
Schedule == Refuse \/ Begin \/ Scheduled
Offlevel(c) == hd_end(c) \/ OtherDone(c)
Config == \E l \in Lv : hd_open(l) \/ hd_close(l) \/ Drain(l)
Quiet == hd_quiet \/ QuietWakes

Next ==
  \/ Strategy \/ hd_initiate \/ Initiated \/ Schedule
  \/ \E c \in Cpu : Offlevel(c) \/ \E b \in Req \cup {Other} : iodone(c, b)
  \/ ForceOff \/ Config \/ Quiet

(* The lock holder and the disks go on; a processor or process that waits   *)
(* for the lock gets it some time; sleepers that are woken run.             *)
Fairness ==
  /\ WF_vars(hd_initiate) /\ WF_vars(Initiated) /\ WF_vars(Schedule)
  /\ \A r \in Req : WF_vars(\E c \in Cpu : iodone(c, r))
  /\ \A c \in Cpu : SF_vars(Offlevel(c))
  /\ SF_vars(Quiet)

Spec == Init /\ [][Next]_vars
FairSpec == Spec /\ Fairness
-----------------------------------------------------------------------------
(* Every variable stays within the values the code can give it.             *)
TypeOK ==
  /\ lv_status \in [Lv -> {"LV_CLOSED", "LV_OPEN", "LV_CLOSING"}]
  /\ VG_FORCEDOFF \in BOOLEAN
  /\ lbuf \in [Req -> Extent \cup {NULL}]
  /\ work_Q \in SUBSET Req
  /\ older \in [Req -> SUBSET Req]
  /\ b_error \in [Req -> {"none", "ELBBLOCKED"}]
  /\ inflight \in SUBSET Req
  /\ complcnt \in [Lv -> Nat]
  /\ pending_Q \in Seq(Req)
  /\ hd_freebuf \in 0..NPbuf
  /\ started \in SUBSET Req
  /\ iodonelist \in [Cpu -> Seq(Req \cup {Other})]
  /\ lock \in {"free", "initiate", "schedule"}
  /\ req_list \in Seq(Req)
  /\ quiet \in QuietState

(* Two requests work on a common page of a volume.                          *)
SameData(p, q) == /\ lbuf[p].dev = lbuf[q].dev /\ lbuf[p].trk = lbuf[q].trk
                  /\ lbuf[p].work \cap lbuf[q].work # {}

Holding(r) == r \in started \cup Range(pending_Q)

(* Enforce serial access to data: no two requests for a common page are     *)
(* with the scheduler or the disks at once, whatever else completed, was    *)
(* refused or was unblocked before (serialize_data_access, hd_unblock).     *)
SerialAccess ==
  \A p, q \in Req : p # q /\ Holding(p) /\ Holding(q) => ~SameData(p, q)

(* Arrival order: a request is blocked exactly while an older request of    *)
(* the volume for one of its pages is outstanding.  It is neither let past  *)
(* the older one nor forgotten by hd_terminate when the last one is gone.   *)
BlockedByOlder ==
  \A q \in work_Q : Blocked(q) <=> \E p \in older[q] : SameData(p, q)

(* A request the driver holds is on exactly one of: the list being          *)
(* initiated, the blocked part of a chain, the pending_Q (once), a disk;    *)
(* a buffer that went back to its owner is on none of them.                 *)
OnePlace ==
  /\ {r \in Req : lbuf[r] # NULL} = work_Q \cup Range(req_list)
  /\ lock = "initiate" \/ req_list = <<>>
  /\ IsInjective(req_list) /\ Range(req_list) \cap work_Q = {}
  /\ IsInjective(pending_Q) /\ Range(pending_Q) \cap started = {}
  /\ {r \in work_Q : ~Blocked(r)} = Range(pending_Q) \cup started
  /\ started \subseteq work_Q /\ Range(pending_Q) \subseteq work_Q

(* lvol.complcnt counts the requests of the volume marked B_INFLIGHT, also  *)
(* when hd_terminate unlinks marked requests it refuses.                    *)
ComplcntCounts ==
  /\ inflight \subseteq work_Q
  /\ \A l \in Lv : complcnt[l] = Cardinality({r \in inflight : lbuf[r].dev = l})

(* hd_close frees work_Q after hd_quiet: no request is linked on it then,   *)
(* although requests kept coming until the volume was marked LV_CLOSING.    *)
ClosedIsQuiet ==
  \A r \in work_Q : lv_status[lbuf[r].dev] # "LV_CLOSED"

(* Every physical buffer is free or with a disk.                            *)
PbufsAccounted == hd_freebuf + Cardinality(started) = NPbuf

(* Nothing pending is forgotten: when nobody holds the lock, either no      *)
(* physical buffer is left, or some processor has yet to run an hd_end that *)
(* ends in hd_schedule, although hd_end skips it under B_MORE_DONE.         *)
Redriven ==
  lock = "free" /\ pending_Q # <<>> =>
    hd_freebuf = 0 \/ \E c \in Cpu : Range(iodonelist[c]) \cap Req # {}

(* hd_quiet does not return before the requests it marked are all done.     *)
QuietIsQuiet ==
  [][quiet # Idle /\ quiet' = Idle =>
       \A r \in work_Q' : lbuf'[r].dev = quiet.lv => r \notin inflight']_vars

(* The parts of the inductive invariant that are not properties themselves. *)
(* A chain is a strict order of the requests that hash to it.               *)
Chains ==
  /\ \A q \in Req \ work_Q : older[q] = {}
  /\ \A q \in work_Q : older[q] \subseteq Chain(q) \ {q}
  /\ \A q \in work_Q : \A p \in older[q] : older[p] \subseteq older[q]
  /\ \A q \in work_Q : \A p \in Chain(q) :
       p = q \/ p \in older[q] \/ q \in older[p]

(* A finished buffer is handed back once.                                   *)
FinishedOnce ==
  /\ \A c \in Cpu : IsInjective(iodonelist[c])
  /\ \A c \in Cpu : Range(iodonelist[c]) \cap Req \subseteq started
  /\ \A c, d \in Cpu : c # d => Range(iodonelist[c]) \cap Range(iodonelist[d]) = {}

(* A volume is LV_CLOSING while hd_close waits, and once hd_quiet has       *)
(* marked its requests no other one comes.                                  *)
Closing ==
  /\ \A l \in Lv : lv_status[l] = "LV_CLOSING"
                     <=> quiet # Idle /\ quiet.op = "close" /\ quiet.lv = l
  /\ quiet.pc \in {"asleep", "awake"} /\ quiet.op = "close" =>
       \A r \in work_Q : lbuf[r].dev = quiet.lv => r \in inflight

IInv ==
  /\ TypeOK /\ Chains /\ BlockedByOlder /\ OnePlace /\ FinishedOnce
  /\ ComplcntCounts /\ PbufsAccounted /\ Closing /\ ClosedIsQuiet /\ Redriven

(* Every request given to hd_strategy is returned to its owner.             *)
EveryRequestReturns == \A r \in Req : lbuf[r] # NULL ~> lbuf[r] = NULL

-----------------------------------------------------------------------------
(* The promise to the users of the volumes, with the 4K page as the unit of *)
(* data: requests for a page are served one at a time in arrival order.     *)
DataOf(r) == IF r \in work_Q THEN {lbuf[r].dev} \X {lbuf[r].trk} \X lbuf[r].work
                             ELSE {}

Promise == INSTANCE LvSerial WITH
  Data <- Lv \X Trk \X Page,
  out <- work_Q,
  touches <- [r \in Req |-> DataOf(r)],
  ahead <- [r \in Req |-> {p \in older[r] : SameData(p, r)}],
  busy <- started,
  off <- VG_FORCEDOFF

(* hd_strategy, hd_schedule and hd_end implement the promise.               *)
ServesInOrder == Promise!Spec
=============================================================================
