------------------------------- MODULE HdVgsa -------------------------------
(***************************************************************************)
(* The volume group status area (VGSA) wheel of the logical volume device   *)
(* driver: src/bos/kernext/lvm/hd_vgsa.c.                                   *)
(*                                                                         *)
(* The VGSA says which physical volumes (PVs) are missing and which         *)
(* physical partitions are stale.  One image is kept in memory and up to    *)
(* two copies (SAs) on every PV.  A request for a change waits on           *)
(* sa_hld_lst; hd_sa_cont() moves it to sa_act_lst, changes the memory      *)
(* image, and writes the SAs one after the other, as a wheel.  A request    *)
(* is returned when the wheel is back where it was when the request became  *)
(* active, and the wheel stops when the next SA has the newest image.  A    *)
(* configuration process takes the wheel over, changes the image itself,    *)
(* and rolls it for one revolution.                                         *)
(*                                                                         *)
(* The handlers of I/O completion hold glb_sched_intlock, and so does the   *)
(* configuration process while it is not asleep.  hd_sa_iodone() holds the  *)
(* sa_intlock only: on a multiprocessor it runs beside both.                *)
(***************************************************************************)
EXTENDS Integers, Sequences, FiniteSets, FiniteSetsExt, Functions, SequencesExt

CONSTANTS
  MAXPVS,       \* slots of volgrp.pvols
  Req,          \* physical buffers of the I/O requests
  Cfg,          \* the physical buffer of the configuration process
  Lp,           \* mirrored logical partitions
  Mirror,       \* their copies
  SEQNUMS,      \* values of whl_seq_num, 2^16 in the driver
  Quorums,      \* values of quorum_cnt
  InitPv,       \* PVs of the volume group at the start
  InitSa,       \* SAs with a logical sector number at the start
  FailingPv,    \* PVs an SA write to which may fail
  IoTypes,      \* types of the requests of the I/O handlers
  ConfigOps,    \* requests of the configuration process
  MP,           \* hd_sa_iodone() may run beside a holder of glb_sched_intlock
  FastResync,   \* a partition may be resynchronised within one revolution
  NULL

Pv == 0..MAXPVS - 1
NSa == 2 * MAXPVS
Sa == 0..NSa - 1
Pp == Lp \X Mirror
Pbuf == Req \cup {Cfg}
PvOf(s) == s \div 2
SasOf(p) == {2 * p, 2 * p + 1}

ASSUME SizeAssumption == MAXPVS \in Nat \ {0} /\ SEQNUMS \in Nat /\ SEQNUMS > NSa + 2
ASSUME InitAssumption == /\ InitPv \subseteq Pv /\ FailingPv \subseteq Pv
                         /\ InitSa \subseteq {s \in Sa : PvOf(s) \in InitPv}
ASSUME QuorumAssumption == Quorums # {} /\ Quorums \subseteq Nat \ {0}
ASSUME PbufAssumption == Cfg \notin Req /\ NULL \notin Sa
ASSUME FlagAssumption == {MP, FastResync} \subseteq BOOLEAN

VARIABLES
  vg,     \* struct volgrp
  disk,   \* the image each SA holds on its disk
  pb,     \* what each physical buffer on the wheel asks for, else NULL
  ppstate,\* part.ppstate of each physical partition
  config  \* the process in hd_sa_config

vars == <<vg, disk, pb, ppstate, config>>

Image == [pvmissing: SUBSET Pv, stalepp: SUBSET Pp, extpp: BOOLEAN]
Request == [type: {"SA_PVMISSING"}, pv: Pv]
             \cup [type: {"SA_PVREMOVED"}, pv: Pv, b_work: Quorums]
             \cup [type: {"SA_STALEPP", "SA_FRESHPP"}, lp: Lp, mir: SUBSET Mirror]
             \cup [type: {"SA_CONFIGOP"}]
ASSUME NullAssumption == NULL \notin Request /\ NULL \notin Image

(* The pc of a configuration process that holds glb_sched_intlock, and all. *)
HoldsLock == {"gosleep", "control", "started", "gosleep2"}
ConfigPc == HoldsLock \cup {"idle", "waiting", "woken", "waiting2", "woken2"}

Idle == [pc |-> "idle", op |-> "none", pv |-> 0, sas |-> {}, qrm |-> 0,
         again |-> FALSE, rtn |-> "none"]

Init ==
  LET clean == [pvmissing |-> {}, stalepp |-> {}, extpp |-> FALSE] IN
  /\ \E q \in Quorums :
       vg = [whl |-> "stopped", forcedoff |-> FALSE, wheel_idx |-> 0,
             whl_seq_num |-> 0, hld |-> <<>>, act |-> <<>>,
             stop |-> [r \in Pbuf |-> 0], vgsa |-> clean,
             quorum_cnt |-> q, sa_lbuf |-> NULL,
             pvstate |-> [p \in Pv |-> IF p \in InitPv THEN "PV_DEFINED"
                                                       ELSE "NULL"],
             lsn |-> InitSa, nukesa |-> {}, seq |-> [s \in Sa |-> 0]]
  /\ disk = [s \in Sa |-> clean]
  /\ pb = [r \in Pbuf |-> NULL]
  /\ ppstate = [p \in Pp |-> {}]
  /\ config = Idle
-----------------------------------------------------------------------------
(* The functions of the wheel change a working copy of the volume group.    *)
(* ok and err collect the requests they return, fresh the ones they make    *)
(* active, and woken says that the waiting configuration process is woken.  *)
Work(g, q) == [vg |-> g, pb |-> q, ok |-> {}, err |-> {}, fresh |-> {},
               updated |-> FALSE, woken |-> FALSE]

Listed(g) == Range(g.hld) \cup UNION {Range(l) : l \in Range(g.act)}

(* The SAs that are on a PV that is there. *)
Active(g) == {s \in g.lsn : g.pvstate[PvOf(s)] = "PV_DEFINED"}

(* Mutant: the number stays the same.                                       *)
hd_sa_update_NoBump(w) == [w EXCEPT !.updated = TRUE]

(* Mutant: the number is wider than its field.                              *)
hd_sa_update_NoWrap(w) ==
  IF w.updated THEN w ELSE [w EXCEPT !.updated = TRUE, !.vg.whl_seq_num = @ + 1]

(* hd_sa_update: a new timestamp and sequence number, once per call. *)
hd_sa_update(w) ==
  IF w.updated THEN w
  ELSE [w EXCEPT !.updated = TRUE,
                 !.vg.whl_seq_num = (@ + 1) % SEQNUMS]

(* hd_sa_qrmchk: the volume group is forced off when too few SAs remain;    *)
(* VG_NOQUORUM, which lets it go on down to the last SA, is quorum_cnt = 1. *)
hd_sa_qrmchk(w) ==
  [w EXCEPT !.vg.forcedoff = @ \/ Cardinality(Active(w.vg)) < w.vg.quorum_cnt]

(* A PV is marked missing, in the pvol structure and in the memory image.   *)
SETSA_PVMISS(w, p) ==
  [w EXCEPT !.vg.pvstate[p] = IF @ = "NULL" THEN @ ELSE "PV_MISSING",
            !.vg.vgsa.pvmissing = @ \cup {p}]

Usable(g, s) == s \in Active(g) /\ s \notin g.nukesa

(* hd_sa_whladv: advance to the next usable SA, or all the way round.  The  *)
(* requests at the head of the active list are returned, with those on      *)
(* their av_back lists, as the SAs where they stop are passed, and an SA    *)
(* that is to be deleted is deleted.                                        *)
hd_sa_whladv(w) ==
  LET g == w.vg
      At(n) == (g.wheel_idx + n) % NSa
      found == {n \in 1..NSa : Usable(g, At(n))}
      last == IF found = {} THEN NSa ELSE Min(found)
      Passed(j) == CHOOSE n \in 1..NSa : At(n) = g.stop[g.act[j][1]]
      done == Max({k \in 0..Len(g.act) :
                     \A j \in 1..k : /\ Passed(j) <= last
                                     /\ j > 1 => Passed(j - 1) <= Passed(j)})
      nuked == {At(n) : n \in 1..last} \cap g.lsn \cap g.nukesa
  IN [w EXCEPT !.vg.wheel_idx = At(last),
               !.vg.act = SubSeq(@, done + 1, Len(@)),
               !.vg.lsn = @ \ nuked, !.vg.nukesa = @ \ nuked,
               !.ok = @ \cup UNION {Range(g.act[j]) : j \in 1..done}]

(* hd_sa_cont's scan of the active list: a request of the same type on the  *)
(* same PV, or one that marks at least the same partitions stale.           *)
Piggybacks(h, r) ==
  /\ h.type = r.type
  /\ \/ r.type \in {"SA_PVMISSING", "SA_PVREMOVED"} /\ h.pv = r.pv
     \/ r.type = "SA_STALEPP" /\ h.lp = r.lp /\ r.mir \subseteq h.mir

(* The change that a request makes to the memory image.                     *)
Apply(w, q) ==
  CASE q.type \in {"SA_PVMISSING", "SA_PVREMOVED"} ->
         LET m == SETSA_PVMISS(w, q.pv) IN
         hd_sa_qrmchk(IF q.type = "SA_PVREMOVED"
                      THEN [m EXCEPT !.vg.quorum_cnt = q.b_work] ELSE m)
    [] q.type = "SA_STALEPP" ->
         [w EXCEPT !.vg.vgsa.stalepp = @ \cup ({q.lp} \X q.mir)]
    [] q.type = "SA_FRESHPP" ->
         [w EXCEPT !.vg.vgsa.stalepp = @ \ ({q.lp} \X q.mir)]
    [] q.type = "SA_CONFIGOP" -> w

(* Mutant: a request that becomes active changes the image and no more.     *)
Activate_NoUpdate(w, r) ==
  Apply([w EXCEPT !.vg.act = Append(@, <<r>>), !.fresh = @ \cup {r}], w.pb[r])

(* A request leaves the hold list: it hangs on the av_back list of one that *)
(* stands for it, or becomes active and changes the memory image.           *)
Activate(w, r) ==
  LET act == w.vg.act
      like == {j \in DOMAIN act : Piggybacks(w.pb[act[j][1]], w.pb[r])}
  IN IF like # {}
     THEN [w EXCEPT !.vg.act[Min(like)] = Append(@, r)]
     ELSE Apply(hd_sa_update([w EXCEPT !.vg.act = Append(@, <<r>>),
                                       !.fresh = @ \cup {r}]),
                w.pb[r])

(* Everything on hold becomes active, in order.                             *)
MoveHeld(w) ==
  LET f[n \in 0..Len(w.vg.hld)] ==
        IF n = 0 THEN w ELSE Activate(f[n - 1], w.vg.hld[n])
  IN [f[Len(w.vg.hld)] EXCEPT !.vg.hld = <<>>]

(* The volume group is closing: all active requests return with an error.   *)
ReturnAll(w) ==
  [w EXCEPT !.vg.act = <<>>, !.vg.whl = "stopped",
            !.err = @ \cup UNION {Range(l) : l \in Range(w.vg.act)}]

(* hd_sa_wrt: start the write of the SA at wheel_idx, under the newest      *)
(* sequence number.                                                         *)
hd_sa_wrt(w) ==
  LET i == w.vg.wheel_idx IN
  [w EXCEPT !.vg.sa_lbuf = i, !.vg.seq[i] = w.vg.whl_seq_num]

(* Mutant: a new request is not told where to stop.                         *)
Roll_NoStop(w) ==
  LET a == IF w.vg.wheel_idx \in Active(w.vg) THEN w ELSE hd_sa_whladv(w)
      i == a.vg.wheel_idx
  IN IF a.vg.seq[i] = a.vg.whl_seq_num
     THEN [a EXCEPT !.vg.whl = "stopped"]
     ELSE hd_sa_wrt(a)

(* Leave the current SA if it cannot be written, note where the new         *)
(* requests are to stop, and write the SA unless it has the newest image.   *)
Roll(w) ==
  LET a == IF w.vg.wheel_idx \in Active(w.vg) THEN w ELSE hd_sa_whladv(w)
      i == a.vg.wheel_idx
      b == [a EXCEPT !.vg.stop = [r \in Pbuf |-> IF r \in w.fresh THEN i ELSE @[r]]]
  IN IF b.vg.seq[i] = b.vg.whl_seq_num
     THEN [b EXCEPT !.vg.whl = "stopped"]
     ELSE hd_sa_wrt(b)

(* Mutant: a closing volume group leaves the hold list alone.               *)
hd_sa_cont_LeavesHold(w) ==
  IF config.pc = "waiting"
  THEN [w EXCEPT !.vg.whl = "held", !.woken = TRUE]
  ELSE IF w.vg.forcedoff THEN ReturnAll(w) ELSE Roll(MoveHeld(w))

(* Mutant: the waiting process is not woken.                                *)
hd_sa_cont_NoWake(w) ==
  IF config.pc = "waiting"
  THEN [w EXCEPT !.vg.whl = "held"]
  ELSE LET m == MoveHeld(w) IN IF m.vg.forcedoff THEN ReturnAll(m) ELSE Roll(m)

(* hd_sa_cont: a waiting configuration process gets the wheel; otherwise    *)
(* the requests on hold become active and the wheel goes on.                *)
hd_sa_cont(w) ==
  IF config.pc = "waiting"
  THEN [w EXCEPT !.vg.whl = "held", !.woken = TRUE]
  ELSE LET m == MoveHeld(w) IN IF m.vg.forcedoff THEN ReturnAll(m) ELSE Roll(m)

(* hd_sa_strt: put a request on hold, and start the wheel if it is stopped. *)
hd_sa_strt(w, list) ==
  LET h == [w EXCEPT !.vg.hld = @ \o list,
                     !.vg.stop = [r \in Pbuf |-> IF r \in Range(list) THEN 0
                                                                     ELSE @[r]]]
  IN IF h.vg.whl = "stopped"
     THEN hd_sa_cont([h EXCEPT !.vg.whl = "active"])
     ELSE h
-----------------------------------------------------------------------------
(* hd_sa_rtn: the requests on the lists that an action empties are done.    *)
(* hd_staleppe() clears PP_CHGING; the configuration process is woken if    *)
(* it sleeps already, else its request is just marked B_DONE.               *)
hd_sa_rtn(w, parts, cfg) ==
  LET done == w.ok \cup w.err
      settled == UNION {{w.pb[r].lp} \X w.pb[r].mir :
                        r \in {q \in done : w.pb[q].type = "SA_STALEPP"}}
  IN /\ vg' = [w.vg EXCEPT !.stop = [r \in Pbuf |-> IF r \in done THEN 0 ELSE @[r]]]
     /\ pb' = [r \in Pbuf |-> IF r \in done THEN NULL ELSE w.pb[r]]
     /\ ppstate' = [p \in Pp |-> IF p \in settled THEN parts[p] \ {"PP_CHGING"}
                                                 ELSE parts[p]]
     /\ config' = [cfg EXCEPT
          !.rtn = IF Cfg \in w.ok THEN "ok" ELSE IF Cfg \in w.err THEN "error" ELSE @,
          !.pc = IF w.woken THEN "woken"
                 ELSE IF Cfg \in done /\ @ = "waiting2" THEN "woken2" ELSE @]

LockFree == config.pc \notin HoldsLock
-----------------------------------------------------------------------------
(* An I/O handler gives request q to the wheel in buffer r, or hears that   *)
(* the volume group is closing, after it has changed parts and pvstate.     *)
Submit(r, q, parts, g) ==
  IF vg.forcedoff
  THEN /\ vg' = g /\ ppstate' = parts
       /\ UNCHANGED <<disk, pb, config>>
  ELSE /\ hd_sa_rtn(hd_sa_strt(Work(g, [pb EXCEPT ![r] = q]), <<r>>), parts, config)
       /\ UNCHANGED disk

Stale(p) == "PP_STALE" \in ppstate[p]
Changing(p) == "PP_CHGING" \in ppstate[p]

(* hd_stalepp: a write failed on the mirrors bad of lp, and one that is not *)
(* stale remains.  The ones recorded as stale already need no request.      *)
hd_stalepp(r, lp, bad) ==
  /\ "SA_STALEPP" \in IoTypes
  /\ LockFree /\ pb[r] = NULL
  /\ \E m \in Mirror \ bad : ~Stale(<<lp, m>>)
  /\ LET mirbad == {m \in bad : Stale(<<lp, m>>) => Changing(<<lp, m>>)} IN
     /\ mirbad # {}
     /\ Submit(r, [type |-> "SA_STALEPP", lp |-> lp, mir |-> mirbad],
               [p \in Pp |-> IF p \in {lp} \X mirbad THEN {"PP_STALE", "PP_CHGING"}
                                                    ELSE ppstate[p]],
               vg)

(* A request that marks the copy stale has not been returned yet.           *)
Marking(lp, m) ==
  \E r \in Pbuf : /\ pb[r] # NULL /\ pb[r].type = "SA_STALEPP"
                  /\ pb[r].lp = lp /\ m \in pb[r].mir

(* hd_freshpp: the mirrors done of lp have been resynchronised.  A write    *)
(* that fails meanwhile sets PP_SYNCERR, and its copy is not among them; a  *)
(* failure from before has been recorded, unless the resynchronisation is   *)
(* over within a revolution.                                                *)
hd_freshpp(r, lp, done) ==
  /\ "SA_FRESHPP" \in IoTypes
  /\ LockFree /\ pb[r] = NULL
  /\ \A m \in done : /\ Stale(<<lp, m>>)
                     /\ Marking(lp, m) => FastResync
  /\ Submit(r, [type |-> "SA_FRESHPP", lp |-> lp, mir |-> done],
            [p \in Pp |-> IF p \in {lp} \X done THEN ppstate[p] \ {"PP_STALE"}
                                               ELSE ppstate[p]],
            vg)

(* hd_ca_wend: a write of the mirror write consistency cache failed.        *)
hd_ca_wend(r, p) ==
  /\ "SA_PVMISSING" \in IoTypes
  /\ LockFree /\ pb[r] = NULL
  /\ vg.pvstate[p] # "NULL"
  /\ Submit(r, [type |-> "SA_PVMISSING", pv |-> p], ppstate,
            [vg EXCEPT !.pvstate[p] = "PV_MISSING"])

(* hd_sa_iodone: the SA write under way has ended.  An error makes the PV   *)
(* missing; either way the wheel advances and goes on.                      *)
hd_sa_iodone(error) ==
  /\ vg.sa_lbuf # NULL
  /\ MP \/ LockFree
  /\ error => PvOf(vg.sa_lbuf) \in FailingPv
  /\ LET s == vg.sa_lbuf
         w == Work([vg EXCEPT !.sa_lbuf = NULL], pb)
         e == IF error
              THEN hd_sa_update(hd_sa_qrmchk(SETSA_PVMISS(w, PvOf(s))))
              ELSE w
     IN /\ hd_sa_rtn(hd_sa_cont(hd_sa_whladv(e)), ppstate, config)
        /\ disk' = IF error THEN disk ELSE [disk EXCEPT ![s] = vg.vgsa]
-----------------------------------------------------------------------------
(* The process goes on with its pc changed, or leaves hd_sa_config.         *)
Goto(p) == config' = [config EXCEPT !.pc = p] /\ UNCHANGED <<vg, disk, pb, ppstate>>
Leave == config' = Idle /\ UNCHANGED <<vg, disk, pb, ppstate>>

Begins(op, p, sas, q) == [Idle EXCEPT !.op = op, !.pv = p, !.sas = sas, !.qrm = q]

(* Mutant: the process does not look whether the wheel rolls.               *)
GetControl_Now == "control"

(* Phase 1: sleep until the wheel is ours, if it is rolling.                *)
GetControl == IF vg.whl = "active" THEN "gosleep" ELSE "control"

(* hd_sa_config, HD_KMISSPV and HD_KREMPV: an ordinary request, no control. *)
ConfigMissing(op, p, q) ==
  /\ op \in {"HD_KMISSPV", "HD_KREMPV"}
  /\ vg.pvstate[p] # "NULL"
  /\ LET req == IF op = "HD_KREMPV"
                THEN [type |-> "SA_PVREMOVED", pv |-> p, b_work |-> q]
                ELSE [type |-> "SA_PVMISSING", pv |-> p]
         w == Work(vg, [pb EXCEPT ![Cfg] = req])
     IN hd_sa_rtn(hd_sa_strt(w, <<Cfg>>), ppstate,
                  [Begins(op, p, {}, q) EXCEPT !.pc = "started"])
  /\ UNCHANGED disk

(* New SAs hold nothing yet. *)
Blank(sas) == [s \in Sa |-> IF s \in sas THEN NULL ELSE disk[s]]

(* HD_KADDPV: the pvol structure is entered at once, or copied over that of *)
(* a missing PV.  The caller has zeroed its sa_seq_num.                     *)
ConfigAddPv(op, p, sas, q) ==
  /\ op \in {"HD_KADDPV", "HD_KADDPV_again"}
  /\ vg.pvstate[p] = IF op = "HD_KADDPV" THEN "NULL" ELSE "PV_MISSING"
  /\ vg' = [vg EXCEPT !.pvstate[p] = "PV_DEFINED",
                      !.lsn = (@ \ SasOf(p)) \cup sas,
                      !.nukesa = @ \ SasOf(p),
                      !.seq = [s \in Sa |-> IF s \in SasOf(p) THEN 0 ELSE @[s]]]
  /\ disk' = IF op = "HD_KADDPV" THEN Blank(sas) ELSE disk
  /\ config' = [Begins(op, p, sas, q) EXCEPT !.pc = GetControl,
                                             !.again = op = "HD_KADDPV_again"]
  /\ UNCHANGED <<pb, ppstate>>

(* HD_KADDVGSA: the new SAs get their sector numbers before control.        *)
(* liblvm gives a PV the second SA that it does not have.                   *)
ConfigAddVgsa(op, p, sas, q) ==
  /\ op = "HD_KADDVGSA"
  /\ vg.pvstate[p] # "NULL" /\ sas # {} /\ sas \cap vg.lsn = {}
  /\ disk' = Blank(sas)
  /\ vg' = [vg EXCEPT !.quorum_cnt = q, !.lsn = @ \cup sas,
                      !.seq = [s \in Sa |-> IF s \in sas
                                            THEN (vg.whl_seq_num - 1) % SEQNUMS
                                            ELSE @[s]]]
  /\ config' = [Begins(op, p, sas, q) EXCEPT !.pc = GetControl]
  /\ UNCHANGED <<pb, ppstate>>

(* HD_KDELVGSA: needs the wheel only if it is rolling.  liblvm keeps an SA. *)
ConfigDelVgsa(op, p, sas, q) ==
  /\ op = "HD_KDELVGSA"
  /\ vg.pvstate[p] # "NULL" /\ sas # {} /\ Active(vg) \ sas # {}
  /\ IF vg.whl = "active"
     THEN /\ vg' = [vg EXCEPT !.quorum_cnt = q]
          /\ config' = [Begins(op, p, sas, q) EXCEPT !.pc = "gosleep"]
     ELSE /\ vg' = [vg EXCEPT !.quorum_cnt = q, !.lsn = @ \ sas]
          /\ UNCHANGED config
  /\ UNCHANGED <<disk, pb, ppstate>>

(* HD_KDELPV: the slot is emptied at once.  liblvm keeps an SA elsewhere.   *)
ConfigDelPv(op, p, q) ==
  /\ op = "HD_KDELPV"
  /\ vg.pvstate[p] # "NULL" /\ Active(vg) \ SasOf(p) # {}
  /\ vg' = [vg EXCEPT !.quorum_cnt = q, !.pvstate[p] = "NULL",
                      !.lsn = @ \ SasOf(p), !.nukesa = @ \ SasOf(p)]
  /\ UNCHANGED <<disk, pb, ppstate, config>>

(* HD_KEXTEND, HD_KREDUCE and HD_MWC_REC start with taking control.         *)
ConfigImage(op) ==
  /\ op \in {"HD_KEXTEND", "HD_KREDUCE", "HD_MWC_REC"}
  /\ config' = [Begins(op, 0, {}, vg.quorum_cnt) EXCEPT !.pc = GetControl]
  /\ UNCHANGED <<vg, disk, pb, ppstate>>

(* hd_sa_config: the process takes the lock, unless the VG is closing.  (It *)
(* looks just before it takes it: when the VG is forced off in between, the *)
(* request changes slots of a VG that is closing, and goes no further.)     *)
hd_sa_config ==
  /\ config.pc = "idle" /\ ~vg.forcedoff
  /\ \E op \in ConfigOps, p \in Pv, q \in Quorums :
       \/ ConfigMissing(op, p, q)
       \/ ConfigDelPv(op, p, q)
       \/ ConfigImage(op)
       \/ \E sas \in SUBSET SasOf(p) : \/ ConfigAddPv(op, p, sas, q)
                                       \/ ConfigAddVgsa(op, p, sas, q)
                                       \/ ConfigDelVgsa(op, p, sas, q)

(* e_sleep_thread on config_wait, which drops the lock.                     *)
SleepForControl == config.pc = "gosleep" /\ Goto("waiting")

(* The woken process has the lock again: the wheel is its own.              *)
TakeControl == config.pc = "woken" /\ Goto("control")

(* hd_sa_onerev: roll the wheel from g for one revolution.                  *)
hd_sa_onerev(g) ==
  LET w == Work([g EXCEPT !.whl = IF @ = "held" THEN "stopped" ELSE @],
                [pb EXCEPT ![Cfg] = [type |-> "SA_CONFIGOP"]])
  IN /\ hd_sa_rtn(hd_sa_strt(w, <<Cfg>>), ppstate,
                  [config EXCEPT !.pc = "started"])
     /\ UNCHANGED disk

(* Mutant: the hold is released and the wheel is not restarted.             *)
RestartAndLeave_Forgets ==
  /\ vg' = [vg EXCEPT !.whl = IF @ = "held" THEN "stopped" ELSE @]
  /\ config' = Idle
  /\ UNCHANGED <<disk, pb, ppstate>>

(* hd_sa_strt with no request: restart the wheel after taking it in vain.   *)
RestartAndLeave ==
  IF vg.whl = "held"
  THEN /\ hd_sa_rtn(hd_sa_strt(Work([vg EXCEPT !.whl = "stopped"], pb), <<>>),
                    ppstate, Idle)
       /\ UNCHANGED disk
  ELSE Leave

(* Phase 2: the process changes the memory image or the SAs, and rolls the  *)
(* wheel.  rollwheel is not initialised for HD_KEXTEND: without a change it *)
(* may roll or not.  HD_KREDUCE may mark partitions stale or find them      *)
(* changing already, have nothing to do, or find its arguments invalid.     *)
WithControl ==
  /\ config.pc = "control"
  /\ IF vg.forcedoff THEN Leave
     ELSE CASE config.op \in {"HD_KADDPV", "HD_KADDPV_again"} ->
                 hd_sa_onerev([vg EXCEPT
                   !.quorum_cnt = config.qrm,
                   !.vgsa.pvmissing = @ \ {config.pv},
                   !.seq = [s \in Sa |-> IF s \in config.sas /\ ~config.again
                                         THEN (vg.whl_seq_num - 1) % SEQNUMS
                                         ELSE @[s]]])
            [] config.op \in {"HD_KADDVGSA", "HD_MWC_REC"} -> hd_sa_onerev(vg)
            [] config.op = "HD_KDELVGSA" ->
                 hd_sa_onerev([vg EXCEPT !.nukesa = @ \cup config.sas])
            [] config.op = "HD_KEXTEND" ->
                 \/ \E e \in BOOLEAN : hd_sa_onerev([vg EXCEPT !.vgsa.extpp = e])
                 \/ Leave
            [] config.op = "HD_KREDUCE" ->
                 \/ \E e \in {vg.vgsa.extpp, TRUE} :
                      hd_sa_onerev([vg EXCEPT !.vgsa.extpp = e])
                 \/ RestartAndLeave
                 \/ Leave

(* The process leaves with its answer.  Its caller then takes the sector    *)
(* numbers from a PV that was removed or declared missing.                  *)
Return ==
  /\ vg' = IF config.op \in {"HD_KMISSPV", "HD_KREMPV"} /\ config.rtn = "ok"
           THEN [vg EXCEPT !.lsn = @ \ SasOf(config.pv)] ELSE vg
  /\ config' = Idle
  /\ UNCHANGED <<disk, pb, ppstate>>

(* Phase 3: the process looks at B_DONE and sleeps on b_event, or leaves.   *)
CheckDone ==
  /\ config.pc = "started"
  /\ IF config.rtn = "none" THEN Goto("gosleep2") ELSE Return

SleepForDone == config.pc = "gosleep2" /\ Goto("waiting2")

WakeDone == config.pc = "woken2" /\ Return
-----------------------------------------------------------------------------
IoRequest ==
  \E r \in Req :
    \/ \E lp \in Lp, m \in (SUBSET Mirror) \ {{}} : hd_stalepp(r, lp, m) \/ hd_freshpp(r, lp, m)
    \/ \E p \in Pv : hd_ca_wend(r, p)

ConfigStep == \/ SleepForControl \/ TakeControl \/ WithControl
              \/ CheckDone \/ SleepForDone \/ WakeDone

Next == IoRequest \/ (\E e \in BOOLEAN : hd_sa_iodone(e)) \/ hd_sa_config \/ ConfigStep

Spec == Init /\ [][Next]_vars

(* Disks answer, and a process that can run does: weak fairness of the two  *)
(* kinds of steps, with their enabling conditions written out.              *)
SaWriteMayEnd == vg.sa_lbuf # NULL /\ (MP \/ LockFree)
SaWriteEnds == \E e \in BOOLEAN : hd_sa_iodone(e)
ConfigMayRun == config.pc \notin {"idle", "waiting", "waiting2"}

Fairness == /\ []<>~SaWriteMayEnd \/ []<><<SaWriteEnds>>_vars
            /\ []<>~ConfigMayRun \/ []<><<ConfigStep>>_vars

FairSpec == Spec /\ Fairness
-----------------------------------------------------------------------------
(* The state keeps the shape of the driver's structures. *)
TypeOK ==
  /\ vg \in [whl: {"stopped", "active", "held"}, forcedoff: BOOLEAN,
             wheel_idx: Sa, whl_seq_num: 0..SEQNUMS - 1, hld: Seq(Pbuf),
             act: Seq(Seq(Pbuf)), stop: [Pbuf -> Sa], vgsa: Image,
             quorum_cnt: Quorums, sa_lbuf: Sa \cup {NULL},
             pvstate: [Pv -> {"NULL", "PV_DEFINED", "PV_MISSING"}],
             lsn: SUBSET Sa, nukesa: SUBSET Sa, seq: [Sa -> 0..SEQNUMS - 1]]
  /\ disk \in [Sa -> Image \cup {NULL}]
  /\ pb \in [Pbuf -> Request \cup {NULL}]
  /\ ppstate \in [Pp -> SUBSET {"PP_STALE", "PP_CHGING"}]
  /\ config \in [pc: ConfigPc, op: ConfigOps \cup {"none"}, pv: Pv,
                 sas: SUBSET Sa, qrm: Quorums \cup {0}, again: BOOLEAN,
                 rtn: {"none", "ok", "error"}]

(* The SAs a running configuration adds; it has not promised them yet. *)
Joining == IF /\ config.op \in {"HD_KADDPV", "HD_KADDPV_again", "HD_KADDVGSA"}
              /\ config.rtn # "ok"
           THEN config.sas ELSE {}

InService == (Active(vg) \ vg.nukesa) \ Joining

(* Whatever hd_stalepp() hands back as recorded is on every copy: a         *)
(* partition that is stale and no longer changing (hd_avoid() keeps reads   *)
(* and writes off it) is marked stale in each SA in service, so that a      *)
(* crash at this moment cannot bring back its old data.                     *)
StaleRecorded ==
  ~vg.forcedoff =>
    \A p \in Pp, s \in InService :
      Stale(p) /\ ~Changing(p) => disk[s] # NULL /\ p \in disk[s].stalepp

(* hd_sa_onerev() returns when the revolution is complete: once its buffer  *)
(* is done without error, the new allocation and the PV that was entered    *)
(* are on every SA in service, and on those that the process adds.  (Not so *)
(* a PV that is removed: that request may be returned by an older stop.)    *)
ConfigRecorded ==
  config.rtn = "ok" /\ ~vg.forcedoff =>
    \A s \in InService :
      /\ disk[s] # NULL
      /\ disk[s].extpp = vg.vgsa.extpp
      /\ config.op = "HD_KADDPV" /\ vg.pvstate[config.pv] = "PV_DEFINED" =>
           config.pv \notin disk[s].pvmissing

(* hd_sa_cont() stops the wheel when the next SA has the newest sequence    *)
(* number: then every SA in service holds the memory image.                 *)
StoppedIsCurrent ==
  vg.whl = "stopped" /\ ~vg.forcedoff /\ config.pc # "control" =>
    \A s \in InService : disk[s] = vg.vgsa

(* The sequence number stands for the image: an SA that was written under   *)
(* the newest whl_seq_num holds the memory image.                           *)
NewestIsCurrent ==
  ~vg.forcedoff =>
    \A s \in InService : 
      vg.seq[s] = vg.whl_seq_num /\ vg.sa_lbuf # s => disk[s] = vg.vgsa

(* "initialize the SA_SEQ_NUM to a value that will make sure the VGSA on    *)
(* this new PV will be written": when the revolution that hd_sa_onerev()    *)
(* started is over, the SAs of the PV that has been entered hold the image. *)
NewPvWritten ==
  /\ config.op \in {"HD_KADDPV", "HD_KADDPV_again"}
  /\ config.pc \in {"started", "gosleep2", "waiting2", "woken2"}
  /\ vg.whl = "stopped" /\ ~vg.forcedoff
  => \A s \in config.sas : s \in Active(vg) => disk[s] = vg.vgsa

(* The disk reads the memory image during the write (hd_sa_wrt() attaches   *)
(* it, nothing is copied): when the image changes that write has ended, and *)
(* left the old image on the disk, unless it failed and the disk is gone.   *)
ImageStable ==
  [][LET s == vg.sa_lbuf IN
     s # NULL /\ vg'.vgsa # vg.vgsa =>
       SaWriteEnds /\ (disk'[s] = vg.vgsa \/ s \notin Active(vg'))]_vars

(* SA_WHL_ACT is set exactly while an SA write is under way, and a wheel    *)
(* that has stopped has no request on either list: hd_sa_whladv() or        *)
(* hd_sa_cont() has returned them all.                                      *)
NobodyStranded ==
  /\ vg.whl = "active" <=> vg.sa_lbuf # NULL
  /\ vg.whl = "stopped" => Listed(vg) = {}

(* "If the VG is closing due to a loss of quorum then all active requests   *)
(* are returned with errors": none is left when the wheel has stopped.      *)
ForcedOffReturnsAll == vg.forcedoff /\ vg.sa_lbuf = NULL => Listed(vg) = {}

(* "if we sleep the calling process will hang": a process asleep on its     *)
(* buffer has not had its wake-up yet.                                      *)
NoLostWakeup == config.pc = "waiting2" => config.rtn = "none"

(* Every request given to the wheel comes back. *)
EveryRequestReturns == \A r \in Req : pb[r] # NULL ~> pb[r] = NULL

(* HD_KEXTEND and HD_KREDUCE may leave without releasing the wheel: it is   *)
(* on hold and no process has it or is to get it.                           *)
LeftHeld == vg.whl = "held" /\ config.pc \in {"idle", "started", "gosleep2", "waiting2"}

(* Every configuration request that hd_sa_config() accepts returns to its   *)
(* caller, whatever disks fail, unless the quorum is lost meanwhile or an   *)
(* earlier request has left the wheel on hold.                              *)
ConfigReturns == config.pc # "idle" ~> config.pc = "idle" \/ vg.forcedoff \/ LeftHeld
=============================================================================
