----------------------------- MODULE HdMirCach -----------------------------
(***************************************************************************)
(* The mirror write consistency (MWC) cache of one volume group             *)
(* (src/bos/kernext/lvm/hd_mircach.c), with the scheduler that feeds it     *)
(* (hd_schedule, hd_parallel), the clean-up at a close or CACLNUP, and what  *)
(* the cache is for: the recovery at the next varyon after a crash          *)
(* (hd_mwc_fprec, hd_disastrec, hd_kdis_initmwc; in liblvm lvm_vgsamwcc,     *)
(* lvm_update and lvm_mwcinfo).                                             *)
(*                                                                         *)
(* Before the copies of a track group are written, its number is on the MWC *)
(* record of every active disk that holds a copy.  One record is written to *)
(* all disks at a time; requests wait on the disks' ca_pv lists for the     *)
(* writes they need, or on ca_hld for the next round.  After a crash the    *)
(* newest record names the track groups whose copies may differ.            *)
(*                                                                         *)
(* Copies are stale by partition, and a partition may have several track    *)
(* groups.  glb_sched_intlock is held over the steps of hd_schedule.        *)
(***************************************************************************)
EXTENDS Integers, Sequences, FiniteSets, SequencesExt

CONSTANTS
  Req,          \* request buffers
  Tg,           \* logical track groups
  Pv,           \* physical volumes
  Lp,           \* logical partitions
  Part,         \* the partition of a track group
  Copies,       \* the disks of a partition's mirrors, in order
  ca_size,      \* entries of the cache
  NPvWait,      \* pv_wait structures
  NPbuf,        \* physical buffers
  Quorum,       \* disks without which the volume group is forced off
  MayFail,      \* disks that may fail
  MaxIssue,     \* bound: write requests made
  MaxClean,     \* bound: calls of hd_ca_clnup
  MaxCrash,     \* bound: crashes
  MaxReturn,    \* bound: missing disks that come back while the group is on
  NULL

ASSUME CopiesAssumption ==
  /\ Part \in [Tg -> Lp]
  /\ \A l \in Lp : Copies[l] \in Seq(Pv) /\ Copies[l] # <<>> /\ IsInjective(Copies[l])
ASSUME SizeAssumption ==
  /\ ca_size \in Nat \ {0} /\ NPvWait \in Nat /\ NPbuf \in Nat /\ Quorum \in Nat
  /\ 2 * Quorum > Cardinality(Pv)
  /\ IsFiniteSet(Req) /\ IsFiniteSet(Pv)
  /\ \A l \in Lp : NPvWait >= Len(Copies[l]) /\ NPbuf >= Len(Copies[l])

ASSUME ValueAssumption ==
  /\ MayFail \subseteq Pv
  /\ NULL \notin Tg \cup [bad : SUBSET Pv, marked : SUBSET Pv, err : BOOLEAN]

VARIABLES
  g,            \* the cache fields of struct volgrp, and the pending_Q
  writing,      \* what hd_parallel issued for a request: its mirrors, the broken ones
  onwheel,      \* a request on the wheel: the mirrors it has marked stale, its error
  lock,         \* what the holder of glb_sched_intlock is doing
  pv_pbuf,      \* the cache buffer of each disk: idle, writing, on the wheel
  missing,      \* disks in state PV_MISSING
  proc,         \* the process in hd_ca_clnup or hd_kdis_initmwc
  mwc_tm,       \* time stamp of the record in memory
  clock,        \* the system clock
  stale,        \* <<partition, disk>>: copies in state PP_STALE
  chging,       \* those of them in state PP_CHGING
  disk,         \* the MWC record on each disk
  sa_stale,     \* copies recorded as stale in the VGSAs
  sa_miss,      \* disks recorded as missing in the VGSAs
  behind,       \* <<track group, disk>>: copies that lack an acknowledged write
  differ,       \* copies that lack some write, of whatever outcome
  torn,         \* track groups with several good copies that may differ
  mode,         \* "down", "recover" or "up"
  rcv,          \* track groups that varyon has still to recover
  count         \* how often each bounded event has happened

memory == <<g, writing, onwheel, lock, pv_pbuf, missing, proc, mwc_tm, stale, chging>>
disks == <<disk, sa_stale, sa_miss, behind, differ, torn>>
vars == <<memory, disks, clock, mode, rcv, count>>

Entry == [tg: Tg \cup {NULL}, state: {"CACLEAN", "CACHG", "CANOCHG"},
          iocnt: 0..Cardinality(Req)]
CleanEntry == [tg |-> NULL, state |-> "CACLEAN", iocnt |-> 0]

(* alloc_mwc_mem: the cache after an open of the volume group.             *)
NewCache ==
  [flags |-> {}, ca_lst |-> [i \in 1..ca_size |-> CleanEntry], ca_hld |-> <<>>,
   pending_Q |-> <<>>, ca_pv |-> [p \in Pv |-> <<>>], ca_freepvw |-> NPvWait,
   av_forw |-> [r \in Req |-> 0], pvwrt |-> {}, ca_inflt_cnt |-> 0,
   cached |-> {}, lb |-> [r \in Req |-> NULL]]

Init ==
  /\ g = NewCache
  /\ writing = [r \in Req |-> NULL] /\ onwheel = [r \in Req |-> NULL]
  /\ lock = "free" /\ proc = "none"
  /\ pv_pbuf = [p \in Pv |-> "idle"]
  /\ missing = {} /\ stale = {} /\ chging = {}
  /\ mwc_tm = <<0, 0>> /\ clock = <<1, 0>>
  /\ disk = [p \in Pv |-> [tm |-> <<0, 0>>, ltgs |-> {}]]
  /\ sa_stale = {} /\ sa_miss = {} /\ behind = {} /\ differ = {} /\ torn = {}
  /\ mode = "up" /\ rcv = {}
  /\ count = [issue |-> 0, clean |-> 0, crash |-> 0, return |-> 0, off |-> 0]
-----------------------------------------------------------------------------
Mirrors(t) == Range(Copies[Part[t]])
FreshIn(t, S) == {p \in Mirrors(t) : <<Part[t], p>> \notin S}

(* Mutant: a copy is avoided as soon as it is stale.                       *)
Live_Stale(t) == FreshIn(t, stale)

(* hd_avoid for a write: the mirrors that are not stale, or are only now    *)
(* being made stale.                                                        *)
Live(t) == FreshIn(t, stale \ chging)

Image(c) == {c.ca_lst[i].tg : i \in 1..ca_size} \ {NULL}
ForcedOff(c) == "VG_FORCEDOFF" \in c.flags

Earlier(t1, t2) == t1[1] < t2[1] \/ (t1[1] = t2[1] /\ t1[2] < t2[2])

hd_gettime(o_time, t) ==
  IF t[1] <= o_time[1] /\ t[2] <= o_time[2] THEN <<o_time[1], o_time[2] + 1>> ELSE t

(* The first mirror of t that is in S.                                      *)
FirstOf(t, S) == LET s == Copies[Part[t]] IN s[Min({i \in DOMAIN s : s[i] \in S})]
LastOf(t, S) == LET s == Copies[Part[t]] IN s[Max({i \in DOMAIN s : s[i] \in S})]
-----------------------------------------------------------------------------
(* What the routines of hd_mircach.c do to the cache c.                     *)

EntryOf(c, t) == CHOOSE i \in 1..ca_size : c.ca_lst[i].tg = t

(* Entry i becomes e, at the head (most recently used) or at the tail.      *)
hd_ca_use(c, i, e, where) ==
  LET rest == RemoveAt(c.ca_lst, i)
  IN  [c EXCEPT !.ca_lst = IF where = "CAHEAD" THEN <<e>> \o rest ELSE Append(rest, e)]

Held(c, r) == [c EXCEPT !.ca_hld = Append(@, r)]

(* hd_ca_new: the entries that can be taken; the last on the list is.       *)
hd_ca_new(c) == {i \in 1..ca_size : c.ca_lst[i].iocnt = 0}

hd_ca_mvhld(c) ==
  IF ForcedOff(c)
  THEN [c EXCEPT !.ca_hld = <<>>,
                 !.lb = [r \in Req |-> IF r \in Range(c.ca_hld) THEN NULL ELSE @[r]]]
  ELSE [c EXCEPT !.pending_Q = @ \o c.ca_hld, !.ca_hld = <<>>]

(* Mutant: the hold queue is left to the end of the next cache write.       *)
hd_ca_term_Wait(c, r) ==
  LET i == EntryOf(c, c.lb[r])
  IN  [c EXCEPT !.ca_lst[i].iocnt = @ - 1, !.cached = @ \ {r}]

hd_ca_term(c, r) ==
  LET i == EntryOf(c, c.lb[r])
      done == [c EXCEPT !.ca_lst[i].iocnt = @ - 1, !.cached = @ \ {r}]
  IN  IF done.ca_lst[i].iocnt = 0 /\ "CA_INFLT" \notin c.flags /\ "CA_FULL" \in c.flags
      THEN hd_ca_mvhld(done)
      ELSE done

(* The end of hd_finished, and the error return of hd_parallel.             *)
Returned(c, r) ==
  [(IF r \in c.cached THEN hd_ca_term(c, r) ELSE c) EXCEPT !.lb[r] = NULL]

(* The disks that hd_ca_pvque hangs a request for t on.                     *)
PvWaits(t) == Mirrors(t) \ missing

hd_ca_pvque(c, r) ==
  LET P == PvWaits(c.lb[r])
  IN  [c EXCEPT !.ca_pv = [p \in Pv |-> IF p \in P THEN Append(@[p], r) ELSE @[p]],
                !.ca_freepvw = @ - Cardinality(P),
                !.av_forw[r] = Cardinality(P),
                !.pvwrt = @ \cup P]

(* Mutant: whether the entry is changing is not looked at.                 *)
IsHit_Any(c, t) == t \in Image(c)

(* hd_ca_ckcach returns CA_HIT.                                             *)
IsHit(c, t) == t \in Image(c) /\ c.ca_lst[EntryOf(c, t)].state # "CACHG"

hd_ca_hit(c, r) ==
  LET i == EntryOf(c, c.lb[r])
  IN  [hd_ca_use(c, i, [c.ca_lst[i] EXCEPT !.iocnt = @ + 1], "CAHEAD")
       EXCEPT !.cached = @ \cup {r}]

(* hd_ca_ckcach returns CA_MISS: the request is held, or fails for want of  *)
(* a disk, or waits for its track group to be on the disks.                 *)
hd_ca_miss(c, r) ==
  LET t == c.lb[r]
      known == t \in Image(c)
      i == IF known THEN EntryOf(c, t) ELSE Max(hd_ca_new(c))
      P == PvWaits(t)
      taken == IF known THEN c
               ELSE [hd_ca_use(c, i, CleanEntry, "CATAIL") EXCEPT !.flags = @ \ {"CA_FULL"}]
      e == [tg |-> t, state |-> "CACHG", iocnt |-> IF known THEN c.ca_lst[i].iocnt + 1 ELSE 1]
  IN  IF "CA_INFLT" \in c.flags THEN Held(c, r)
      ELSE IF ~known /\ hd_ca_new(c) = {}
      THEN [Held(c, r) EXCEPT !.flags = @ \cup {"CA_FULL"}]
      ELSE IF P = {} THEN [taken EXCEPT !.lb[r] = NULL]
      ELSE IF Cardinality(P) > c.ca_freepvw THEN Held(taken, r)
      ELSE [hd_ca_pvque(hd_ca_use(taken, IF known THEN i ELSE ca_size, e, "CAHEAD"), r)
            EXCEPT !.flags = @ \cup {"CA_VGACT"}, !.cached = @ \cup {r}]

(* hd_ca_sked: the requests that waited for the record to be on disk p; the  *)
(* first of them ...                                                        *)
Wakes(c, p) ==
  LET r == Head(c.ca_pv[p])
      e == [c EXCEPT !.ca_pv[p] = Tail(@), !.av_forw[r] = @ - 1, !.ca_freepvw = @ + 1]
  IN  IF e.av_forw[r] > 0 THEN e
      ELSE IF ForcedOff(c) THEN [hd_ca_term(e, r) EXCEPT !.lb[r] = NULL]
      ELSE [e EXCEPT !.pending_Q = <<r>> \o @]

(* ... and all, one after the other.                                        *)
hd_ca_sked(c, p) ==
  LET woken[i \in 0..Len(c.ca_pv[p])] == IF i = 0 THEN c ELSE Wakes(woken[i - 1], p)
  IN  woken[Len(c.ca_pv[p])]

(* The entries up to the first that is CACLEAN have been written.           *)
Written(lst) ==
  [i \in DOMAIN lst |->
    IF lst[i].state = "CACHG" /\ \A j \in 1..i : lst[j].state # "CACLEAN"
    THEN [lst[i] EXCEPT !.state = "CANOCHG"] ELSE lst[i]]

Sleeping == proc \in {"asleep", "writing", "initmwc"}

(* The tail of hd_ca_wend, for disk p.                                      *)
hd_ca_wend(c, p) ==
  LET d == [hd_ca_sked(c, p) EXCEPT !.ca_inflt_cnt = @ - 1]
      last == [d EXCEPT !.ca_lst = Written(@), !.flags = @ \ {"CA_INFLT"}]
  IN  IF d.ca_inflt_cnt > 0 THEN d
      ELSE IF Sleeping THEN [last EXCEPT !.flags = @ \cup {"CA_INFLT"}]
      ELSE hd_ca_mvhld(last)

(* Mutant: the waiting process is not woken.                               *)
Woken_Never(c) == proc

(* e_wakeup, if this is the end of the last cache write.                    *)
Woken(c) ==
  IF Sleeping /\ c.ca_inflt_cnt = 1 THEN
    CASE proc = "asleep" -> "awake" [] proc = "writing" -> "written" [] OTHER -> "cleared"
  ELSE proc

(* hd_ca_wrt: the record is given a time and written to the disks marked.   *)
hd_ca_wrt(c) ==
  /\ g' = [c EXCEPT !.flags = (@ \ {"CA_VGACT"}) \cup {"CA_INFLT"},
                    !.ca_inflt_cnt = @ + Cardinality(c.pvwrt), !.pvwrt = {}]
  /\ mwc_tm' = hd_gettime(mwc_tm, clock)
  /\ pv_pbuf' = [p \in Pv |-> IF p \in c.pvwrt THEN "writing" ELSE pv_pbuf[p]]
-----------------------------------------------------------------------------
(* A write request is accepted (hd_strategy) and the scheduler entered.     *)
hd_strategy(r, t) ==
  /\ mode = "up" /\ lock = "free" /\ g.lb[r] = NULL /\ ~ForcedOff(g)
  /\ count.issue < MaxIssue
  /\ count' = [count EXCEPT !.issue = @ + 1]
  /\ g' = [g EXCEPT !.lb[r] = t, !.pending_Q = Append(@, r)]
  /\ lock' = "schedule"
  /\ UNCHANGED <<writing, onwheel, pv_pbuf, missing, proc, mwc_tm, stale, chging,
                 disks, clock, mode, rcv>>

Broken(t) == {p \in Live(t) : p \in missing \/ <<Part[t], p>> \in stale}
PbufsUsed == Cardinality(UNION {{r} \X writing[r].live : r \in {q \in Req : writing[q] # NULL}})

(* Mutant: a request that was cached on an earlier pass is cached again.   *)
NeedsCache_Again(c, r) == Cardinality(Live(c.lb[r])) > 1

NeedsCache(c, r) == r \notin c.cached /\ Cardinality(Live(c.lb[r])) > 1

(* hd_schedule takes the next request: hd_parallel.                         *)
hd_parallel ==
  /\ lock = "schedule" /\ g.pending_Q # <<>>
  /\ LET r == Head(g.pending_Q)
         t == g.lb[r]
         c == [g EXCEPT !.pending_Q = Tail(@)]
         d == IF NeedsCache(c, r) THEN hd_ca_hit(c, r) ELSE c
     IN  IF NeedsCache(c, r) /\ ~IsHit(c, t)
         THEN g' = hd_ca_miss(c, r) /\ UNCHANGED <<writing, lock>>
         ELSE IF PbufsUsed + Cardinality(Live(t)) > NPbuf
         THEN /\ g' = [d EXCEPT !.pending_Q = <<r>> \o @]
              /\ lock' = "blocked"
              /\ UNCHANGED writing
         ELSE IF Live(t) = Broken(t)
         THEN g' = Returned(d, r) /\ UNCHANGED <<writing, lock>>
         ELSE /\ g' = d
              /\ writing' = [writing EXCEPT ![r] = [live |-> Live(t), broken |-> Broken(t)]]
              /\ UNCHANGED lock
  /\ UNCHANGED <<onwheel, pv_pbuf, missing, proc, mwc_tm, stale, chging, disks, clock,
                 mode, rcv, count>>

(* The end of hd_schedule: the cache writes wanted are started.             *)
hd_schedule ==
  /\ lock = "blocked" \/ (lock = "schedule" /\ g.pending_Q = <<>>)
  /\ lock' = "free"
  /\ IF "CA_VGACT" \in g.flags THEN hd_ca_wrt(g) ELSE UNCHANGED <<g, mwc_tm, pv_pbuf>>
  /\ UNCHANGED <<writing, onwheel, missing, proc, stale, chging, disks, clock, mode, rcv, count>>

(* hd_ca_end: the write of the record to disk p has ended well ...          *)
CacheWritten(p) ==
  /\ lock = "free" /\ pv_pbuf[p] = "writing"
  /\ disk' = [disk EXCEPT ![p] = [tm |-> mwc_tm, ltgs |-> Image(g)]]
  /\ pv_pbuf' = [pv_pbuf EXCEPT ![p] = "idle"]
  /\ g' = hd_ca_wend(g, p)
  /\ proc' = Woken(g)
  /\ lock' = "schedule"
  /\ UNCHANGED <<writing, onwheel, missing, mwc_tm, stale, chging, sa_stale, sa_miss,
                 behind, differ, torn, clock, mode, rcv, count>>

(* ... or with an error: the disk is missing, which the wheel records.      *)
CacheFailed(p) ==
  /\ lock = "free" /\ pv_pbuf[p] = "writing" /\ p \in MayFail
  /\ missing' = missing \cup {p}
  /\ IF ForcedOff(g)
     THEN /\ pv_pbuf' = [pv_pbuf EXCEPT ![p] = "idle"]
          /\ g' = hd_ca_wend(g, p)
          /\ proc' = Woken(g)
     ELSE /\ pv_pbuf' = [pv_pbuf EXCEPT ![p] = "wheel"]
          /\ UNCHANGED <<g, proc>>
  /\ lock' = "schedule"
  /\ UNCHANGED <<writing, onwheel, mwc_tm, stale, chging, disks, clock, mode, rcv, count>>

(* hd_sa_update, when the disks in M are found missing: without a quorum    *)
(* the volume group is forced off and nothing more is recorded.             *)
Quorate(M) == ~ForcedOff(g) /\ Cardinality(Pv \ M) >= Quorum
Checked(c, M) ==
  IF Quorate(M) THEN c ELSE [c EXCEPT !.flags = @ \cup {"VG_FORCEDOFF"}]
CountOff(M) == [count EXCEPT !.off = IF Quorate(M) THEN @ ELSE 1]

(* The wheel has been round for the cache buffer of disk p.                 *)
SaPvMissing(p) ==
  /\ lock = "free" /\ pv_pbuf[p] = "wheel"
  /\ pv_pbuf' = [pv_pbuf EXCEPT ![p] = "idle"]
  /\ sa_miss' = IF Quorate(missing) THEN sa_miss \cup {p} ELSE sa_miss
  /\ count' = CountOff(missing)
  /\ g' = hd_ca_wend(Checked(g, missing), p)
  /\ proc' = Woken(g)
  /\ lock' = "schedule"
  /\ UNCHANGED <<writing, onwheel, missing, mwc_tm, stale, chging, disk, sa_stale, behind,
                 differ, torn, clock, mode, rcv>>
-----------------------------------------------------------------------------
(* hd_finished: request r returns; the mirrors in bad did not get its data, *)
(* and the copies in marked are stale.                                      *)
hd_finished(c, r, err, bad, marked) ==
  LET t == c.lb[r]
      without(P) == {t} \X (Mirrors(t) \ P)
  IN  /\ g' = Returned(c, r)
      /\ writing' = [writing EXCEPT ![r] = NULL]
      /\ onwheel' = [onwheel EXCEPT ![r] = NULL]
      /\ behind' = IF err THEN behind ELSE behind \cup without(writing[r].live \ bad)
      /\ differ' = differ \cup without(FreshIn(t, marked))
      /\ torn' = IF err /\ Cardinality(FreshIn(t, marked)) > 1 THEN torn \cup {t} ELSE torn

(* hd_stalepp, if every mirror is stale, bad or avoided: the mirror that is *)
(* to remain active.                                                        *)
ActMir(t, live) ==
  LET fresh == live \cap FreshIn(t, stale)
  IN  IF fresh = {} THEN {}
      ELSE {FirstOf(t, IF fresh \ missing # {} THEN fresh \ missing ELSE fresh)}

(* The mirrors that hd_stalepp marks stale: not the last active one.        *)
Marked(t, live, mirbad) ==
  IF FreshIn(t, stale) \cap live \subseteq mirbad THEN mirbad \ ActMir(t, live) ELSE mirbad

(* The last write to a mirror has ended (hd_parwrite), E having failed.     *)
hd_parwrite(r, E) ==
  LET t == g.lb[r]
      w == writing[r]
      mirbad == w.broken \cup E
      err == FreshIn(t, stale) \cap w.live \subseteq mirbad
      bad == Marked(t, w.live, mirbad)
      copies == {<<Part[t], p>> : p \in bad}
      wait == {p \in bad : <<Part[t], p>> \notin stale \ chging}
  IN  /\ lock = "free" /\ w # NULL /\ onwheel[r] = NULL
      /\ E \subseteq w.live \ w.broken
      /\ \A p \in w.live \ w.broken : (p \in missing => p \in E) /\ (p \in E => p \in MayFail)
      /\ IF mirbad = {} \/ Cardinality(w.live) = 1
         THEN /\ hd_finished(g, r, mirbad # {}, mirbad, stale)
              /\ UNCHANGED <<stale, chging>>
         ELSE /\ stale' = stale \cup copies
              /\ chging' = chging \cup (copies \ stale)
              /\ IF wait # {} /\ ~ForcedOff(g)
                 THEN /\ onwheel' = [onwheel EXCEPT ![r] =
                                      [bad |-> mirbad, marked |-> wait, err |-> err]]
                      /\ UNCHANGED <<g, writing, behind, differ, torn>>
                 ELSE hd_finished(g, r, err \/ wait # {}, mirbad, stale')
      /\ lock' = "schedule"
      /\ UNCHANGED <<pv_pbuf, missing, proc, mwc_tm, disk, sa_stale, sa_miss, clock, mode,
                     rcv, count>>

(* The wheel has been round for a request (hd_staleppe); the disks in M     *)
(* failed the write of their VGSA.                                          *)
hd_staleppe(r, M) ==
  LET w == onwheel[r]
      gone == missing \cup M
      copies == {<<Part[g.lb[r]], p>> : p \in w.marked}
  IN  /\ lock = "free" /\ w # NULL /\ M \subseteq MayFail \ missing
      /\ missing' = gone
      /\ sa_miss' = IF Quorate(gone) THEN sa_miss \cup M ELSE sa_miss
      /\ sa_stale' = IF Quorate(gone) THEN sa_stale \cup copies ELSE sa_stale
      /\ chging' = chging \ copies
      /\ hd_finished(Checked(g, gone), r, w.err \/ ~Quorate(gone), w.bad, stale)
      /\ count' = CountOff(gone)
      /\ lock' = "schedule"
      /\ UNCHANGED <<pv_pbuf, proc, mwc_tm, stale, disk, clock, mode, rcv>>

(* A resync of the stale copies of partition l that are on active disks     *)
(* (hd_resyncpp, hd_freshpp).  It stands for the whole pass over the track  *)
(* groups: no write of the partition is under way.                          *)
Resync(l) ==
  LET S == {p \in Range(Copies[l]) \ missing : <<l, p>> \in stale}
      tgs == {t \in Tg : Part[t] = l}
  IN  /\ mode = "up" /\ lock = "free" /\ ~ForcedOff(g) /\ S # {}
      /\ \E p \in Range(Copies[l]) \ missing : <<l, p>> \notin stale
      /\ \A r \in Req : g.lb[r] \notin tgs
      /\ stale' = stale \ ({l} \X S) /\ sa_stale' = sa_stale \ ({l} \X S)
      /\ behind' = behind \ (tgs \X S) /\ differ' = differ \ (tgs \X S)
      /\ torn' = torn \ {t \in tgs : Cardinality(FreshIn(t, stale)) = 1}
      /\ UNCHANGED <<g, writing, onwheel, lock, pv_pbuf, missing, proc, mwc_tm, chging, disk,
                     sa_miss, clock, mode, rcv, count>>

(* HD_KADDPV: a missing disk comes back while the volume group is on.       *)
hd_kaddpv(p) ==
  /\ mode = "up" /\ lock = "free" /\ ~ForcedOff(g)
  /\ p \in missing \cap sa_miss /\ pv_pbuf[p] = "idle"
  /\ count.return < MaxReturn
  /\ count' = [count EXCEPT !.return = @ + 1]
  /\ missing' = missing \ {p} /\ sa_miss' = sa_miss \ {p}
  /\ UNCHANGED <<g, writing, onwheel, lock, pv_pbuf, proc, mwc_tm, stale, chging, disk,
                 sa_stale, behind, differ, torn, clock, mode, rcv>>
-----------------------------------------------------------------------------
(* hd_ca_clnup, called at a close and by CACLNUP.                           *)
Unused(e) == e.iocnt = 0 /\ e.tg # NULL

(* The entries without I/O go to the tail and become CACLEAN.               *)
CleanedList(c) ==
  LET kept[i \in 0..ca_size] ==
        IF i = 0 THEN <<>>
        ELSE IF Unused(c.ca_lst[i]) THEN kept[i - 1] ELSE Append(kept[i - 1], c.ca_lst[i])
      L == kept[ca_size]
  IN  [i \in 1..ca_size |-> IF i <= Len(L) THEN L[i] ELSE CleanEntry]

(* With the cache reserved: clean it, and write it if that changed it.      *)
Clean(c) ==
  LET P == IF \E i \in 1..ca_size : Unused(c.ca_lst[i]) THEN Pv \ missing ELSE {}
      d == [c EXCEPT !.ca_lst = CleanedList(c), !.pvwrt = P]
  IN  IF P # {} THEN hd_ca_wrt(d) /\ proc' = "writing" /\ lock' = "free"
      ELSE /\ g' = hd_ca_mvhld([d EXCEPT !.flags = @ \ {"CA_INFLT"}])
           /\ proc' = "none" /\ lock' = "schedule"
           /\ UNCHANGED <<mwc_tm, pv_pbuf>>

hd_ca_clnup ==
  /\ mode = "up" /\ lock = "free" /\ proc = "none" /\ ~ForcedOff(g)
  /\ count.clean < MaxClean
  /\ count' = [count EXCEPT !.clean = @ + 1]
  /\ IF "CA_INFLT" \in g.flags
     THEN proc' = "asleep" /\ UNCHANGED <<g, lock, mwc_tm, pv_pbuf>>
     ELSE Clean([g EXCEPT !.flags = @ \cup {"CA_INFLT"}])
  /\ UNCHANGED <<writing, onwheel, missing, stale, chging, disks, clock, mode, rcv>>

CleanAwake ==
  /\ lock = "free" /\ proc = "awake"
  /\ Clean(g)
  /\ UNCHANGED <<writing, onwheel, missing, stale, chging, disks, clock, mode, rcv, count>>

CleanWritten ==
  /\ lock = "free" /\ proc = "written"
  /\ g' = hd_ca_mvhld([g EXCEPT !.flags = @ \ {"CA_INFLT"}])
  /\ proc' = "none" /\ lock' = "schedule"
  /\ UNCHANGED <<writing, onwheel, pv_pbuf, missing, mwc_tm, stale, chging, disks, clock, mode,
                 rcv, count>>
-----------------------------------------------------------------------------
(* The system stops: what is in memory is lost, and the track groups being  *)
(* written are left with copies that may differ.                            *)
Crash ==
  LET recorded == {w \in Tg \X Pv : <<Part[w[1]], w[2]>> \in sa_stale} IN
  /\ mode # "down" /\ count.crash < MaxCrash
  /\ count' = [count EXCEPT !.crash = @ + 1]
  /\ torn' = torn \cup {t \in Tg : /\ Cardinality(FreshIn(t, sa_stale)) > 1
                                    /\ \/ \E r \in Req : g.lb[r] = t /\ writing[r] # NULL
                                       \/ \E w \in differ : w[1] = t /\ w \notin recorded}
  /\ differ' = differ \cap recorded
  /\ mode' = "down" /\ rcv' = {}
  /\ clock' = <<clock[1] + 1, 0>>
  /\ g' = NewCache
  /\ writing' = [r \in Req |-> NULL] /\ onwheel' = [r \in Req |-> NULL]
  /\ lock' = "free" /\ proc' = "none"
  /\ pv_pbuf' = [p \in Pv |-> "idle"]
  /\ missing' = {} /\ stale' = {} /\ chging' = {}
  /\ mwc_tm' = <<0, 0>>
  /\ UNCHANGED <<disk, sa_stale, sa_miss, behind>>

(* lvm_vgsamwcc: the disks of F with the newest record.                     *)
Newest(F) == {p \in F : \A q \in F : ~Earlier(disk[p].tm, disk[q].tm)}

(* Mutant: only the disks now missing call for disaster recovery.          *)
DisasterPvs_Now(F) == Pv \ F

(* lvm_mwcinfo: the disks whose record says nothing of the last crash.      *)
DisasterPvs(F) == sa_miss \cup (Pv \ F)

(* The copies of t that become stale, one of those in fresh to remain: the  *)
(* first that is not on a disk in gone, or the last of all.                 *)
AllButOne(t, fresh, gone) ==
  {<<Part[t], p>> : p \in fresh \
     {IF fresh \ gone # {} THEN FirstOf(t, fresh \ gone) ELSE LastOf(t, fresh)}}

(* varyonvg with the disks in F: the newest record goes to all of them      *)
(* (lvm_vgsamwcc, lvm_update), partitions it cannot speak for keep one      *)
(* fresh copy, and its track groups are handed to the driver (lvm_mwcinfo). *)
Varyon(F) ==
  LET best == CHOOSE p \in Newest(F) : TRUE
      lost == {t \in Tg : Mirrors(t) \subseteq DisasterPvs(F)}
      s == sa_stale \cup UNION {AllButOne(t, FreshIn(t, sa_stale), Pv \ F) : t \in lost}
      todo == {t \in disk[best].ltgs : Cardinality(FreshIn(t, s)) > 1}
  IN  /\ mode = "down" /\ Cardinality(F) >= Quorum /\ Pv \ F \subseteq MayFail
      /\ disk' = [p \in Pv |-> IF p \in F THEN disk[best] ELSE disk[p]]
      /\ sa_stale' = s /\ stale' = s
      /\ torn' = torn \ lost
      /\ sa_miss' = Pv \ F /\ missing' = Pv \ F
      /\ rcv' = todo
      /\ mode' = IF todo = {} THEN "up" ELSE "recover"
      /\ UNCHANGED <<g, writing, onwheel, lock, pv_pbuf, proc, mwc_tm, chging, behind, differ, clock,
                     count>>

(* hd_mwc_fprec: one track group.  hd_resyncpp copies the mirror it has     *)
(* read to the others; those on missing disks, and those in E, whose disk   *)
(* fails, become stale, one remaining if none can be read (hd_stalepp).     *)
hd_mwc_fprec(t, E) ==
  LET fresh == FreshIn(t, stale)
      bad == fresh \cap (missing \cup E)
      s == stale \cup (IF fresh = bad THEN AllButOne(t, fresh, missing)
                      ELSE {<<Part[t], p>> : p \in bad})
  IN  /\ mode = "recover" /\ lock = "free" /\ t \in rcv
      /\ ~(fresh \subseteq missing)
      /\ rcv' = rcv \ {t}
      /\ sa_stale' = s /\ stale' = s
      /\ torn' = torn \ {t}
      /\ UNCHANGED <<g, writing, onwheel, lock, pv_pbuf, missing, proc, mwc_tm, chging, disk,
                     sa_miss, behind, differ, clock, mode, count>>

(* Its volume could not be opened, or all its good copies are on missing    *)
(* disks: all but one become stale, in memory.                              *)
hd_disastrec(t) ==
  /\ mode = "recover" /\ lock = "free" /\ t \in rcv
  /\ rcv' = rcv \ {t}
  /\ stale' = stale \cup AllButOne(t, FreshIn(t, stale), missing)
  /\ UNCHANGED <<g, writing, onwheel, lock, pv_pbuf, missing, proc, mwc_tm, chging, disks,
                 clock, mode, count>>

(* Mutant: the log is cleared before what recovery found is recorded.      *)
Recovered_Early == rcv = {}

Recovered == rcv = {} /\ stale = sa_stale

(* The end of hd_mwc_fprec: what hd_disastrec did goes round the wheel.     *)
HD_MWC_REC ==
  /\ mode = "recover" /\ rcv = {} /\ stale # sa_stale
  /\ sa_stale' = stale
  /\ torn' = {t \in torn : Cardinality(FreshIn(t, stale)) > 1}
  /\ UNCHANGED <<memory, disk, sa_miss, behind, differ, clock, mode, rcv, count>>

(* hd_kdis_initmwc: an empty record is written to every active disk.        *)
hd_kdis_initmwc ==
  /\ mode = "recover" /\ Recovered /\ proc = "none"
  /\ hd_ca_wrt([g EXCEPT !.pvwrt = Pv \ missing])
  /\ proc' = "initmwc"
  /\ UNCHANGED <<writing, onwheel, lock, missing, stale, chging, disks, clock, mode, rcv, count>>

(* ... and the close of LV0 frees the cache; time has passed.               *)
Cleared ==
  /\ proc = "cleared" /\ lock = "free"
  /\ g' = [NewCache EXCEPT !.flags = g.flags \ {"CA_INFLT"}]
  /\ mwc_tm' = <<0, 0>> /\ clock' = <<clock[1] + 1, 0>>
  /\ proc' = "none" /\ mode' = "up"
  /\ UNCHANGED <<writing, onwheel, lock, pv_pbuf, missing, stale, chging, disks, rcv, count>>

Next ==
  \/ \E r \in Req, t \in Tg : hd_strategy(r, t)
  \/ hd_parallel
  \/ hd_schedule
  \/ \E p \in Pv : CacheWritten(p) \/ CacheFailed(p) \/ SaPvMissing(p) \/ hd_kaddpv(p)
  \/ \E r \in Req, E \in SUBSET Pv : hd_parwrite(r, E)
  \/ \E r \in Req, M \in SUBSET MayFail : hd_staleppe(r, M)
  \/ \E l \in Lp : Resync(l)
  \/ \E t \in Tg, E \in SUBSET MayFail : hd_mwc_fprec(t, E)
  \/ hd_ca_clnup \/ CleanAwake \/ CleanWritten
  \/ Crash
  \/ \E F \in SUBSET Pv : Varyon(F)
  \/ \E t \in Tg : hd_disastrec(t)
  \/ HD_MWC_REC \/ hd_kdis_initmwc \/ Cleared

(* Every transfer ends and the processes that are awake run on.             *)
Fairness ==
  /\ WF_vars(hd_parallel) /\ WF_vars(hd_schedule)
  /\ \A p \in Pv : WF_vars(CacheWritten(p) \/ CacheFailed(p)) /\ WF_vars(SaPvMissing(p))
  /\ \A r \in Req : /\ WF_vars(\E E \in SUBSET Pv : hd_parwrite(r, E))
                     /\ WF_vars(\E M \in SUBSET MayFail : hd_staleppe(r, M))
  /\ WF_vars(CleanAwake) /\ WF_vars(CleanWritten) /\ WF_vars(Cleared)

Spec == Init /\ [][Next]_vars /\ Fairness
-----------------------------------------------------------------------------
TypeOK ==
  /\ g.flags \subseteq {"CA_INFLT", "CA_FULL", "CA_VGACT", "VG_FORCEDOFF"}
  /\ g.ca_lst \in [1..ca_size -> Entry]
  /\ g.ca_freepvw \in 0..NPvWait
  /\ g.lb \in [Req -> Tg \cup {NULL}]
  /\ g.cached \subseteq Req
  /\ missing \subseteq Pv /\ sa_miss \subseteq Pv /\ chging \subseteq stale
  /\ proc \in {"none", "asleep", "awake", "writing", "written", "initmwc", "cleared"}

(* A copy that lacks a write whose request returned without error is        *)
(* recorded as stale on the disks, at every moment, so that no crash can    *)
(* bring it back as good: hd_stalepp and the wheel hold the request until   *)
(* then, and hd_avoid avoids only copies whose staleness is recorded.       *)
AckedOnFresh ==
  count.off = 0 => \A w \in behind : <<Part[w[1]], w[2]>> \in sa_stale

(* hd_stalepp (hd_sched.c:1053-1055): if PP_CHGING is off, the stale state  *)
(* "has been recorded in all the VGSAs".                                    *)
UnchangingIsRecorded == stale \ chging \subseteq sa_stale

(* No two copies that pass for good differ.                                *)
Agree == \A t \in torn : Cardinality(FreshIn(t, stale)) = 1

(* While the volume group is on, no two copies that pass for good differ,   *)
(* unless a quorum has been lost or a disk has come back: the record names  *)
(* every track group that a crash can leave torn, and varyon recovers it    *)
(* (hd_mwc_fprec) or leaves one copy fresh (lvm_mwcinfo, hd_disastrec).     *)
MirrorsAgree == mode = "up" /\ count.off = 0 /\ count.return = 0 => Agree

(* hd_stalepp (hd_sched.c:882-885): of a request that is returned for loss  *)
(* of quorum "any recovery operation will attempt to use the MWC cache", so *)
(* that the copies agree again once the volume group is back.               *)
RecoveredAfterForcedOff == mode = "up" /\ ~ForcedOff(g) => Agree

(* Whenever the copies of a track group are being written for a cached      *)
(* request, the newest record on the disks names it, and so does that of    *)
(* every active disk that is written: hd_ca_ckcach lets the request through *)
(* only after hd_ca_wend.  (A disk that comes back is not written first.)   *)
Recorded ==
  \A r \in g.cached : writing[r] # NULL /\ count.return = 0 =>
    \A p \in Newest(Pv) \cup (writing[r].live \ missing) : g.lb[r] \in disk[p].ltgs

(* hd_ca_ckcach (hd_mircach.c:60-61): an entry that is not changing "has    *)
(* been written to all PVs" that hold a copy to be written.                 *)
NotChangingIsWritten ==
  \A i \in 1..ca_size : g.ca_lst[i].state = "CANOCHG" =>
    \A p \in FreshIn(g.ca_lst[i].tg, stale) \ missing : g.ca_lst[i].tg \in disk[p].ltgs

(* A request on the hold queue has somebody to take it off: the end of a    *)
(* cache write or of a clean-up, or the return of a cached request that     *)
(* finds CA_FULL set (hd_ca_term).                                          *)
HeldWillMove ==
  lock = "free" /\ g.ca_hld # <<>> =>
    "CA_INFLT" \in g.flags \/ ("CA_FULL" \in g.flags /\ hd_ca_new(g) = {})

(* Every write request returns, unless the system stops: no chain of full   *)
(* caches, pv_wait structures, physical buffers, missing disks and clean-   *)
(* ups keeps one on a queue for ever.                                       *)
EveryWriteReturns == \A r \in Req : g.lb[r] # NULL ~> g.lb[r] = NULL
=============================================================================
