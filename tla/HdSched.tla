------------------------------- MODULE HdSched -------------------------------
(***************************************************************************)
(* The mirrored scheduling policies of hd_sched.c: which copies of a        *)
(* logical partition a request reads or writes and in which order, what a   *)
(* copy that fails means for the others, and the resynchronisation of stale *)
(* copies track group by track group while writes go on.                    *)
(*                                                                         *)
(* One logical partition; its copies are the mirrors 1..NMir, each on a disk *)
(* of its own, and a mask of mirrors is a set.  Requests for one track group *)
(* are kept apart before they come here (HdStrat): there is one at a time    *)
(* for each, and between hd_strategy and hd_schedule it may wait for others  *)
(* or for physical buffers.  The wheel (HdVgsa) returns a request after a    *)
(* while, with an error when the quorum is lost; the cache (HdMirCach) has   *)
(* let the writes pass, or is not used.                                     *)
(*                                                                         *)
(* The data of a track group is the number of the write that it comes from;  *)
(* a write that fails leaves a mixture behind, unless the data is the same.  *)
(* glb_sched_intlock makes each handler one step.                           *)
(***************************************************************************)
EXTENDS Integers, FiniteSets, FiniteSetsExt

CONSTANTS
  NMir,       \* copies of the partition (lv.nparts)
  TRKPPART,   \* track groups in a partition
  Volumes,    \* the volumes looked at: <<lv.i_sched, the set of <<mirror, track>>
              \* that hd_chkblk refuses>>
  MaxIssue, MaxErr, MaxMissing, MaxOff,  \* bounds: requests, I/O errors, disks
                                         \* that go missing, losses of quorum,
  MaxFaults                              \* and the last three together

ASSUME SchedAssumption == NMir \in Nat \ {0} /\ TRKPPART \in Nat \ {0}

VARIABLES
  m,       \* the driver: stale, chging, syncerr (the mirrors with PP_STALE, ...),
           \* sync_trk, sync_msk and PP_RIP of the partition, the request of each
           \* track group, lv.i_sched, LV_NOBBREL and what hd_chkblk refuses then,
           \* VG_OPENING and VG_FORCEDOFF (vg, off); with it what its callers know:
           \* the data acknowledged, what a crash has torn, and where syncvg is
  val,     \* the data of each mirror and track group
  missing, \* mirrors on missing disks
  count    \* what has been issued, has failed and has gone

vars == <<m, val, missing, count>>

Mirror == 1..NMir
Trk == 0..(TRKPPART - 1)
NO_SYNCTRK == -1
Unknown == -(NMir + 1)   \* acknowledged is nothing: the last write has failed
NearbyReads == {"SCH_PARALLEL", "SCH_SEQWRTPARRD"}
ParallelWrites == {"SCH_PARALLEL", "SCH_PARWRTSEQRD"}

(* A request with its physical request: where it is (st), the mirrors that   *)
(* disks work on (on), pb_sched, B_READ (rd), pb_mirror, pb_mirdone,         *)
(* pb_mirbad, pb_miravoid, B_ERROR; the data, and where it has been tried.   *)
NoReq == [op |-> "none", st |-> "returned", on |-> {}, sched |-> "none", rd |-> FALSE, mirror |-> 0,
          done |-> {}, bad |-> {}, avoid |-> {}, err |-> FALSE, refused |-> FALSE, data |-> 0,
          tried |-> {}]

Fault == count.err + count.missing + count.off < MaxFaults
Syncing(c) == \E t \in Trk : c.req[t].op \in {"RESYNC_OP", "MWC_RCV_OP"} /\ c.req[t].st # "returned"
-----------------------------------------------------------------------------
(* The request goes back to its caller.                                     *)
hd_finished(c, t) ==
  LET r == c.req[t]
  IN  [c EXCEPT
        !.req[t] = IF r.op # "read" THEN NoReq
                   ELSE [NoReq EXCEPT !.op = r.op, !.err = r.err, !.data = r.data, !.avoid = r.avoid, !.tried = r.tried],
        !.acked[t] = IF r.op # "write" THEN @ ELSE IF r.err THEN Unknown ELSE r.data,
        !.torn = IF r.op \in {"write", "MWC_RCV_OP"} /\ ~r.err THEN @ \ {t} ELSE @,
        !.next = IF r.op # "RESYNC_OP" THEN @ ELSE IF r.err THEN 0 ELSE (t + 1) % TRKPPART]

Failed(c, t) == hd_finished([c EXCEPT !.req[t].err = TRUE], t)

(* hd_xlate and hd_begin.                                                   *)
hd_begin(c, t, mirror) ==
  [c EXCEPT !.req[t] = [c.req[t] EXCEPT !.st = "disk", !.mirror = mirror, !.on = {mirror}, !.err = FALSE,
                                 !.refused = (<<mirror, t>> \in c.refuse)]]

(* The mirrors that a write finds stale or missing when their turn comes.    *)
Broken(c) == (IF c.sync_trk = NO_SYNCTRK THEN c.stale ELSE {}) \cup missing

Left(c, t) == Mirror \ (c.req[t].done \cup c.req[t].avoid)
(* Mutant: reads, too, only go to the mirrors that a write may use.          *)
Usable_NotBroken(c, t) == Left(c, t) \ Broken(c)
Usable(c, t) == IF c.req[t].op = "write" THEN Left(c, t) \ Broken(c) ELSE Left(c, t)

(* Mutant: the mirrors passed over are not marked bad.                       *)
hd_seqnext_Skips(c, t) ==
  LET next == Min(Usable(c, t)) IN hd_begin([c EXCEPT !.req[t].done = @ \cup (Mirror \ Usable(c, t)) \cup {next}], t, next)

(* The next mirror of a request that has a usable one.                      *)
hd_seqnext(c, t) ==
  LET next == Min(Usable(c, t))
      passed == {x \in Left(c, t) : x < next}
      d == [c EXCEPT !.req[t] = [c.req[t] EXCEPT !.done = @ \cup passed \cup {next}, !.bad = @ \cup passed]]
  IN  hd_begin(d, t, next)

(* Mutant: the last active mirror is not spared.                             *)
Marked_All(c, t) == c.req[t].bad

(* The mirrors to be marked for a request: never the last that is active.    *)
Marked(c, t) ==
  LET r == c.req[t]
      active == Mirror \ (r.avoid \cup c.stale)
      actmir == IF active \ missing # {} THEN {Min(active \ missing)}
                ELSE IF active # {} THEN {Min(active)} ELSE {}
  IN  IF c.stale \cup r.bad \cup r.avoid # Mirror THEN r.bad
      ELSE IF c.sync_trk # NO_SYNCTRK THEN Mirror \ (r.avoid \cup actmir)
      ELSE r.bad \ actmir

hd_stalepp(c, t) ==
  LET r == c.req[t]
      all == c.stale \cup r.bad \cup r.avoid = Mirror
      marked == Marked(c, t)
      wait == marked \ (c.stale \ c.chging)
      d == [c EXCEPT !.stale = @ \cup marked, !.chging = @ \cup (marked \ c.stale),
                     !.syncerr = IF c.sync_trk # NO_SYNCTRK THEN @ \cup marked ELSE @,
                     !.req[t] = [r EXCEPT !.err = all /\ (@ \/ r.op # "MWC_RCV_OP"),
                                          !.bad = wait, !.sched = "hd_staleppe", !.on = {}]]
  IN  IF wait = {} THEN hd_finished(d, t)
      ELSE IF c.off THEN Failed(d, t)
      ELSE [d EXCEPT !.req[t].st = "wheel"]

hd_staleppe(c, t) == hd_finished([c EXCEPT !.chging = @ \ c.req[t].bad], t)

(* Mutant: PP_RIP is not reset.                                             *)
hd_freshpp_Stays(c, t) ==
  LET d == [c EXCEPT !.stale = @ \ (c.req[t].done \ c.syncerr), !.sync_trk = NO_SYNCTRK,
                     !.req[t] = [c.req[t] EXCEPT !.err = FALSE, !.sched = "hd_finished", !.on = {}]]
  IN  IF c.off THEN Failed(d, t) ELSE [d EXCEPT !.req[t].st = "wheel"]

hd_freshpp(c, t) ==
  LET d == [c EXCEPT !.stale = @ \ (c.req[t].done \ c.syncerr), !.sync_trk = NO_SYNCTRK, !.rip = FALSE,
                     !.req[t] = [c.req[t] EXCEPT !.err = FALSE, !.sched = "hd_finished", !.on = {}]]
  IN  IF c.off THEN Failed(d, t) ELSE [d EXCEPT !.req[t].st = "wheel"]
-----------------------------------------------------------------------------
(* What follows the end of a physical request, by pb_sched.                 *)

hd_fixup(c, t) ==
  LET r == c.req[t]
      next == Min(r.bad)
      d == [c EXCEPT !.req[t] = [r EXCEPT !.rd = FALSE, !.sched = "hd_fixup", !.err = FALSE]]
  IN  IF r.bad = {} THEN hd_finished(d, t)
      ELSE hd_begin([d EXCEPT !.req[t].bad = @ \ {next}], t, next)

hd_mirread(c, t, media) ==
  LET r == c.req[t]
      d == [c EXCEPT !.req[t].bad = IF media THEN @ \cup {r.mirror} ELSE @]
  IN  IF r.err THEN IF Usable(c, t) # {} THEN hd_seqnext(d, t) ELSE hd_finished(c, t)
      ELSE IF r.bad # {} /\ ~c.nobbrel THEN hd_fixup(c, t)
      ELSE hd_finished(c, t)

(* Mutant: it is enough that the last copy has been written.                *)
Written_Last(c, t) == IF ~c.req[t].err THEN hd_finished(c, t) ELSE hd_stalepp(c, t)

(* After the last copy of a write.                                          *)
Written(c, t) ==
  LET r == c.req[t]
  IN  IF r.bad = {} \/ Cardinality(Mirror \ r.avoid) = 1 THEN hd_finished(c, t) ELSE hd_stalepp(c, t)

hd_seqwrite(c, t) ==
  LET r == c.req[t]
      bad == IF r.err THEN r.bad \cup {r.mirror} ELSE r.bad
      d == [c EXCEPT !.req[t].bad = bad]
  IN  IF Usable(c, t) # {} THEN hd_seqnext(d, t)
      ELSE Written([d EXCEPT !.req[t].bad = @ \cup Left(c, t)], t)

hd_parwrite(c, t, mirror) ==
  LET r == c.req[t]
      d == [c EXCEPT !.req[t] = [r EXCEPT !.bad = IF r.err THEN @ \cup {mirror} ELSE @, !.on = @ \ {mirror}]]
  IN  IF r.on \ {mirror} # {} THEN d ELSE Written(d, t)

(* A resynchronisation or recovery has read its track group, or has failed   *)
(* to read it from one mirror.                                              *)
SyncRead(c, t) ==
  LET r == c.req[t]
      rcv == r.op = "MWC_RCV_OP"
      d == [c EXCEPT !.req[t].bad = @ \cup {r.mirror}]
      msk == IF ~rcv THEN c.sync_msk
             ELSE (c.sync_msk \cup {r.mirror}) \ (c.sync_msk \cap {r.mirror})
      next == Min(msk)
  IN  IF r.err
      THEN IF Usable(c, t) # {} THEN hd_seqnext(d, t)
           ELSE IF rcv THEN hd_stalepp([c EXCEPT !.req[t] = [r EXCEPT !.err = FALSE, !.bad = @ \cup {r.mirror} \cup r.avoid]], t)
           ELSE hd_finished([d EXCEPT !.sync_trk = NO_SYNCTRK, !.rip = FALSE, !.sync_msk = {}], t)
      ELSE IF rcv /\ msk = {}
      THEN hd_stalepp([c EXCEPT !.sync_msk = {}, !.req[t].bad = r.avoid], t)
      ELSE hd_begin([c EXCEPT !.sync_msk = msk \ {next},
                              !.req[t] = [r EXCEPT !.rd = FALSE, !.done = {next} \cup (IF rcv THEN r.avoid ELSE {}),
                                                   !.bad = IF rcv THEN r.avoid ELSE {}]], t, next)

(* It has written one mirror, or has failed to.                             *)
SyncWritten(c, t) ==
  LET r == c.req[t]
      rcv == r.op = "MWC_RCV_OP"
      bad == IF r.err THEN r.bad \cup {r.mirror} ELSE r.bad
      next == Min(c.sync_msk)
      d == [c EXCEPT !.syncerr = IF r.err /\ ~rcv THEN @ \cup {r.mirror} ELSE @,
                     !.req[t] = [r EXCEPT !.bad = bad, !.err = FALSE]]
  IN  IF c.sync_msk # {}
      THEN hd_begin([d EXCEPT !.sync_msk = @ \ {next}, !.req[t].done = @ \cup {next}], t, next)
      ELSE IF rcv THEN IF bad # {} THEN hd_stalepp(d, t) ELSE hd_finished(d, t)
      ELSE IF bad = r.done THEN Failed([d EXCEPT !.sync_trk = NO_SYNCTRK, !.rip = FALSE], t)
      ELSE IF c.sync_trk = TRKPPART - 1 THEN hd_freshpp(d, t)
      ELSE hd_finished([d EXCEPT !.rip = FALSE, !.sync_trk = @ + 1], t)

hd_resyncpp(c, t) == IF c.req[t].rd THEN SyncRead(c, t) ELSE SyncWritten(c, t)

HD_SCHED(c, t, mirror, media) ==
  LET sched == c.req[t].sched
  IN  CASE sched = "hd_mirread" -> hd_mirread(c, t, media)
        [] sched = "hd_fixup" -> hd_fixup(c, t)
        [] sched = "hd_seqwrite" -> hd_seqwrite(c, t)
        [] sched = "hd_parwrite" -> hd_parwrite(c, t, mirror)
        [] sched = "hd_resyncpp" -> hd_resyncpp(c, t)

(* hd_begin calls HD_SCHED itself as long as hd_chkblk refuses.  The sets    *)
(* hold one state.                                                          *)
Refused(c, t) ==
  LET d == [c EXCEPT !.req[t] = [c.req[t] EXCEPT !.refused = FALSE, !.err = TRUE, !.tried = @ \cup c.req[t].on]]
  IN  HD_SCHED(d, t, c.req[t].mirror, TRUE)

Settled(c, t) ==
  LET after[i \in 0..(2 * NMir)] ==
        IF i = 0 THEN {c}
        ELSE {IF d.req[t].st = "disk" /\ d.req[t].refused THEN Refused(d, t) ELSE d : d \in after[i - 1]}
  IN  after[2 * NMir]
-----------------------------------------------------------------------------
(* The mirrors that a request avoids, in its record, and the mirrors that a  *)
(* resynchronisation is for.                                                *)
hd_avoid(c, t) ==
  LET op == c.req[t].op
      read == c.stale \cup missing
      recorded == c.stale \ c.chging
      behind == c.sync_trk # NO_SYNCTRK /\ t < c.sync_trk
      want == c.stale \ c.syncerr
      d == [c EXCEPT !.req[t].avoid = read]
  IN  CASE op = "read" -> d
        [] op = "write" -> [c EXCEPT !.req[t].avoid = IF behind THEN recorded \cap c.syncerr ELSE recorded]
        [] op = "MWC_RCV_OP" -> [d EXCEPT !.sync_msk = Mirror \ read]
        [] op = "RESYNC_OP" ->
             LET e == [d EXCEPT !.sync_msk = want \ missing, !.syncerr = @ \cup (want \cap missing)]
             IN  IF want \ missing # {} /\ read # Mirror THEN e
                 ELSE [e EXCEPT !.req[t].avoid = Mirror, !.sync_trk = NO_SYNCTRK, !.rip = FALSE]

(* The mirror selected and the mirror addressed: the first without transfers *)
(* on its disk, or the one with the fewest and the last that is looked at.   *)
(* While the group is varied on there are no other transfers.               *)
Nearby(c, t) ==
  LET W == Mirror \ c.req[t].avoid
  IN  IF c.vg = "opening" THEN {<<Min(W), Min(W)>>}
      ELSE {<<x, x>> : x \in W} \cup {<<x, Max(W)>> : x \in W}

hd_nearby(c, t, near) ==
  [hd_begin([c EXCEPT !.req[t].done = {near[1]}], t, near[2]) EXCEPT !.req[t].mirror = near[1]]

(* Mutant: nobody ends a write that every copy has refused at once.          *)
ParallelWrite_NoEnd(c, t) ==
  LET W == Mirror \ c.req[t].avoid
      B == W \cap Broken(c)
      R == {x \in W \ B : <<x, t>> \in c.refuse}
  IN  IF W = B THEN Failed(c, t)
      ELSE [c EXCEPT !.req[t].st = "disk", !.req[t].on = W \ (B \cup R), !.req[t].bad = B \cup R]

(* The copies of a parallel write: broken, refused at once, and with a disk. *)
(* One pass over the ring of physical requests: when all that were begun     *)
(* have been refused and the last is broken, nothing is left of the ring,    *)
(* and nobody ends the request.                                             *)
ParallelWrite(c, t) ==
  LET W == Mirror \ c.req[t].avoid
      B == W \cap Broken(c)
      R == {x \in W \ B : <<x, t>> \in c.refuse}
      d == [c EXCEPT !.req[t] = [c.req[t] EXCEPT !.st = "disk", !.on = W \ (B \cup R), !.bad = B \cup R]]
  IN  IF W = B THEN Failed(c, t)
      ELSE IF W # B \cup R \/ Max(W) \in B THEN d
      ELSE Written([d EXCEPT !.req[t].err = TRUE], t)

(* hd_sequential and hd_parallel.                                           *)
hd_schedule(t, near) ==
  LET r == m.req[t]
      c == hd_avoid(m, t)
      write == r.op = "write"
      nearby == ~write /\ m.i_sched \in NearbyReads
      parallel == write /\ m.i_sched \in ParallelWrites
      sched == IF r.op = "read" THEN "hd_mirread" ELSE IF ~write THEN "hd_resyncpp"
               ELSE IF parallel THEN "hd_parwrite" ELSE "hd_seqwrite"
      d == [c EXCEPT !.req[t] = [c.req[t] EXCEPT !.sched = sched, !.rd = ~write]]
  IN  /\ r.st = "pending"
      /\ IF c.req[t].avoid = Mirror THEN near = <<0, 0>> /\ m' = Failed(c, t)
         ELSE IF nearby THEN near \in Nearby(c, t) /\ m' \in Settled(hd_nearby(d, t, near), t)
         ELSE /\ near = <<0, 0>>
              /\ IF parallel THEN m' = ParallelWrite(d, t)
                 ELSE IF Usable(d, t) = {} THEN m' = Failed(d, t)
                 ELSE m' \in Settled(hd_seqnext(d, t), t)
      /\ UNCHANGED <<val, missing, count>>
-----------------------------------------------------------------------------
(* A request comes in.  syncvg resynchronises the track groups of a          *)
(* partition one after the other from the first; it may stop anywhere.       *)
(* hd_mwc_fprec recovers track groups while the volume group is varied on,   *)
(* and nothing else runs; syncvg with its force flag, at any time.           *)
hd_strategy(t, op) ==
  LET data == Max({m.acked[t]} \cup {val[x][t] : x \in Mirror}) + 1
      r == [NoReq EXCEPT !.op = op, !.st = "pending", !.data = IF op = "write" THEN data ELSE 0]
      d == [m EXCEPT !.req[t] = r]
  IN  /\ m.req[t].st = "returned" /\ ~m.off /\ count.issue < MaxIssue
      /\ op \in {"RESYNC_OP", "MWC_RCV_OP"} => ~Syncing(m)
      /\ m.vg \in IF op = "MWC_RCV_OP" THEN {"opening", "forced_sync"} ELSE {"open", "forced_sync"}
      /\ CASE op \in {"read", "write"} -> m' = d
           [] op = "MWC_RCV_OP" -> m' = [d EXCEPT !.next = 0]
           [] op = "RESYNC_OP" ->
                /\ t \in {0, m.next} /\ ~m.rip
                /\ m' = IF t = m.sync_trk THEN [d EXCEPT !.rip = TRUE]
                        ELSE IF t = 0 THEN [d EXCEPT !.rip = TRUE, !.syncerr = {}, !.sync_trk = 0]
                        ELSE [m EXCEPT !.next = 0]
      /\ count' = [count EXCEPT !.issue = @ + 1]
      /\ UNCHANGED <<val, missing>>

(* A disk has ended the transfer to or from a mirror.                       *)
hd_end(t, mirror, err, media) ==
  LET r == m.req[t]
      d == [m EXCEPT !.req[t] = [r EXCEPT !.err = err, !.tried = IF r.op = "read" THEN @ \cup {mirror} ELSE @,
                                          !.data = IF r.rd /\ ~err THEN val[mirror][t] ELSE @]]
  IN  /\ mirror \in r.on
      /\ media => err /\ r.op = "read"
      /\ err => count.err < MaxErr /\ Fault
      /\ count' = IF err THEN [count EXCEPT !.err = @ + 1] ELSE count
      /\ val' = IF r.rd \/ val[mirror][t] = r.data THEN val
                ELSE [val EXCEPT ![mirror][t] = IF err THEN -mirror ELSE r.data]
      /\ \E c \in {HD_SCHED(d, t, mirror, media)} : m' \in Settled(c, t)
      /\ UNCHANGED missing

TransferEnds(t) == \E mirror \in m.req[t].on, err \in BOOLEAN, media \in BOOLEAN : hd_end(t, mirror, err, media)

(* The wheel returns a request, with an error when the group is forced off.  *)
hd_sa_rtn(t) ==
  LET d == [m EXCEPT !.req[t].err = @ \/ m.off]
  IN  /\ m.req[t].st = "wheel"
      /\ m' = IF m.req[t].sched = "hd_staleppe" THEN hd_staleppe(d, t) ELSE hd_finished(d, t)
      /\ UNCHANGED <<val, missing, count>>

SETSA_PVMISS(mirror) ==
  /\ mirror \notin missing /\ count.missing < MaxMissing /\ Fault
  /\ missing' = missing \cup {mirror}
  /\ count' = [count EXCEPT !.missing = @ + 1]
  /\ UNCHANGED <<m, val>>

(* The disk comes back with what is on it.                                  *)
hd_kaddpv(mirror) ==
  /\ mirror \in missing
  /\ missing' = missing \ {mirror}
  /\ UNCHANGED <<m, val, count>>

ForceOff ==
  /\ ~m.off /\ count.off < MaxOff /\ Fault
  /\ m' = [m EXCEPT !.off = TRUE]
  /\ count' = [count EXCEPT !.off = @ + 1]
  /\ UNCHANGED <<val, missing>>

(* After the recovery of the track groups the group is open.               *)
hd_ksetupvg ==
  /\ m.vg = "opening" /\ \A t \in Trk : m.req[t].st = "returned"
  /\ m' = [m EXCEPT !.vg = "open"]
  /\ UNCHANGED <<val, missing, count>>

(* A crash may have left a track group with a different mixture on each copy. *)
Init ==
  /\ \E vg \in {"opening", "forced_sync"}, stale \in {{}, {NMir}} \ {Mirror}, lv \in Volumes :
     \E torn \in {{}} \cup (IF vg = "opening" THEN {{0}} ELSE {}) :
       /\ m \in [stale : {stale}, chging : {{}}, syncerr : {{}}, sync_trk : {NO_SYNCTRK}, sync_msk : {{}},
                 rip : {FALSE}, req : {[t \in Trk |-> NoReq]}, i_sched : {lv[1]},
                 nobbrel : {lv[2] # {}}, refuse : {lv[2]}, vg : {vg}, off : {FALSE},
                 acked : {[t \in Trk |-> IF t \in torn THEN Unknown ELSE 0]}, torn : {torn}, next : {0}]
       /\ val = [x \in Mirror |-> [t \in Trk |-> IF x \in stale \/ t \in torn THEN -x ELSE 0]]
  /\ missing = {}
  /\ count = [issue |-> 0, err |-> 0, missing |-> 0, off |-> 0]

Scheduled(t) == \E near \in (Mirror \X Mirror) \cup {<<0, 0>>} : hd_schedule(t, near)
Served(t) == Scheduled(t) \/ TransferEnds(t) \/ hd_sa_rtn(t)

Next ==
  \/ \E t \in Trk, op \in {"read", "write", "RESYNC_OP", "MWC_RCV_OP"} : hd_strategy(t, op)
  \/ \E t \in Trk : Served(t)
  \/ \E mirror \in Mirror : SETSA_PVMISS(mirror) \/ hd_kaddpv(mirror)
  \/ ForceOff \/ hd_ksetupvg

Spec == Init /\ [][Next]_vars
-----------------------------------------------------------------------------
Returned(t, op) == m.req[t].op = op /\ m.req[t].st = "returned"
Fresh == Mirror \ m.stale

(* The flags of the partition fit together; a request is in a known place.  *)
TypeOK ==
  /\ m.stale \subseteq Mirror /\ m.syncerr \subseteq Mirror /\ m.chging \subseteq m.stale
  /\ m.sync_trk \in Trk \cup {NO_SYNCTRK}
  /\ m.rip => m.sync_trk # NO_SYNCTRK
  /\ \A t \in Trk : m.req[t].st \in {"returned", "pending", "disk", "wheel"}

(* hd_stalepp always leaves one copy of the partition active, whatever        *)
(* requests have failed on which copies and whichever marks first: unless    *)
(* syncvg forces a recovery beside other requests.                          *)
OneStaysFresh == m.vg = "forced_sync" \/ Fresh # {}

(* A read that succeeds returns the last acknowledged data, whichever copy it *)
(* was sent to, with writes, failures and a resynchronisation around it.     *)
ReadsCurrent ==
  \A t \in Trk : Returned(t, "read") /\ ~m.req[t].err /\ m.acked[t] # Unknown => m.req[t].data = m.acked[t]

(* Copies that pass for good hold the same data, the acknowledged one, in     *)
(* every track group without a request: also a partition that hd_freshpp has *)
(* made active although writes went on during the resynchronisation and      *)
(* failed behind it, and a track group recovered after a crash.              *)
FreshAgree ==
  \A t \in Trk \ m.torn : m.req[t].st = "returned" =>
    /\ \A x, y \in Fresh : val[x][t] = val[y][t]
    /\ m.acked[t] # Unknown => \A x \in Fresh : val[x][t] = m.acked[t]

(* Reads fail only after every copy that they need not avoid has been tried: *)
(* "it will be skipped in the event the operation fails and hd_mirread() has *)
(* to retry somewhere else" (hd_sched.c:1918).                               *)
TriesAll == \A t \in Trk : Returned(t, "read") /\ m.req[t].err => Mirror \ m.req[t].avoid \subseteq m.req[t].tried

(* The same for the policies that read in the order of the mirrors.          *)
ReadTriesAll == m.i_sched \notin NearbyReads => TriesAll

(* A request that has left the pending queue is with a disk or on the wheel: *)
(* whoever ends its last transfer continues it or returns it, also when       *)
(* transfers end in the call that begins them.  Not if hd_parallel begins with *)
(* a copy that is refused and ends with one that is broken.                  *)
NobodyForgotten ==
  (m.i_sched \in ParallelWrites => m.refuse \subseteq {NMir} \X Trk) =>
     \A t \in Trk : m.req[t].st = "disk" => m.req[t].on # {}
=============================================================================
