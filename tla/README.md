# The logical volume device driver (LVDD) of AIX 4.1.3: specifications

The repository is a whole operating system: 30,048 files, most of them commands,
libraries, fonts, diagnostics and device drivers. This project specifies the
logical volume device driver, `src/bos/kernext/lvm` (15,500 lines of C), one of
the parts where the behaviour is hardest to see in the code: it serializes
requests, mirrors them on several disks, keeps on every disk a record of which
copies are stale, and does all of this from system calls, interrupt handlers
and configuration processes at once. Losing the right order means wrong data on
a mirror, sometimes only after the next crash.

Contents: [1 components](#1-inventory), [2 the modules](#2-the-modules),
[3 runs](#3-runs-bounds-and-what-they-show), [4 fairness](#4-fairness),
[5 proofs](#5-proofs), [6 disagreements](#6-where-code-and-comments-disagree),
[7 what is left out](#7-what-is-not-modelled),
[8 what could be added](#8-what-could-be-added).

## 1 Inventory

A **logical volume** (LV) is divided into track groups of 128K, each of 32 pages
of 4K. Its logical partitions are mapped to **physical partitions** on the
physical volumes (PVs, disks) of its **volume group** (VG), up to three for each:
its mirrors. A request (`struct buf`, "logical buffer") becomes one or more
transfers (`struct pbuf`, "physical buffer").

| component | state | operations | interacts with |
|---|---|---|---|
| strategy layer, `hd_strat.c` | `work_Q` hash chains, `ELBBLOCKED`, `pending_Q`, `complcnt`, `lv_status` | `hd_strategy`, `hd_initiate`, `serialize_data_access`, `hd_terminate`, `hd_unblock`, `hd_quiet` | called by open files and by the end of transfers; feeds the scheduler |
| mirror scheduling, `hd_sched.c` | `pb_mirbad`, `pb_mirdone`, `part.ppstate`, `xfcnt`, pool of pbufs | `hd_schedule`, `hd_regular`, `hd_sequential`, `hd_parallel`, `hd_nearby`, `hd_avoid`, `hd_mirread`, `hd_fixup`, `hd_resyncpp`, `hd_freshpp`, `hd_stalepp`, `hd_staleppe`, `hd_finished` | submits to the wheel; waits on the MWC cache; hands pbufs to the physical layer |
| striping, end of `hd_sched.c` | the ring of the pieces of a request (`stripe_next`, `stripe_status`, `partial_stripe`), `b_resid`, pool of pbufs | `hd_stripe`, `hd_stripe_xlate`, `hd_stripe_done`, `build_stripe_ready_list` | called by `hd_schedule`; continued by `hd_resume` behind bad blocks |
| VGSA wheel, `hd_vgsa.c` | memory image of the VGSA, `sa_hld_lst`, `sa_act_lst`, `wheel_idx`, `whl_seq_num`, `SA_WHL_ACT/HLD`, `quorum_cnt`, `VG_FORCEDOFF` | `hd_sa_strt`, `hd_sa_cont`, `hd_sa_whladv`, `hd_sa_iodone`, `hd_sa_rtn`, `hd_sa_config`, `hd_sa_onerev` | called by scheduler, MWC cache and configuration; writes the disks; calls `pb_sched` back |
| MWC cache, `hd_mircach.c` | LRU list, hash queues, hold queues, `CA_*` flags | `hd_ca_ckcach`, `hd_ca_wrt`, `hd_ca_wend`, `hd_ca_end`, `hd_ca_term`, `hd_ca_clnup` | holds mirrored writes until their track group is recorded |
| physical layer, `hd_phys.c` | `ready_list`, `xfcnt` | `hd_begin`, `hd_end`, `hd_resume`, `hd_start` | disk drivers through `devstrat`, `iodone` |
| I/O completion, `kernel/ios/bio_pin.c` | per-processor `iodonelist`, `B_MORE_DONE` | `iodone`, `iodone_offl` | runs `hd_end` off level |
| bad blocks, `hd_bbrel.c`, `hd_bbdir.c` | defect table, relocation state of a block, `bb_hld` queue, directory on disk | `hd_badblk`, `hd_baddone`, `hd_swreloc`, `hd_upd_bbdir`, `hd_bbdirop` | kernel process `hd_kproc`; holds requests |
| open/close, `hd_top.c` | open counts, `hd_freebuf`, MWC memory | `hd_open`, `hd_close`, `hd_allocpbuf`, `hd_backout` | `vg_lock`; `hd_quiet` |
| configuration, `hd_cfglv.c`, `hd_cfgpv.c`, `hd_cfgvg.c` | `volgrp`, `lvol`, `pvol`, `part` structures | `HD_K*` system calls | `hd_sa_config` |
| dump, `hd_dump.c` | none shared | `hd_dump` | runs alone |
| `liblvm`, commands | descriptor and status areas, MWC record and bad-block directory on disk | varyon with the choice of the newest MWC record and the repair of the directory; extend, reduce, `syncvg` | configuration calls, `RESYNC_OP` and `MWC_RCV_OP` reads |

**Locks.** `glb_sched_intlock` protects the queues of all VGs. `sa_intlock` of a VG
is what `hd_sa_iodone()` holds; the callers of `hd_sa_strt()` hold the former.
`vg_lock` keeps out a second open, close or configuration call of a VG.

**What is hard.** Completions come in any order, on any processor, and several at
a time; they restart what waits in queues of four kinds. Conflicting requests
have different extents, so that a chain of waiting ones is no simple queue. The
VG may be forced off by the loss of its quorum in the middle of a scan. A wheel
of writes goes round while the image that it writes changes, disks fail, are
removed and come back, and processes stop it to change its spokes. The system
can crash between two of those writes.

**What makes the parts correct.**
- strategy: requests for common data are served one at a time in arrival order;
  every request comes back; a close finds nothing outstanding;
- wheel: what was handed back as recorded is on every copy of the VGSA; a stopped
  wheel has the newest image everywhere; every request comes back; whoever takes
  the wheel gives it back;
- scheduling: a read never returns stale data and fails only when every copy has, a
  write ends when its last copy has, copies that pass for good agree, one stays good;
- MWC cache: no mirrored write is under way on a track group that the cache on
  disk does not name; a copy that missed an acknowledged write is recorded as stale
  before; after a crash no two good copies differ; every held request is released;
- bad blocks: what was acknowledged is where the next request goes, also after a crash
  between two writes of the directory; requests held meanwhile go on;
- striping: each block goes to its place, and the result is that of the first piece that failed;
- open/close: counts and resources agree after any mixture of successes and failures.

## 2 The modules

| module | what it is |
|---|---|
| `LvSerial` | the abstract promise to a user of logical volumes |
| `HdStrat` | strategy layer, non-mirrored scheduling, end of transfers, `hd_quiet` |
| `HdSched` | mirrored scheduling: reads, writes, recovery and resynchronisation of the copies of a partition |
| `HdStripe` | striped scheduling, with `hd_end`, `hd_resume` and the cuts at bad blocks |
| `HdMirCach` | MWC cache, the parallel writes that go through it, clean-up, crash and varyon |
| `HdBadBlk` | bad-block relocation and the directory of two copies, crash and varyon |
| `HdVgsa` | the VGSA wheel |
| `DataLemmas` | lemmas about least and greatest elements and induction over an interval |
| `HdStratProofs`, `HdSchedProofs`, `HdMirCachProofs`, `HdMirCachLog`, `HdBadBlkProofs`, `HdStripeProofs`, `HdVgsaProofs` | proofs |
| `MCHdStrat`, `MCHdSched`, ... | symmetry sets and model values for TLC |

Each module is one layer, and stands for the others by what they may do to it:
`HdSched` has a wheel that returns requests after a while, `HdMirCach` a scheduler that
issues parallel writes, `HdStripe` a disk that moves some of the blocks. A mutant of a
definition (an operator marked "Mutant", next to it) changes it the way a plausible
bug would.

### HdStrat

One action per critical section, and inside the long ones one per iteration:
`lock` says what the holder of `glb_sched_intlock` is doing, so that the flag
`VG_FORCEDOFF`, which is set under another lock, can change in between.

| code | specification |
|---|---|
| `hd_strategy` with its list of requests | `hd_strategy`, then `hd_initiate` for each, `Initiated` |
| `validate_req`, `serialize_data_access` | the two outcomes of `hd_initiate`; `Chain`, `Conflicts` |
| order on a hash chain (`av_back`) | `older[r]`: the requests in front of `r` |
| `hd_schedule`, `hd_regular`, `REQ_VGSA` aside | `Refuse`, `Begin`, `Scheduled` |
| `hd_terminate`, `hd_unblock`, `hd_quelb` | `hd_terminate(r, pq)`, a part of `Refuse` and `hd_end` |
| `iodone`, `NEXT_FROM_IODONELIST`, `iodone_offl` | `iodone`, `B_MORE_DONE`, `hd_end`, `OtherDone` |
| `hd_open`, `hd_close`, the drain of `HD_KREDUCE` | `hd_open`, `hd_close`, `Drain`, `hd_quiet`, `QuietWakes` |

`hd_terminate` scans the blocked requests behind the one that ended; which of them
see `VG_FORCEDOFF` is a choice (`refused`), because the flag may be set during the
scan: the ones after the first refused are refused too. Completed requests are
reordered by nothing but the order of `hd_quelb`, which is `ChainOrders`.

Abstractions. A request has a volume, a track group and a set of pages (`b_work`); the
splitting of larger requests is not modelled. Requests that are `B_INFLIGHT` and
those that come later are told apart by `inflight`. `hd_freebuf` is a number.
Whether a transfer had an error does not matter here. `hd_open` may be refused by
the quorum flag only.

The abstract promise `LvSerial` has requests, pieces of data, and four steps:
accept behind those with common data, serve when nothing is ahead, return, go
off. A request that was not served is turned away only when the group goes off or
when nothing is ahead of it. `HdStrat` maps data to pages, `ahead` to the older
requests of the chain with common pages, `busy` to `started`.

### HdSched

One logical partition of `NMir` copies, each on its own disk; a mask of mirrors is a
set. `m` is what the driver has in memory: the flags of the copies (`stale`, `chging`, `syncerr`), the
partition's `sync_trk`, `sync_msk` and `PP_RIP`, and the request of each track group with its
physical request. A request is `"pending"`, with a `"disk"`, on the `"wheel"`
or `"returned"`. The data of a track group is the number of the write it comes
from, and a write that fails leaves something that belongs to no write; `val` is what is on the
disks, `m.acked` what the callers were last told.

| code | specification |
|---|---|
| `hd_sequential`, `hd_parallel`, `hd_avoid`, `hd_nearby` | `hd_schedule(t, near)`, `hd_avoid`, `Nearby`, `hd_nearby`, `ParallelWrite` |
| `hd_seqnext`, `hd_seqwrite`, `hd_parwrite` | the same names; `Usable`, `Broken`, `Written` |
| `hd_mirread`, `hd_fixup` | the same names |
| `hd_resyncpp` | `SyncRead`, `SyncWritten` |
| `hd_stalepp`, `hd_staleppe`, `hd_freshpp`, `hd_finished` | the same names; `Marked` |
| `pb_sched` through `HD_SCHED` | `HD_SCHED(c, t, mirror, media)` |
| `hd_begin` that calls `HD_SCHED` at once when `hd_chkblk` refuses | `Settled`: as often as it happens; `Refused` once |
| `validate_resync_req`, `lvm_synclp`, `hd_mwc_fprec` as callers | `hd_strategy(t, op)` |

Abstractions. There is one request at a time for each track group (`HdStrat`). The group is
`"opening"` (varyon, recovery reads only), `"open"`, or `"forced_sync"` (`syncvg -f` issues
recovery reads beside other requests). Resynchronisation and recovery of a partition are not
issued together, since `lvm_synclp` issues one read after the other. The wheel returns
requests in any order, an error if the group is off. `X_AVOID`, `PP_REDUCING`, the pool of
pbufs and the cache are left out (the last two are in `HdStrat` and `HdMirCach`). `hd_nearby`
takes the distances of the disks from the counts of their transfers: which mirror it selects is
a choice.

### HdStripe

| code | specification |
|---|---|
| `hd_strategy` for a striped volume: requests that overlap are kept apart; `serial`: reads into a buffer that is not aligned | `hd_strategy(q, e, serial)` |
| `hd_schedule`, its loop over `pending_Q` | `hd_schedule(c)`, a fold |
| `hd_stripe` with `build_stripe_ready_list` | `hd_stripe(c, q)`, `Cut`, `Piece`, `Start` |
| `hd_stripe_xlate` | the same name |
| `hd_chkblk`, `hd_end`, `hd_resume` | `hd_chkblk(c, p)`, `hd_end(q, i, k, e)`: `k` blocks are moved, then success or the error number `e` |
| `hd_stripe_done`, `release_stripe_pbufs` | `hd_stripe_done(c, q)`, `Complete`, `FirstError` with its test `Seen`, `Rest` |

A block is the unit of requests, pieces, stripes and buffers. `moved` remembers which block
went to which place. The status of a piece, `partial_stripe` and `b_resid` are those of
the code. `b_error` of a piece is a number, since `hd_stripe_done` tests it with `& B_ERROR`: `Seen` is that bit.
A transfer ends with success or with one of `Errno`, the numbers that the disk drivers report; `lost` remembers the blocks behind an error
that was not seen, for the properties only. Relocation of a bad block is in `HdBadBlk`: here a piece is cut at a block
that has a structure, or refused (`LV_NOBBREL`).

### HdMirCach

| code | specification |
|---|---|
| `hd_parallel` and the pending queue behind it | `hd_strategy`, `hd_schedule`, `hd_parallel`; `lock` while the queue is served |
| `hd_ca_ckcach`, `hd_ca_use`, `hd_ca_new` | `IsHit`, `hd_ca_hit`, `hd_ca_miss`, `hd_ca_use`, `hd_ca_new` |
| `hd_ca_pvque`, `hd_ca_wrt`, `hd_ca_sked`, `hd_ca_wend`, `hd_ca_end` | `hd_ca_pvque`, `hd_ca_wrt`, `hd_ca_sked`, `hd_ca_wend`; `CacheWritten(p)`, `CacheFailed(p)`, `SaPvMissing(p)` |
| `hd_ca_term`, `hd_ca_mvhld` | the same names |
| `hd_ca_clnup`, its two sleeps | `hd_ca_clnup`, `CleanAwake`, `CleanWritten`; `Woken` |
| end of a parallel write, stale copies | `hd_parwrite(r, E)`, `hd_staleppe(r, M)`; `ActMir`, `Marked` |
| `lvm_vgsamwcc`, `lvm_update`, `lvm_mwcinfo` | `Varyon(F)` with the disks `F`; `Newest`, `DisasterPvs`, `AllButOne` |
| `hd_mwc_fprec`, `hd_disastrec`, the wheel after them | `hd_mwc_fprec(t, E)`, `hd_disastrec(t)`, `HD_MWC_REC` |
| `hd_kdis_initmwc`, the close that frees the cache | `hd_kdis_initmwc`, `Cleared` |

`g` holds the cache fields of the volume group and the queues; `ca_lst` is the LRU list. `disk`
is the record on each disk; it is written at the end of the cache write, with the memory
record of that moment, which is the same since `CA_INFLT` keeps it. `behind`, `differ` and
`torn` say what is true of the data: copies that lack an acknowledged write, that lack some
write, and track groups whose good copies may differ after a crash. A crash may come at every
moment, during the recovery too.

### HdBadBlk

| code | specification |
|---|---|
| `hd_chkblk` | the same name; `Place`, `Trap` (the states in which it panics or is lost) |
| `hd_badblk`, `hd_bbend`, `hd_baddone`, `hd_swreloc`, `hd_assignalt`, `hd_fndbbrel` | the same names |
| `hd_upd_bbdir`, `hd_bbdirop`, `hd_bbdirend`, `hd_bbdirdone`, `hd_chk_bbhld` | `hd_upd_bbdir`, `hd_bbdirop` and `DirectoryError`, `Written`, `hd_bbdirdone`, `Updated`, `NotUpdated`, `hd_chk_bbhld` |
| `hd_bbadd`, `hd_bbdel`, `hd_bbupd` | the same names, on sequences of entries; `Sorted`, `ChainEnd` |
| `lvm_rdbbdir`, `lvm_bbdsane`, `lvm_bldbblst` | the same names; `next_relblk` |

`m.tbl` is the defect table, `m.pb` the update of the directory under way, `m.hld` `bb_hld`. A
handler changes a record `c` and returns it; `Return` puts it in place together with `good[b]`, the
places that hold what was last acknowledged for block `b` or something newer: after a write
that has failed any place it went to. One disk; requests for one block, which
is how the driver issues them around a bad block, one at a time for each block. What varyon writes back to the
directory, which the code does in one call for all its blocks, is one step with the rest of `lvm_rdbbdir`: a crash within it is left out. A directory
transfer that fails or is cut off may have reached the disk or not.

### HdVgsa

`vg` is `struct volgrp` and what it points to: the wheel (`whl`: stopped, active,
held by a process), `wheel_idx`, `whl_seq_num`, the two lists, the memory image `vgsa`,
the states of the PVs and for each status area (SA) its sequence number `seq`, whether it
exists (`lsn`) and whether it is to be deleted (`nukesa`). An active request has the
list of those that hang on it by `av_back`. `disk` is what each SA holds on its disk: it
is written at the end of the write (`hd_sa_iodone`), with the memory image
of that moment, since the driver attaches the image to the transfer and copies nothing.
`ImageStable` says that it did not change meanwhile (unless the write failed and the SA is given up).

| code | specification |
|---|---|
| callers of the wheel: `hd_stalepp`, `hd_freshpp`, `hd_ca_wend` | actions of these names, with `ppstate` |
| `hd_sa_strt`, `hd_sa_cont`, `hd_sa_whladv`, `hd_sa_wrt`, `hd_sa_update`, `hd_sa_qrmchk` | operators on a working copy of `vg` |
| the scan of `hd_sa_cont` | `MoveHeld`, `Activate`, `Piggybacks`, `Apply` |
| the rest of `hd_sa_cont` | `ReturnAll`, `Roll` |
| end of an SA write | `hd_sa_iodone(error)` |
| `hd_sa_rtn`, `hd_staleppe` | `hd_sa_rtn`, which closes each action |
| `hd_sa_config` | `hd_sa_config` (the part before control, one operator per request type), `SleepForControl`, `TakeControl`, `WithControl`, `CheckDone`, `SleepForDone`, `WakeDone` |

A test and the sleep that follows it are two steps (`gosleep`, `gosleep2`), because
on a multiprocessor (`MP`) `hd_sa_iodone()` may run between them: it holds
`sa_intlock` and the process `glb_sched_intlock`. With `MP = FALSE` the process is
disabled to `INTIODONE` and the two steps are one for everybody else.

Abstractions. Stale bits are pairs of a logical partition and a mirror. What
`HD_KEXTEND` and `HD_KREDUCE` do to the partition tables is a choice of one bit,
`extpp`, in the image. `VG_NOQUORUM` is `quorum_cnt = 1`. `VG_OPENING` and the time
stamps are left out. The test of `VG_FORCEDOFF` at the entry of `hd_sa_config`, made
just before the lock is taken, is one step with it. `FastResync = FALSE` says that no
resynchronisation makes a copy fresh while a request that marks it stale is on the wheel. A write that fails
during the resynchronisation sets PP_SYNCERR (`hd_sched.c:1042–1050`), which keeps the copy from being made fresh; a request
from before it has been returned, when the resynchronisation takes longer than a revolution. A request of each
type keeps one physical buffer; a request with a buffer on the wheel submits no second.

## 3 Runs, bounds and what they show

Every passing run explores its instance completely.

| run | instance | what it shows |
|---|---|---|
| `strat` | 4 requests, 1 volume, 1 track group of 2 pages, 2 processors, 2 pbufs, lists of 2; 58,098 states up to symmetry | serial access, order, redriving of the pending queue, quiet closes |
| `strat_promise` | 3 requests, 1 volume, 2 track groups on one of 2 hash chains, 1 page, 1 processor, 1 pbuf; 30,442 states | the promise of `LvSerial` is kept; every request returns (with a single pbuf `B_MORE_DONE` is never set: of that `strat` speaks, in `Redriven`) |
| `sched` | 3 copies, 2 track groups, 2 volumes (sequential writes with reads by distance, parallel writes with sequential reads and a copy that `hd_chkblk` refuses), 3 requests, 2 faults among an I/O error, a missing disk and a loss of quorum, at most one of each; 1,584,091 states | one copy stays good, copies that pass for good agree, reads return acknowledged data and try every copy, no request is lost |
| `sched_nearby` | 2 copies, 2 errors | the disagreement of section 6 (expected violation of `TriesAll`) |
| `stripe` | 2 requests, 2 pbufs, width 2, 2 stripes of 2 blocks in a partition, 2 sets, 1 error (EIO or EBUSY), 1 missing disk, with and without a bad block; 55,222 states | every block at its place, the result is true but for a missed error, every request returns |
| `stripe_errno` | the same without bad blocks and missing disks | the disagreement of section 6 (expected violation of `ReturnedIsTrue`) |
| `mircach` | 2 buffers, 3 requests, 2 track groups in 2 partitions on 3 disks, of which 2 may fail, 1 cache entry, 1 clean-up, 2 crashes; 1,291,197 states up to symmetry | safety of the cache through crashes and varyons |
| `mircach_live` | the same with 1 disk that fails and comes back, no crash; 57,795 states | every write returns |
| `badblk` | 2 buffers, 3 requests, 2 blocks, a pool of 2, a directory of 2 entries, 5 errors, 2 crashes; 367,213 states | what was acknowledged is found, before and after restarts; the directory; every request returns |
| `wheel` | 2 PVs with 2 and 1 SAs, both may fail, 2 requests, 2 mirrors, 11 sequence numbers; 455,235 states | safety and liveness of the wheel without configuration, down to the loss of quorum |
| `wheel_config` | 1 PV with 1 SA and a free slot, 1 request, adding SAs and PVs, extending and `HD_MWC_REC`, multiprocessor; 2,409,608 states up to symmetry | the allocation that is reported as done is recorded; no image changes under a write |
| `wheel_pv` | 2 PVs with 1 SA each, both may fail, cache write failures, all requests that take SAs or PVs away, extending and reducing, one processor, 7 sequence numbers; 1,141,840 states | a wheel that stops by itself strands nobody, so that a release restarts what queued up behind a hold; every configuration request returns, unless the quorum is lost or an earlier request has left the wheel on hold |

Why the bounds are enough for these questions. Blocking is a relation between pairs
of requests on a chain; four requests on two pages give a request that waits for two
others with different extents, one that is behind a waiting one, and one that is
independent. With two pbufs and two processors two completions are under
way at once, and `B_MORE_DONE` is set for one and not the other. On the wheel three SAs
are the least with a request whose stop is passed neither first nor last; two
requests make one that hangs on another and one that follows it. 11 is the smallest
number of sequence numbers for two PVs that is covered by the theorems (`Wide`), so that the run `wheel`
is an instance of them; `wheel_config` and `wheel_pv` have 7: more than there are SAs, which is what `HdVgsa` asks for. The number wraps
within a few changes of the image instead of after 65,536, and is still large enough that
an SA is not left behind by a whole cycle in one revolution.

Three copies are the most that the driver has; with two track groups a
resynchronisation has a part behind it and a part in front, and its two requests leave one
for a write between them. Two faults let a copy fail while another is out of reach,
which leaves the last. In the striped volume EIO stands for the numbers that `hd_stripe_done` sees, EBUSY for the others. In the cache one entry makes the second track group wait for the
first, and the two partitions share a disk and each has one of its own, so that a
record can be newer on one disk than on another; the second crash comes
during the recovery from the first. Five errors are what it takes to use up the two blocks of the pool:
the read that fails, the write that does, and the software relocations;
the third bad block, one of the pool among them, then finds the directory of two entries full (`BB_FULL`). In the striped volume
a request of four pieces needs twice the pool, starts and ends inside a stripe and
crosses a row; the second crosses two sets of partitions.

The deadlock check is off where the system may stop: a group that was
forced off (`wheel_config`, `wheel_pv`), the bound on requests reached (the runs of the other modules).

What the constants leave out, because section 6 shows it broken: `wheel` and the rest
have no partition resynchronised within a revolution (`FastResync`);
`wheel_config` and `wheel_pv` split the kinds of configuration requests, and
`wheel_pv` is for the uniprocessor, with `LeftHeld` and the loss of the quorum excepted from `ConfigReturns`; `mircach` has no disk that comes back (`MaxReturn`)
and one track group in each partition; `badblk` no request with `RORELOC`. The conditions in
the properties themselves (`~diverged`, `pvstate # "PV_RORELOC"`, `"forced_sync"`, the
refusals in `NobodyForgotten`, `NoPbufLeft`, `lost` in `ReturnedUpToMissed`) are of the same kind, and named there.

## 4 Fairness

`HdStrat`: weak fairness of the steps of the lock holder, who runs disabled and
without sleeping, and of the end of every started transfer (disks answer). Strong fairness
of the off-level handler of each processor and of the processes that wait in
`hd_quiet`: they compete for a simple lock that others take again and again, and
get it some time. New requests, opens, closes and the loss of quorum have no fairness.

`HdMirCach`: weak fairness of the scheduler (`hd_parallel`, `hd_schedule`), which runs
disabled; of the end of the cache write on each disk, with or without an error,
and of the wheel's answer to a failed one; of the end of each request's transfers and of
its way round the wheel; and of the process in `hd_ca_clnup` once it is woken. `HdBadBlk`
and `HdStripe`: weak fairness of the end of each request's transfers and of the
transfers of the directory, whatever their outcome. New requests, errors as such, crashes, varyons and
disks that come back have none.

`HdVgsa`: the SA write under way ends, and a configuration process that can run
does. Both are weak. There and in `HdBadBlk` weak fairness is written with the enabling conditions
spelled out (`SaWriteMayEnd`, `ConfigMayRun`, `UnderWay`, `Updating`), since evaluating ENABLED of such
large steps costs TLC most of its time. No request has to come.

`HdSched` has no fairness: that no request is lost is the safety property
`NobodyForgotten`, which says that somebody has it in hand.

## 5 Proofs

### Strategy layer

For any sets of requests, volumes, track groups, pages
and processors (requests finite), any size of the pool and of the hash table.

The inductive invariant `IInv` is: the types; `Chains` (the older ones of a
request are a strict order on its chain); `BlockedByOlder`; `OnePlace`;
`FinishedOnce` (a buffer is on one `iodonelist`, once); `ComplcntCounts`;
`PbufsAccounted`; `Closing` (an LV is closing exactly while `hd_close` waits, and all its
requests are then marked); `ClosedIsQuiet`; `Redriven`. None of the last is
inductive alone. `SerialAccess` follows since of two unblocked requests for a
page one is older, so that the other would be blocked. That the chain is an order
is needed for the step of `hd_terminate` that unblocks: the requests still in
front are the old ones without those gone. `ClosedIsQuiet` needs the count
(`complcnt = 0` means no marked request) and `Closing` (no unmarked one).

| theorem | states |
|---|---|
| `Invariance` | `Spec => []IInv` |
| `TypesCorrect`, `SerialAccessHolds`, `BlockedByOlderHolds`, `ClosedIsQuietHolds`, `RedrivenHolds`, `OnePlaceHolds`, `ComplcntCountsHolds` | the invariants of these names |
| `QuietIsQuietHolds` | the action property: `hd_quiet` returns when the requests it marked are done |
| `KeepsPromise` | `Spec => Promise!Spec` |

They are laid out as one lemma per action; what `hd_terminate` does to each part
of the invariant is shown once and used for `Refuse` and `hd_end`. The assumptions are
those of `HdStrat`: a pool that is not empty, track numbers that are natural, finitely many requests.

### Mirrored scheduling

`HdSchedProofs` proves every invariant that the run `sched` checks, for any number of mirrors and track groups,
any policies and refusals, any data, and without the bounds on requests and faults. The only assumption used
is that of `HdSched` (at least one mirror and one track group).

| theorem | states |
|---|---|
| `HdSchedIInv` | `Spec => []IInv` |
| `HdSchedOneStaysFresh`, `HdSchedReadsCurrent`, `HdSchedFreshAgree`, `HdSchedReadTriesAll`, `HdSchedNobodyForgotten`, `HdSchedTypeOK` | the invariants of these names |

None of the six is inductive: each speaks of a moment when a request is back, and what makes it true is the
masks of requests that are under way. `IInv` therefore says of each request where the good data of its track
group is, by the place it is at (`IReturned`, `IPending`, `IWheel`, `IDisk`, and for the latter `IWrite`, `IRead`,
`IResync`, `IRecover`). The copies that must hold the data are `Good(c, t)`: the fresh ones and, behind a resynchronisation,
those that it has brought up to date, whose PP_STALE is still on. A write has put its data on every good copy but
those in its mask of bad ones and those it has still to end on; a read, a resynchronisation or a recovery reads a copy of
`Source(c, t)`, on which the acknowledged data is; a resynchronisation has the rest of the stale copies, but
those with PP_SYNCERR, in its masks, so that `hd_freshpp` makes no other fresh. `IGlobal` has what the requests share: one
resynchronisation at a time, nothing but recovery while the group is varied on, one copy that stays active. `Chg`
says why a copy is marked as changing: a request waits on the wheel for it, at a track
group that a resynchronisation has not passed, unless the copy has failed again since; without it
`hd_freshpp` could make a copy fresh while it is changing, and `TypeOK` would not hold.

A handler works on the request of one track group. `Ends(c, d, V, t)` says that it ends well: the types, that
request's part of the invariant, and a frame: for the others at most fewer copies have become good and more stale
(`Outside`). `SeenKept` shows once that this preserves what the invariant says of another request. There is a lemma for each handler of the code, from `hd_finished` and `hd_stalepp` up
to `HD_SCHED`; `FromSame` and `FromFrame` compose them as the handlers call each other. How
often `hd_begin` meets a refused block and calls back is not bounded in the proof by a count of cases: `SettledEnds`
is an induction over the recursive function in `Settled`, which is also shown to exist.

### Mirror write consistency

`HdMirCachProofs` and `HdMirCachLog`, for any requests, disks, track groups and layout of the mirrors, any size of the
cache, and without the bounds on requests, clean-ups, crashes and disks that come back. The assumptions are
those of `HdMirCach`: each partition has a mirror and its mirrors are on different disks (`CopiesAssumption`);
requests and disks are finitely many, a request finds enough `pv_wait` structures and
buffers when nobody else has any, a quorum is more than half of the disks (`SizeAssumption`); `NULL` is
neither a track group nor a request's record on the wheel (`ValueAssumption`).

| theorem | states |
|---|---|
| `HdMirCachInvariant` | `Spec => [](IInv /\ Ledger)` |
| `HdMirCachAckedOnFresh`, `HdMirCachHeldWillMove`, `HdMirCachTypeOK` | the invariants of these names |
| `HdMirCachLogInvariant` (in `HdMirCachLog`) | `Spec => [](IInv /\ Ledger /\ LogInv)` |
| `HdMirCachRecorded` (in `HdMirCachLog`) | `Spec => []Recorded` |
| `HdMirCachMirrorsAgree` (in `HdMirCachLog`) | `OneGroup` implies `Spec => []MirrorsAgree` |

`IInv` has four parts. `CacheInv` speaks of the cache: each request is in one place (`Places`: pending, held, on the
`ca_pv` lists, or with the disks); `iocnt` counts the cached requests of an entry and a track group has one entry
(`Tally`); `av_forw` and `ca_freepvw` count the places on the `ca_pv` lists (`Tickets`); the writes of the record
(`Flow`: `ca_inflt_cnt` counts the busy cache buffers, `CA_INFLT` is set while there are any, and never together with
`CA_VGACT`; a disk with requests on its list is being written or about to be); `Moves` is `HeldWillMove` while the scheduler runs.
Without `Tally` and `Flow` the return of a request under `CA_FULL` could leave the hold queue behind, since `hd_ca_term` moves it
only if an entry becomes free while no record is being written. `Control` relates the process in `hd_ca_clnup` and the phases of
a varyon to the flags; `Wheel` says that a copy is marked as changing only while a request that marked it is on the wheel;
`Recording` is `AckedOnFresh` with what makes it true: a copy is avoided by a write only when it is recorded
as stale, so that the mirrors left out of a write under way, and those that it found bad and did not mark, are on
record; during a recovery the memory knows at least what the disks do, and the record is cleared only when they agree.
`Ledger` are the counts and the type of `behind`. TLC checks `IInv` and `Ledger` under the constants of the run `mircach`, and with a
larger cache, three disks that may fail and one that comes back. It checked `LogInv` the same way.

There is a lemma for each routine of `hd_mircach.c` about a cache `c` and its result, for any set `B` of requests in write
and any set `D` of busy buffers (`Sound(c, B, D)`); those of the wake-up and of the clean-up are inductions over the list of
a disk and over the entries. The predicates `Leaves`, `Keeps`, `Steady` and `Follows` say what a routine leaves alone. The lemmas
named after the actions (`StrategyStep` to `CrashStep`) then put the four parts together.

`Recorded` says that a restart would find the track groups that are being written, whichever disks it finds. What is in
memory does not say it: an entry is not changing once the record has been written to the disks that had to have it, of
which some may have gone meanwhile, while later records have been written over it on some of the others, and the cache is reused.
`LogInv` therefore relates the cache to the disks. `Clocks`: a record on a disk is from before the
last crash or not later than that in memory. `Losses`: which disks need no record (`Lost`: those recorded as missing in the VGSAs and,
once a quorum has been lost, all that are missing), and that a disk is on its way to be recorded as missing whenever it is missing
and not in `Lost`. `Form`: entries that are not in use are at the end of the list, an entry that is changing has a write before
it or under way, and while the record is being written no track group enters the cache, so that the disks that have it already name what is in memory.
`Book`: the records say what the entries promise. For an entry that is not changing, for a request that waits for no disk, and for
one in write, the track group is `Named`: no record that is as new as the newest on the disks, or as that of a disk with a copy that is
not in `Lost`, lacks it. Said of records by their age it survives a record that is written to one disk, since that is newer and
has the track groups of the cache, and a varyon, which copies the newest of the records it finds. An entry that is
changing, and a request that waits, are instead to be named by the write under way: the disks with a copy that are not in `Lost`
have the record in memory, are being written or will be (`Logged`, for any set of such disks). That a newest record exists at all among the disks found
is by the well-founded order of the finite sets (`NewestIn`). The steps of the cache are again one lemma for each routine, for any set of
named track groups, and one for each action (`StrategyLog` to `CrashLog`). `Recorded` needs `count.return = 0`: a disk that comes
back is not written before its copies are (section 6).

`MirrorsAgree` says that the recovery is complete: no two copies of a track group that pass for good differ while the volume group is
on. The theorem has the hypothesis `OneGroup`, that a partition has one track group. It is needed: with two of them
the property fails, in the way told in section 6, because the stale state is kept for the partition and a copy that waits to be recorded as stale for one track group
lets a write of the other return. What holds for a volume group with larger partitions is `Recorded`. The constants of the run
`mircach` satisfy it. `MirInv` holds together with the other parts of the invariant, and TLC checked it under those constants too.
`SomeFresh`: each partition keeps a fresh copy, and memory has at least the marks
of the disks while the volume group is not off. `Lacking`: a copy that lacks a write is stale. `InFlight`: a write of several good copies is in the cache until
it returns, and one that failed on all of them leaves a single fresh copy.
`Mended`: a track group that a crash left with different copies either has one good copy by the VGSAs, or is
`Known`: it is `Named` by every record that a varyon may take for the newest, with whatever disks; and once the recovery has begun it has one good copy in memory, or
the recovery has it still to do. A crash turns `LogInv` and `InFlight` into `Mended` (`TornKnown`);
varyon keeps it whichever disks it finds (`NamedAfter`), and where no disk with a copy has a record that counts it leaves one fresh copy itself (`LeftOf`);
`hd_mwc_fprec` and `hd_disastrec` work off what is left, and the record is cleared only when that is done and on the disks. There is again a lemma for each action (`StrategyMir` to `CrashMir`).

### VGSA wheel

`HdVgsaProofs`, for any number of disks, requests, partitions and mirrors, on one processor or several, and without a
bound on what happens. The assumptions are those of `HdVgsa`: among them that a null pointer is neither a request
nor an image (`NullAssumption`) and that there are more numbers than SAs.

| theorem | states |
|---|---|
| `HdVgsaTypeOK` | the invariant of this name |
| `HdVgsaNobodyStranded`, `HdVgsaNewestIsCurrent`, `HdVgsaStoppedIsCurrent` | `Wide`, `NoNewDisk` imply the invariants of these names |
| `HdVgsaImageStable` | the action property of this name, without hypotheses |
| `HdVgsaStaleRecorded`, `HdVgsaConfigRecorded` | `Wide`, `SasStay`, `~FastResync` imply the invariants of these names |

`hd_sa_cont` stops the wheel on what it sees at one SA. That all requests have been returned then, that every SA with
the newest number has the newest image, and that every SA has it when the wheel stops, are facts about the whole revolution,
which none of the properties says by itself. The inductive invariant is `Base /\ Turn`. `Base` has the types, that a request is on one list, once (`Placed`),
where the request of the configuring process may be (`CfgPlace`), and that the wheel is active exactly while an SA is written
(`Flags`). `Turn` measures a revolution with the distance `Ahead` from the SA that is being written (`Landing`: in the middle of
a handler, where the wheel comes down next). The active requests are in the order in which the wheel reaches
their stops (`Ordered`), without which the head of the list could hide one whose stop is passed; no SA nearer than the last stop
has the newest number (`Outdated`), so that the wheel cannot stop before all are returned; and an SA is behind the
newest number by less than twice its distance behind the wheel (`Aged`): twice, because the number is
raised when a write fails and again when the wheel is restarted after it was held. So a new
number is the number of no SA, although it wraps, if the field is wide enough for two revolutions. And an SA that the wheel
reaches later than one with the newest number has it too (`Level`), so that the stop at the next SA speaks for all. The SAs that
a process on its way to control has already entered, but not had written, are the exception (`Outside`).

The hypotheses. `Wide` (`SEQNUMS > 2 * NSa + 2`): the driver has 2^16 numbers for at most 64 SAs. `NoNewDisk`: no
`HD_KADDPV`. It is needed: a disk is entered with the number 0, which may be the newest. For a disk that comes
back it stays so, and the wheel stops early (`NewPvWritten`, section 6); for a new one it is so only until the process has
control, which on a multiprocessor is long enough (TLC finds `NobodyStranded` violated with `MP = TRUE`). The other eight
requests, SAs that are added to a disk and taken from it among them, are covered.

The lemmas follow the calls of the code: what `Apply`, `Activate`, `MoveHeld`, `hd_sa_whladv`, `Roll`, `hd_sa_cont` and
`hd_sa_strt` do to a working copy that satisfies the invariant. `MoveHeld` is an induction over the hold list,
`hd_sa_whladv` rests on the least distance to a usable SA and the longest prefix of the active list whose stops are passed.
The steps are then those of the I/O handlers (`IoRequestOK`, `IodoneOK`) and of the configuring process (`ConfigOK`, `StepsOK`, `WithControlOK`).

The last two theorems say what is on the disks, and need a second invariant, `Recording`, on top of `Base /\ Turn`. That the copies which
`hd_stalepp` has handed back are marked everywhere (`OnDisks`) is not inductive: it says nothing of a request that is still on the
wheel, nor of what the next image takes away. `Written`: each SA that the wheel has passed since a request became active carries what that
asks for, and what any request that hangs on it asks for; so when `hd_sa_whladv` gets to the stop all SAs carry it (`Delivers`). `Bound`: a copy that is stale is marked in the memory image or by a request
on hold, and a request on hold that clears the mark comes before those that set it, none of which is active; so a write of an SA that carries a mark does not take it away. `Relies` is
the same for the configuring process. `Site`: the wheel stands at an SA that is there, or at the first one. Elsewhere the wheel would leave
it before the new requests have their stops, and by an old stop return them at once, which is the disagreement described
in section 6. `SasStay` is the condition that keeps it there: `HD_KADDVGSA`, `HD_MWC_REC`, `HD_KEXTEND` and `HD_KREDUCE`, but no request that
takes SAs or disks away, and `hd_ca_wend` only where no process takes the wheel over. SA writes may fail at any time. `~FastResync` is the
assumption about `hd_freshpp` (section 2): without it a stale request is answered by an older one, although the copy was made fresh in between.
The lemmas have the names of the first part with `Rec` for `OK`.

### Bad-block directory

`OneCopyWholeHolds` (`HdBadBlkProofs`): `Spec => []OneCopyWhole` (while relocation is on), for any blocks, pool, size of the
directory, requests and number of errors and crashes. The inductive invariant `WholeInv`
(`WholeInvariance`) is stronger: while relocation is on, every copy is whole but the one that the
update under way has left with UPDATE in its header (`Half`), which is determined by the step it
is at. It also carries as much of the shape of the memory as that needs (`IsMem`): the update is one of
five steps for some request, the held requests are a sequence. The handlers are shown to do
one of two things with the update: leave it or start one from its first step (`Starts`, also
transitively, since handlers call each other), or end it (`Ends`). The only assumption used is
`NullAssumption`: that the value for "no update" is none.

### Striped volumes

`HdStripeProofs` proves every invariant that the run `stripe` checks, for any layout, pool, requests, sets of
defects and missing disks, any error numbers, and without the bounds on requests and errors. The assumptions are those of `HdStripe`: no
dimension of the layout is zero (`StripeAssumption`), the pool is a number (`PbufAssumption`), errors are positive numbers (`ErrnoAssumption`), and a request lies in the volume and is not
empty (`ExtentAssumption`; `validate_req` has seen to that before `hd_stripe` is called).

| theorem | states |
|---|---|
| `XlateInPlace`, `OnePlaceEach`, `PieceInPlace` | the arithmetic of `hd_stripe_xlate` |
| `HdStripeMemOK` | `Spec => []IInv` |
| `HdStripeTypeOK`, `HdStripeInPlace`, `HdStripeReturnedUpToMissed` | the invariants of these names |
| `HdStripeReturnedIsTrue` | `\A e \in Errno : Seen(e)` implies the invariant of this name: the numbers that the test misses are the only reason against it |

The arithmetic: the layout `LogicalOf` leads back from the place of a logical block (`XlateInPlace`), so that two never share
one (`OnePlaceEach`); and counting on from the first block of a piece reaches the place of
each (`PieceInPlace`), which is what lets the driver translate only that. It rests on
lemmas about `\div` and `%` (`DivMod`, `DivUnique`, `DivDiv`), since the solver does not
do nonlinear arithmetic by itself.

None of the three invariants is inductive. `IInv` says of the driver's memory (`MemOK`): of every piece, that it ends at its
stripe or with the request, that what it has counted through is moved or `lost` (`Settled`), and that a disk works on it or it is done, to its end or
with an error (`PieceOK`); of a request with unfinished pieces, that these follow each other without a gap from the first block that
`b_resid` leaves to be moved (`Chained`); of `pending_Q`, that a request is on it once, and only without such
pieces, so that its ring of pieces may be overwritten; of the pool, that the buffers of unfinished pieces
are not more than are missing from it (`Buffers`: not equally many, since a failed translation loses some).
`Rest` takes the bytes of the last transfer of each piece off `b_resid`, of a piece that was split fewer than it has
moved: `RestBounds` is an induction over its sum, and shows that what is asked for again at most overlaps what is done.
`CutOK` shows that the pieces that `hd_stripe` cuts have no gap; `StripeDone`, `StripeKeeps`, `TurnKeeps` and
`ScheduleKeeps` follow the calls of the code, the last by induction over the queue; `StrategyKeeps` and `EndKeeps`
are the steps.

### Only model-checked

Liveness, which needs ENABLED. Of the safety properties of `HdBadBlk` those that no theorem above names;
and `ConfigRecorded` where a disk is entered (`HD_KADDPV`), which `SasStay` leaves out: `wheel_config` has it. The directory operations of `HdBadBlk` are folds over sequences; what they yield for every input takes an induction over data.
The induction theorems of the library
take an operator as a parameter, which the provers cannot instantiate, but the same is had from the
least element of a set of counterexamples: `IntervalInduction` of `DataLemmas`, which speaks of a set. These
properties are therefore open, not out of reach.

## 6 Where code and comments disagree

Two runs expect a violation.

`sched_nearby`: `hd_nearby()` reads another mirror than the one it
marks as selected, so that after an error the retry skips a copy that was not read and repeats the
one that has failed; two errors of one disk fail a read that a good copy could have answered
(`hd_sched.c:1976`; the comment at 1918–1919).

`stripe_errno`: `hd_stripe_done()` looks for a failed piece with `b_error & B_ERROR` (`hd_sched.c:2303`, 2309), which tests
the error number against the bit 0x0004 of `b_flags` (`bos/kernel/sys/buf.h:106`). EIO (5) and EMEDIA (110), which the driver itself
sets, have the bit. EBUSY (16), EFORMAT (48), ENODEV (19) and ENOCONNECT (50) have not; the first two are set
by the disk driver (`bos/kernext/disk/scdiskb.c:4511`, 4723 and 3403, 3632). A piece that fails with one of these is missed: the request ends
without an error and with `b_resid` 0, or goes on with the rest, though the blocks were not moved, and with two failed pieces
the error reported may be that of the higher address. The comment at 2257–2259 says that the error with the lowest address is returned. `ReturnedUpToMissed`
is what remains true: nothing else is reported as moved that was not.

The other counterexamples were met while the modules were written. No run repeats
them; the constants or conditions that leave them out are named so that each can be
seen again. All lines are of `src/bos/kernext/lvm` unless a path is given.

**Wheel.**
- `HD_KEXTEND` without a change may leave the wheel on hold (`rollwheel` is not
  initialised), and so does `HD_KREDUCE` with invalid arguments (`LeftHeld`, which `ConfigReturns` excepts: the next
  requests that find the wheel held wait for a release that does not come).
- `ForcedOffReturnsAll`: a loss of quorum while a process waits for control leaves the active
  requests on their list: `hd_vgsa.c:335–341` hands over control before the code at 584 returns
  them, although "all active requests are returned with errors" (291–292).
- `NoLostWakeup` with `MP = TRUE`: `B_DONE` is set under a lock that `hd_sa_onerev()` does not hold
  when it goes to sleep (1501).
- `StaleRecorded` with a request that takes status areas or disks away (`HD_KDELVGSA`, `HD_KMISSPV`, `HD_KREMPV`,
  `HD_KDELPV`, or `hd_ca_wend` while a process holds the wheel): `hd_sa_cont` leaves an SA that is no longer usable (603–607) before it sets the stops of the requests it has just
  taken in (609–612), so that `hd_sa_whladv` returns them by an old stop, recorded nowhere. After that the comment at
  `hd_sched.c:1053–1055` is not true. The request that takes the SAs away may itself be returned in this way, before a revolution
  is over. `ConfigRecorded` therefore says nothing of a PV that `HD_KMISSPV` or `HD_KREMPV` declares missing, and no run checks it with these.
- `ImageStable` without its last disjunct, with `HD_KDELVGSA`: the SA of one disk is marked for deletion, and the write of the only other
  SA fails. The quorum check still counts the marked SA, `hd_sa_whladv` finds none that is usable, and the failed one is written
  again. The volume group goes on without any status area, and the request returns without an error.
- `NewPvWritten` with `HD_KADDPV_again`, one request and 11 sequence numbers: the number of a disk that was missing is set in
  the caller's structure, after that was copied into the volume group (1022–1023, 1057–1060). It
  stays 0, and is not "a value that will make sure the VGSA on this new PV will be written" (1052–1053) when the
  revolution has the number 0 as well, one time in 65,536. The wheel then stops before it is written, with the requests of
  others and of the waiting process on its list.
- `NobodyStranded` with `HD_KADDPV` and `MP = TRUE`: a disk is entered with the number 0 before the process has control of the
  wheel (1017–1040).
- With `FastResync`, a stale request is answered by an older one although the mirror was fresh
  in between.

**Mirror write consistency.**
- `MirrorsAgree` with two track groups of one partition: a write fails on mirror 1, whose mark is
  on its way round the wheel; the write of another track group fails on mirror 2, which is then the last
  and is not marked, and returns at once (`hd_sched.c:1013`), though mirror 1 is not recorded
  yet. Its cache entry is reused; after a crash neither record nor VGSA names the track
  group, and its copies differ.
- `RecoveredAfterForcedOff`: a process that slept in `hd_ca_clnup` across the loss of the quorum
  writes a record without the track groups that "any recovery operation" needs (`hd_sched.c:882–885`).
- `UnchangingIsRecorded`: `hd_staleppe` turns PP_CHGING off also when the wheel has returned
  an error, after which the comment at `hd_sched.c:1053–1055` is not true.
- `NotChangingIsWritten` with `MaxReturn > 0`: a disk that becomes active again
  (`hd_cfgpv.c:177`) does not get the current record before copies on it are written.

**Mirror scheduling.**
- `OneStaysFresh` when syncvg forces a recovery beside other requests: a write fails on mirror 2
  after the disk of mirror 1 went missing under it, the recovery's read of mirror 2 avoids mirror 1, and when
  it fails, `hd_stalepp` finds no active mirror (`hd_sched.c:960–1018`, 567–585): every copy is stale.
- Together with the error of `hd_nearby`, MWC recovery does not write the copy that is marked
  as read and was not.
- `NobodyForgotten` with a refusal of another mirror than the last: `hd_parallel` begins a copy that
  `hd_chkblk` refuses, nothing is left of the ring when the last copy is broken, and nobody ends the request
  (1775–1817).
- By reading only: when such a recovery meets a suspended resynchronisation, `hd_stalepp` replaces `pb_mirbad`
  by the active mirrors (1024–1026), and a copy on a missing disk is not marked although the track group was
  recovered without it. As long as the copies agreed before, which `HdSchedFreshAgree` shows, this does no harm.
- By reading only: `sync_msk` is one for a partition, so that a recovery and a resynchronisation
  issued together would share it; `hd_mwc_fprec` keeps a byte offset in an `int` (`hd_cfgvg.c:814`).

**Bad blocks.**
- `InOrder`: two software relocations under way at once record their entries in the order in which they end, while
  `hd_bbadd` puts each at the end (`hd_bbdir.c:541`; "in the order of their relocation
  blocks", 401–402, 882–883); `lvm_bbdsane` (`liblvm/bbdirutl.c:366–371`) then refuses both copies.
- `RestartFinds` and `AckedIsFound` without `~diverged`: after a crash between the copies varyon finds
  both sane and leaves them different (`liblvm/bbdirutl.c:181`); when the primary cannot be read
  the next time, the old backup is used.
- `NoTrap` and `OneCopyWhole` without the condition on `PV_RORELOC`: with relocation off, a structure of a pool
  block is released while the chain to it stays (`hd_bbrel.c:757–775`).
- When the directory is full the structure of a block stays without an entry; a later hardware
  relocation then fails in `hd_bbdel` and turns relocation off.
- With ESOFT at `hd_bbend` the block is relocated and the request returns the error.

**Striping.**
- `PbufsReturned`: a translation that fails ends the request and keeps the buffers of its pieces
  (`hd_sched.c:2224–2231`; `hd_stripe_done` "returns all associated pbufs").

Of the hazards without a property in `PROJECT.json`, those that are not among these were found by reading
only: the clock of `hd_gettime` and the lock under which `hd_sa_rtn` enters the scheduler.

## 7 What is not modelled

- **Open and close**: allocation of pbufs, of the MWC memory and of the bad-block structures, nested
  open counts, and the back-out when one of them fails (`hd_top.c`). It is sequential code under
  `vg_lock`. The state of a volume that it leaves is in `HdStrat`.
- **Configuration, the structure side** (`hd_cfglv.c`, most of `hd_cfgpv.c` and `hd_cfgvg.c`): building and
  copying tables under `vg_lock`. What they do to the wheel, to disks and to the recovery
  is in `HdVgsa`, `HdMirCach` and `HdSched`. Memory that is freed while in use (`HD_KDELPV` with a
  write under way; `av_forw` of a returned buffer) does not show: the slot of the
  PV merely becomes empty.
- **Larger requests**: `split_req`; requests of several blocks in `HdBadBlk`. How a request is continued behind a
  bad block is in `HdStripe`.
- **Options**: `X_AVOID` reads, reads of a partition that is being reduced (`PP_REDUCING`).
- **Dump**: a translation of block numbers and polling I/O, alone in the system.
- **Compositions**: no module instantiates two layers together. What each assumes of the others is said
  in section 2; the states would multiply beyond what TLC can explore at sizes where
  something happens (each instance alone has 10^5 to 10^6).
- **The rest of the kernel** is the environment: `iodone` and the locks do what
  `bio_pin.c` and the lock services do. The rest of the repository, commands, libraries, other
  kernel extensions, data, is listed in `PROJECT.json` as not modelled: it has no part in the behaviour of
  the driver, and at thirty thousand files it is far larger than one specification.

## 8 What could be added

1. Theorems about the rest of `HdBadBlk`, and about what the wheel records when a disk is entered (`HD_KADDPV`).
2. An abstract wheel (a stale mark is set, then recorded on all) that `HdVgsa` refines, and `HdSched` and
   `HdMirCach` use; an abstract cache, a set of track groups that covers the writes under way.
3. `HdOpen`: nested counts and back-out of open and close with failures at each step.
4. `split_req` over `HdStrat`, and requests of several blocks in `HdBadBlk` with `hd_resume`.
