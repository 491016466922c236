---------------------------- MODULE HdSchedProofs ----------------------------
(***************************************************************************)
(* Proofs about the mirrored scheduling policies of HdSched, for any number *)
(* of mirrors and track groups, any policy and refusals, and any bounds.    *)
(*                                                                         *)
(* The invariant says of each request where the good data of its track      *)
(* group is while its transfers are under way.                              *)
(***************************************************************************)
EXTENDS HdSched, DataLemmas, FiniteSetTheorems, TLAPS

USE SchedAssumption

SyncOp == {"RESYNC_OP", "MWC_RCV_OP"}
Op == SyncOp \cup {"read", "write"}
Sched == {"hd_mirread", "hd_fixup", "hd_seqwrite", "hd_parwrite", "hd_resyncpp"}

ReqType ==
  [op : Op \cup {"none"}, st : {"returned", "pending", "disk", "wheel"},
   on : SUBSET Mirror, sched : Sched \cup {"none", "hd_staleppe", "hd_finished"}, rd : BOOLEAN,
   mirror : Mirror \cup {0}, done : SUBSET Mirror, bad : SUBSET Mirror, avoid : SUBSET Mirror,
   err : BOOLEAN, refused : BOOLEAN, data : Int, tried : SUBSET Mirror]

StateType ==
  [stale : SUBSET Mirror, chging : SUBSET Mirror, syncerr : SUBSET Mirror,
   sync_trk : Trk \cup {NO_SYNCTRK}, sync_msk : SUBSET Mirror, rip : BOOLEAN, req : [Trk -> ReqType],
   i_sched : {v[1] : v \in Volumes}, nobbrel : BOOLEAN, refuse : {v[2] : v \in Volumes},
   vg : {"opening", "open", "forced_sync"}, off : BOOLEAN, acked : [Trk -> Int], torn : SUBSET Trk,
   next : Trk]

ValType == [Mirror -> [Trk -> Int]]

(* The copies of track group t that must hold its data: the fresh ones, and  *)
(* behind a resynchronisation those that it has brought up to date.          *)
Good(c, t) == {x \in Mirror : x \notin c.stale \/ (t < c.sync_trk /\ x \notin c.syncerr)}

Alike(V, t, S) == \A x, y \in S : V[x][t] = V[y][t]
Hold(V, t, S, data) == \A x \in S : V[x][t] = data

(* The copies in S agree on the data acknowledged.                          *)
Current(c, V, t, S) == Alike(V, t, S) /\ (c.acked[t] # Unknown => Hold(V, t, S, c.acked[t]))
Clean(c, V, t) == t \notin c.torn => Current(c, V, t, Good(c, t))

(* Where a request other than a write may read.                             *)
Source(c, t) == Good(c, t) \cup (Mirror \ c.req[t].avoid)

(* The copies that a write has still to end on.                             *)
Todo(r) == r.on \cup (IF r.sched = "hd_parwrite" THEN {} ELSE Mirror \ r.done)

IReturned(c, V, t) ==
  LET r == c.req[t] IN
  /\ r.op \in {"none", "read"}
  /\ Clean(c, V, t)
  /\ r.op = "read" /\ ~r.err /\ c.acked[t] # Unknown => r.data = c.acked[t]
  /\ r.op = "read" /\ r.err /\ c.i_sched \notin NearbyReads => Mirror \ r.avoid \subseteq r.tried

IPending(c, V, t) ==
  LET r == c.req[t] IN
  /\ r.op \in Op /\ r.on = {} /\ r.done = {} /\ r.bad = {} /\ ~r.err /\ ~r.refused
  /\ r.op = "RESYNC_OP" => c.sync_trk = t
  /\ Clean(c, V, t)

IWheel(c, V, t) ==
  LET r == c.req[t] IN
  /\ r.op \in {"write"} \cup SyncOp
  /\ r.op = "write" => Alike(V, t, Good(c, t)) /\ (~r.err => Hold(V, t, Good(c, t), r.data))
  /\ r.op = "MWC_RCV_OP" /\ ~r.err => Alike(V, t, Good(c, t))
  /\ r.op # "write" => Clean(c, V, t)

(* Nobody is forgotten by hd_parallel on such a volume.                     *)
Spared(c) == c.i_sched \in ParallelWrites => c.refuse \subseteq {NMir} \X Trk

IWrite(c, V, t) ==
  LET r == c.req[t] IN
  /\ r.sched \in {"hd_seqwrite", "hd_parwrite"} /\ ~r.rd
  /\ Good(c, t) \cap r.avoid = {}
  /\ (r.bad \cup r.on) \cap r.avoid = {}
  /\ r.bad \cap r.on = {}
  /\ r.sched = "hd_seqwrite" => r.on = {r.mirror} /\ r.mirror \in r.done /\ r.bad \subseteq r.done
  /\ r.sched = "hd_parwrite" => ~r.refused /\ (Spared(c) => r.on # {})
  /\ Hold(V, t, Good(c, t) \ (r.bad \cup Todo(r)), r.data)

(* What reads, resynchronisations and recoveries have in common.            *)
IReads(c, V, t) ==
  LET r == c.req[t] IN
  /\ r.avoid # Mirror /\ r.mirror \in Mirror /\ \E x \in Mirror : r.on = {x}
  /\ r.rd => r.on \cap r.avoid = {} /\ r.mirror \notin r.avoid
  /\ t \notin c.torn =>
       Current(c, V, t, Source(c, t)) /\ (~r.rd => Hold(V, t, Source(c, t), r.data))

IRead(c, V, t) ==
  LET r == c.req[t] IN
  /\ r.sched = IF r.rd THEN "hd_mirread" ELSE "hd_fixup"
  /\ r.on \cap r.avoid = {}
  /\ r.bad \cap r.avoid = {}
  /\ r.rd /\ c.i_sched \notin NearbyReads => r.done \subseteq r.tried \cup r.on
  /\ IReads(c, V, t)

IResync(c, V, t) ==
  LET r == c.req[t]
      all == c.sync_msk \cup (IF r.rd THEN {} ELSE r.done)
  IN
  /\ r.sched = "hd_resyncpp"
  /\ c.sync_trk = t
  /\ all # {} /\ all \subseteq c.stale \cap r.avoid
  /\ c.stale \ c.syncerr \subseteq all
  /\ ~r.rd => r.on = {r.mirror} /\ r.mirror \in r.done /\ Hold(V, t, r.done \ (c.syncerr \cup r.on), r.data)
  /\ IReads(c, V, t)

IRecover(c, V, t) ==
  LET r == c.req[t] IN
  /\ r.sched = "hd_resyncpp"
  /\ c.sync_msk \cap r.avoid = {} /\ r.on \cap r.avoid = {} /\ r.mirror \notin r.avoid
  /\ c.vg = "opening" => c.stale \subseteq r.avoid /\ r.on = {r.mirror}
  /\ c.vg = "opening" /\ r.rd => c.sync_msk = Mirror \ r.avoid /\ r.done \subseteq r.bad \cup r.on
  /\ c.vg = "opening" /\ ~r.rd =>
       r.avoid \subseteq r.bad /\ Hold(V, t, Mirror \ (r.bad \cup c.sync_msk \cup r.on), r.data)
  /\ IReads(c, V, t)

IDisk(c, V, t) ==
  LET r == c.req[t] IN
  /\ r.op \in Op
  /\ r.op = "write" => IWrite(c, V, t)
  /\ r.op = "read" => IRead(c, V, t)
  /\ r.op = "RESYNC_OP" => IResync(c, V, t)
  /\ r.op = "MWC_RCV_OP" => IRecover(c, V, t)

IReq(c, V, t) ==
  LET st == c.req[t].st IN
  /\ st = "returned" => IReturned(c, V, t)
  /\ st = "pending" => IPending(c, V, t)
  /\ st = "wheel" => IWheel(c, V, t)
  /\ st = "disk" => IDisk(c, V, t)
  /\ st # "disk" => c.req[t].on = {}

IGlobal(c) ==
  /\ \A s, t \in Trk : /\ c.req[s].op \in SyncOp /\ c.req[t].op \in SyncOp => s = t
  /\ c.vg = "opening" => c.sync_trk = NO_SYNCTRK /\ \A t \in Trk : c.req[t].op \in {"none", "MWC_RCV_OP"}
  /\ c.vg = "open" => \A t \in Trk : c.req[t].op # "MWC_RCV_OP"
  /\ c.vg = "forced_sync" => c.torn = {}
  /\ \A t \in c.torn : c.acked[t] = Unknown
  /\ c.vg = "forced_sync" \/ Mirror \ c.stale # {}
  /\ c.rip => c.sync_trk # NO_SYNCTRK

(* A copy is changing (chging) as long as a request waits on the wheel for its *)
(* PP_STALE to be recorded, at a track group that a resynchronisation has not *)
(* passed; or it has failed since that began, or the group is forced off.     *)
Waits(c, x, s) == c.req[s].st = "wheel" /\ c.req[s].sched = "hd_staleppe" /\ x \in c.req[s].bad

Chg(c, S) ==
  \A x \in c.chging :
    /\ x \in c.stale
    /\ c.off \/ \E s \in S : Waits(c, x, s)
    /\ c.sync_trk # NO_SYNCTRK => x \in c.syncerr \/ \E s \in S : s >= c.sync_trk /\ Waits(c, x, s)

IInv ==
  /\ m \in StateType /\ val \in ValType /\ missing \subseteq Mirror
  /\ IGlobal(m)
  /\ \A t \in Trk : IReq(m, val, t)
  /\ Chg(m, Trk)
-----------------------------------------------------------------------------
(* How a handler that works on the request of track group t changes the     *)
(* state: SameBut says that only the request changes, Outside what the      *)
(* requests of the other track groups depend on, Ends all that is needed.   *)
SameBut(c, d, t) ==
  /\ d.stale = c.stale /\ d.syncerr = c.syncerr /\ d.sync_trk = c.sync_trk
  /\ d.sync_msk = c.sync_msk /\ d.rip = c.rip /\ d.i_sched = c.i_sched /\ d.nobbrel = c.nobbrel
  /\ d.refuse = c.refuse /\ d.vg = c.vg /\ d.acked = c.acked /\ d.torn = c.torn
  /\ d.next = c.next /\ d.chging = c.chging /\ d.off = c.off
  /\ \A s \in Trk \ {t} : d.req[s] = c.req[s]

Outside(c, d, t) ==
  /\ d.vg = c.vg /\ d.i_sched = c.i_sched /\ d.refuse = c.refuse
  /\ d.req[t].op \in {c.req[t].op, "none"}
  /\ \A s \in Trk \ {t} : /\ d.req[s] = c.req[s] /\ d.acked[s] = c.acked[s]
                          /\ s \in d.torn <=> s \in c.torn
                          /\ Good(d, s) \subseteq Good(c, s)
  /\ c.req[t].op \notin SyncOp =>
       /\ d.sync_msk = c.sync_msk /\ d.sync_trk = c.sync_trk /\ d.rip = c.rip
       /\ c.stale \subseteq d.stale /\ c.syncerr \subseteq d.syncerr
       /\ c.sync_trk # NO_SYNCTRK => d.stale \ d.syncerr \subseteq c.stale \ c.syncerr

Frame(c, d, t) == Outside(c, d, t) /\ (Chg(c, Trk \ {t}) => Chg(d, Trk))

Kept(c, d, t) ==
  /\ c.vg = "opening" => d.sync_trk = NO_SYNCTRK
  /\ d.torn \subseteq c.torn
  /\ t \in d.torn => d.acked[t] = Unknown
  /\ c.vg = "forced_sync" \/ Mirror \ d.stale # {}
  /\ d.rip => d.sync_trk # NO_SYNCTRK

Ends(c, d, V, t) == d \in StateType /\ Frame(c, d, t) /\ Kept(c, d, t) /\ IReq(d, V, t)

LEMMA MirrorType == Mirror \subseteq Nat /\ IsFiniteSet(Mirror) /\ \A S \in SUBSET Mirror : S # {} => Min(S) \in S /\ Max(S) \in S
<1>1. Mirror \subseteq Nat /\ NMir \in Nat /\ 1 \in Int /\ NMir \in Int
  BY DEF Mirror
<1>2. IsFiniteSet(Mirror)
  BY <1>1, FS_Interval DEF Mirror
<1>3. ASSUME NEW S \in SUBSET Mirror, S # {} PROVE Min(S) \in S /\ Max(S) \in S
  <2>1. S \in SUBSET Nat /\ S \in SUBSET (1..NMir)
    BY <1>1 DEF Mirror
  <2> QED BY <2>1, <1>1, <1>3, MinIn, MaxIn
<1> QED BY <1>1, <1>2, <1>3

(* What Chg depends on.                                                     *)
LEMMA ChgStep ==
  ASSUME NEW c \in StateType, NEW d \in StateType, NEW t \in Trk, \A s \in Trk \ {t} : d.req[s] = c.req[s],
         d.chging = c.chging, d.off = c.off, c.stale \subseteq d.stale, c.syncerr \subseteq d.syncerr,
         d.sync_trk \in {c.sync_trk, NO_SYNCTRK}, Chg(c, Trk \ {t})
  PROVE  Chg(d, Trk \ {t})
BY DEF Chg, Waits

LEMMA ChgAll ==
  ASSUME NEW d \in StateType, NEW t \in Trk, d.req[t].st # "wheel"
  PROVE  Chg(d, Trk \ {t}) <=> Chg(d, Trk)
BY DEF Chg, Waits

LEMMA ChgMore ==
  ASSUME NEW d, NEW t, Chg(d, Trk \ {t})
  PROVE  Chg(d, Trk)
BY DEF Chg

LEMMA ChgSame ==
  ASSUME NEW c \in StateType, NEW d \in StateType, NEW t \in Trk, SameBut(c, d, t), Chg(c, Trk \ {t})
  PROVE  Chg(d, Trk \ {t})
BY ChgStep DEF SameBut

LEMMA FrameSame ==
  ASSUME NEW c \in StateType, NEW d \in StateType, NEW t \in Trk, SameBut(c, d, t),
         d.req[t].op = c.req[t].op, IGlobal(c)
  PROVE  Frame(c, d, t) /\ Kept(c, d, t)
<1>1. Chg(c, Trk \ {t}) => Chg(d, Trk)
  BY ChgSame, ChgMore
<1> QED BY <1>1 DEF SameBut, Frame, Outside, Kept, IGlobal, Good

LEMMA FromSame ==
  ASSUME NEW c \in StateType, NEW d \in StateType, NEW e, NEW V, NEW t \in Trk, SameBut(c, d, t),
         d.req[t].op = c.req[t].op, Ends(d, e, V, t)
  PROVE  Ends(c, e, V, t)
<1>1. Chg(c, Trk \ {t}) => Chg(e, Trk)
  BY ChgSame DEF Ends, Frame
<1>2. Frame(c, e, t)
  BY <1>1 DEF SameBut, Ends, Frame, Outside, Good
<1> QED BY <1>2 DEF SameBut, Ends, Kept

LEMMA GlobalSame ==
  ASSUME NEW c \in StateType, NEW d \in StateType, NEW t \in Trk, SameBut(c, d, t),
         d.req[t].op = c.req[t].op, IGlobal(c)
  PROVE  IGlobal(d)
BY DEF SameBut, IGlobal

(* What a handler leaves alone stays as the invariant says.                 *)
LEMMA FrameGlobal ==
  ASSUME NEW c \in StateType, NEW d \in StateType, NEW t \in Trk, IGlobal(c), Outside(c, d, t), Kept(c, d, t)
  PROVE  IGlobal(d)
<1>1. \A s \in Trk : d.req[s].op \in {c.req[s].op, "none"}
  BY DEF Outside
<1>2. \A u, s \in Trk : d.req[u].op \in SyncOp /\ d.req[s].op \in SyncOp => u = s
  BY <1>1 DEF IGlobal, SyncOp
<1>3. c.vg = "opening" => \A s \in Trk : d.req[s].op \in {"none", "MWC_RCV_OP"}
  BY <1>1 DEF IGlobal
<1>4. c.vg = "open" => \A s \in Trk : d.req[s].op # "MWC_RCV_OP"
  BY <1>1 DEF IGlobal
<1>5. \A s \in d.torn : d.acked[s] = Unknown
  <2>1. d.torn \subseteq Trk /\ d.torn \subseteq c.torn
    BY DEF Kept, StateType
  <2>2. ASSUME NEW s \in d.torn, s # t PROVE d.acked[s] = Unknown
    BY <2>1, <2>2 DEF Outside, IGlobal
  <2> QED BY <2>2 DEF Kept
<1> QED BY <1>2, <1>3, <1>4, <1>5 DEF Outside, Kept, IGlobal

LEMMA FromOutside ==
  ASSUME NEW c \in StateType, NEW d \in StateType, NEW e, NEW V, NEW t \in Trk, Outside(c, d, t), Kept(c, d, t),
         d.req[t].op = c.req[t].op, Ends(d, e, V, t), Chg(c, Trk \ {t}) => Chg(e, Trk)
  PROVE  Ends(c, e, V, t)
<1>1. Frame(c, e, t)
  BY DEF Ends, Frame, Outside
<1>2. Kept(c, e, t)
  BY DEF Ends, Kept, Frame, Outside
<1> QED BY <1>1, <1>2 DEF Ends

LEMMA FromFrame ==
  ASSUME NEW c \in StateType, NEW d \in StateType, NEW e, NEW V, NEW t \in Trk, Frame(c, d, t), Kept(c, d, t),
         d.req[t].op = c.req[t].op, d.req[t].st # "wheel", Ends(d, e, V, t)
  PROVE  Ends(c, e, V, t)
<1>1. Chg(c, Trk \ {t}) => Chg(e, Trk)
  BY ChgAll DEF Ends, Frame
<1> QED BY <1>1, FromOutside DEF Frame

(* A request cannot tell d from c, or only that fewer copies are good and   *)
(* that more are stale.                                                     *)
Seen(c, d, s) ==
  /\ d.req[s] = c.req[s] /\ d.acked[s] = c.acked[s] /\ (s \in d.torn <=> s \in c.torn)
  /\ Good(d, s) \subseteq Good(c, s) /\ d.vg = c.vg /\ d.i_sched = c.i_sched /\ d.refuse = c.refuse
  /\ c.req[s].op \in SyncOp =>
       /\ d.sync_msk = c.sync_msk /\ d.sync_trk = c.sync_trk
       /\ c.stale \subseteq d.stale /\ c.syncerr \subseteq d.syncerr
       /\ c.sync_trk # NO_SYNCTRK => d.stale \ d.syncerr \subseteq c.stale \ c.syncerr
       /\ c.vg = "opening" => d.stale = c.stale

LEMMA SeenKept ==
  ASSUME NEW c \in StateType, NEW d, NEW V, NEW s \in Trk, Seen(c, d, s), IReq(c, V, s)
  PROVE  IReq(d, V, s)
<1> DEFINE r == c.req[s]
<1>1. /\ d.req[s] = r /\ d.acked[s] = c.acked[s] /\ (s \in d.torn <=> s \in c.torn)
      /\ Good(d, s) \subseteq Good(c, s) /\ d.vg = c.vg /\ d.i_sched = c.i_sched /\ d.refuse = c.refuse
  BY DEF Seen
<1>2. Source(d, s) \subseteq Source(c, s)
  BY <1>1 DEF Source
<1>3. Clean(c, V, s) => Clean(d, V, s)
  BY <1>1 DEF Clean, Current, Alike, Hold
<1>4. IReturned(c, V, s) => IReturned(d, V, s)
  BY <1>1, <1>3 DEF IReturned
<1>5. r.op \in SyncOp =>
        /\ d.sync_msk = c.sync_msk /\ d.sync_trk = c.sync_trk
        /\ c.stale \subseteq d.stale /\ c.syncerr \subseteq d.syncerr
        /\ c.sync_trk # NO_SYNCTRK => d.stale \ d.syncerr \subseteq c.stale \ c.syncerr
        /\ c.vg = "opening" => d.stale = c.stale
  BY DEF Seen
<1>6. IPending(c, V, s) => IPending(d, V, s)
  BY <1>1, <1>3, <1>5 DEF IPending, SyncOp
<1>7. IWheel(c, V, s) => IWheel(d, V, s)
  BY <1>1, <1>3 DEF IWheel, Alike, Hold
<1>8. IWrite(c, V, s) => IWrite(d, V, s)
  BY <1>1 DEF IWrite, Hold, Spared
<1>9. IReads(c, V, s) => IReads(d, V, s)
  BY <1>1, <1>2 DEF IReads, Current, Alike, Hold
<1>10. IRead(c, V, s) => IRead(d, V, s)
  BY <1>1, <1>9 DEF IRead
<1>11. r.op = "RESYNC_OP" /\ IResync(c, V, s) => IResync(d, V, s)
  <2> SUFFICES ASSUME r.op = "RESYNC_OP", IResync(c, V, s) PROVE IResync(d, V, s)
    OBVIOUS
  <2>1. c.sync_trk # NO_SYNCTRK
    BY DEF IResync, Trk, NO_SYNCTRK
  <2>2. IReads(d, V, s)
    BY <1>9 DEF IResync
  <2> QED BY <1>1, <1>5, <2>1, <2>2 DEF IResync, SyncOp, Hold
<1>12. r.op = "MWC_RCV_OP" /\ IRecover(c, V, s) => IRecover(d, V, s)
  BY <1>1, <1>5, <1>9 DEF IRecover, SyncOp
<1>13. IDisk(c, V, s) => IDisk(d, V, s)
  BY <1>1, <1>8, <1>10, <1>11, <1>12 DEF IDisk
<1> QED BY <1>1, <1>4, <1>6, <1>7, <1>13 DEF IReq

LEMMA OtherKept ==
  ASSUME NEW c \in StateType, NEW d, NEW V \in ValType, NEW t \in Trk, NEW s \in Trk \ {t},
         IGlobal(c), Ends(c, d, V, t), c.req[t].op # "none", IReq(c, V, s)
  PROVE  IReq(d, V, s)
<1>1. Seen(c, d, s)
  <2>1. Frame(c, d, t)
    BY DEF Ends
  <2>2. c.req[s].op \in SyncOp => c.req[t].op \notin SyncOp /\ c.vg # "opening"
    BY DEF IGlobal, SyncOp
  <2> QED BY <2>1, <2>2 DEF Frame, Outside, Seen
<1> QED BY <1>1, SeenKept

-----------------------------------------------------------------------------
LEMMA ReqUpd ==
  ASSUME NEW c \in StateType, NEW t \in Trk, NEW q \in ReqType
  PROVE  LET d == [c EXCEPT !.req[t] = q]
         IN  d \in StateType /\ SameBut(c, d, t) /\ d.req[t] = q
<1>1. c.req \in [Trk -> ReqType]
  BY DEF StateType
<1> DEFINE f == [c.req EXCEPT ![t] = q]
<1>2. f \in [Trk -> ReqType] /\ f[t] = q /\ \A s \in Trk \ {t} : f[s] = c.req[s]
  BY <1>1
<1> HIDE DEF f
<1>3. [c EXCEPT !.req[t] = q] = [c EXCEPT !.req = f]
  BY DEF f
<1>4. [c EXCEPT !.req = f] \in StateType
  BY <1>2 DEF StateType
<1>5. SameBut(c, [c EXCEPT !.req = f], t) /\ [c EXCEPT !.req = f].req[t] = q
  BY <1>2 DEF StateType, SameBut
<1> QED BY <1>3, <1>4, <1>5

(* A request whose transfers have ended, before it is returned.             *)
IDone(c, V, t) ==
  LET r == c.req[t] IN
  /\ r.op \in Op
  /\ r.op = "write" => /\ ~r.err \/ t \notin c.torn => Alike(V, t, Good(c, t))
                       /\ ~r.err => Hold(V, t, Good(c, t), r.data)
  /\ r.op = "MWC_RCV_OP" /\ ~r.err => Alike(V, t, Good(c, t))
  /\ r.op # "write" => Clean(c, V, t)
  /\ r.op = "read" /\ ~r.err /\ c.acked[t] # Unknown => r.data = c.acked[t]
  /\ r.op = "read" /\ r.err /\ c.i_sched \notin NearbyReads => Mirror \ r.avoid \subseteq r.tried

LEMMA NoReqType == NoReq \in ReqType
  BY DEF NoReq, ReqType

LEMMA NextTrk == \A t \in Trk : (t + 1) % TRKPPART \in Trk /\ 0 \in Trk
<1>1. SUFFICES ASSUME NEW t \in Nat PROVE (t + 1) % TRKPPART \in 0..(TRKPPART - 1) /\ 0 \in 0..(TRKPPART - 1)
  BY DEF Trk
<1>2. TRKPPART \in Nat /\ TRKPPART > 0
  OBVIOUS
<1>3. \A n \in Nat : n % TRKPPART \in 0..(TRKPPART - 1)
  BY <1>2, SMT
<1> QED BY <1>2, <1>3, SMT

LEMMA FinishEnds ==
  ASSUME NEW c \in StateType, NEW V, NEW t \in Trk, IGlobal(c), IDone(c, V, t)
  PROVE  Ends(c, hd_finished(c, t), V, t)
<1> DEFINE r == c.req[t]
           q == IF r.op # "read" THEN NoReq
                ELSE [NoReq EXCEPT !.op = r.op, !.err = r.err, !.data = r.data, !.avoid = r.avoid,
                                   !.tried = r.tried]
           d == hd_finished(c, t)
<1>1. r \in ReqType /\ r.op \in Op
  BY DEF StateType, IDone
<1>a. r.err \in BOOLEAN /\ r.data \in Int /\ r.avoid \in SUBSET Mirror /\ r.tried \in SUBSET Mirror
  BY <1>1 DEF ReqType
<1>2. /\ q \in ReqType /\ q.st = "returned" /\ q.on = {} /\ q.op = IF r.op = "read" THEN "read" ELSE "none"
      /\ r.op = "read" => q.err = r.err /\ q.data = r.data /\ q.avoid = r.avoid /\ q.tried = r.tried
  <2>1. CASE r.op # "read"
    BY <2>1, NoReqType DEF NoReq
  <2>2. CASE r.op = "read"
    <3>1. q = [NoReq EXCEPT !.op = "read", !.err = r.err, !.data = r.data, !.avoid = r.avoid, !.tried = r.tried]
      BY <2>2
    <3> HIDE DEF q
    <3>2. q \in ReqType
      BY <3>1, <1>a, NoReqType DEF ReqType, Op
    <3>3. q.st = "returned" /\ q.on = {} /\ q.op = "read" /\ q.err = r.err /\ q.data = r.data /\ q.avoid = r.avoid /\ q.tried = r.tried
      BY <3>1 DEF NoReq
    <3> QED BY <2>2, <3>2, <3>3
  <2> QED BY <2>1, <2>2
<1> HIDE DEF q
<1>3. /\ d = [c EXCEPT !.req = [@ EXCEPT ![t] = q], !.acked = d.acked, !.torn = d.torn, !.next = d.next]
      /\ d.acked = [c.acked EXCEPT ![t] = IF r.op # "write" THEN @ ELSE IF r.err THEN Unknown ELSE r.data]
      /\ d.torn = IF r.op \in {"write", "MWC_RCV_OP"} /\ ~r.err THEN c.torn \ {t} ELSE c.torn
      /\ d.next = IF r.op # "RESYNC_OP" THEN c.next ELSE IF r.err THEN 0 ELSE (t + 1) % TRKPPART
  BY DEF hd_finished, StateType, q
<1> HIDE DEF d
<1>4. d.acked \in [Trk -> Int] /\ d.torn \in SUBSET Trk /\ d.next \in Trk
  <2>1. Unknown \in Int
    BY DEF Unknown
  <2>2. r.data \in Int /\ c.acked \in [Trk -> Int] /\ c.torn \in SUBSET Trk /\ c.next \in Trk
    BY <1>1 DEF ReqType, StateType
  <2> QED BY <1>3, <2>1, <2>2, NextTrk
<1>5. d \in StateType /\ d.req[t] = q /\ \A s \in Trk \ {t} : d.req[s] = c.req[s]
  <2> DEFINE e == [c EXCEPT !.req[t] = q]
  <2>1. e \in StateType /\ SameBut(c, e, t) /\ e.req[t] = q
    BY <1>2, ReqUpd
  <2>2. d = [e EXCEPT !.acked = d.acked, !.torn = d.torn, !.next = d.next]
    BY <1>3
  <2> HIDE DEF e
  <2>3. d \in StateType
    BY <2>1, <2>2, <1>4 DEF StateType
  <2>4. d.req = e.req
    BY <2>1, <2>2 DEF StateType
  <2> QED BY <2>1, <2>3, <2>4 DEF SameBut
<1>6. /\ d.stale = c.stale /\ d.syncerr = c.syncerr /\ d.sync_trk = c.sync_trk /\ d.vg = c.vg
      /\ d.sync_msk = c.sync_msk /\ d.rip = c.rip /\ d.i_sched = c.i_sched /\ d.refuse = c.refuse
      /\ d.chging = c.chging /\ d.off = c.off
  BY <1>3 DEF StateType
<1>7. \A s \in Trk : Good(d, s) = Good(c, s)
  BY <1>6 DEF Good
<1>8. Frame(c, d, t)
  <2>1. \A s \in Trk \ {t} : d.acked[s] = c.acked[s] /\ (s \in d.torn <=> s \in c.torn)
    BY <1>3 DEF StateType
  <2>2. Chg(c, Trk \ {t}) => Chg(d, Trk)
    BY <1>5, <1>6, ChgStep, ChgMore
  <2> QED BY <1>2, <1>5, <1>6, <1>7, <2>1, <2>2 DEF Frame, Outside
<1>9. Kept(c, d, t)
  <2>1. t \in d.torn => d.acked[t] = Unknown
    <3>1. c.acked \in [Trk -> Int] /\ (t \in c.torn => c.acked[t] = Unknown)
      BY DEF IGlobal, StateType
    <3>2. CASE r.op = "write"
      BY <1>3, <3>1, <3>2
    <3>3. CASE r.op # "write"
      BY <1>3, <3>1, <3>3
    <3> QED BY <3>2, <3>3
  <2> QED BY <1>3, <1>6, <2>1 DEF Kept, IGlobal
<1>10. IReturned(d, V, t)
  <2>1. Clean(d, V, t)
    <3>1. CASE r.op = "write"
      BY <1>1, <1>3, <1>7, <3>1 DEF IDone, Clean, Current, Hold, StateType
    <3>2. CASE r.op # "write"
      <4>1. d.acked[t] = c.acked[t]
        BY <1>3, <3>2 DEF StateType
      <4>2. CASE t \notin c.torn
        BY <1>3, <1>7, <3>2, <4>1, <4>2 DEF IDone, Clean, Current
      <4>3. CASE t \in c.torn
        BY <1>3, <1>7, <3>2, <4>1, <4>3 DEF IDone, Clean, Current, IGlobal
      <4> QED BY <4>2, <4>3
    <3> QED BY <3>1, <3>2
  <2>2. r.op = "read" => d.acked[t] = c.acked[t]
    BY <1>3 DEF StateType
  <2> QED BY <1>2, <1>5, <1>6, <2>1, <2>2 DEF IReturned, IDone
<1>11. IReq(d, V, t)
  BY <1>2, <1>5, <1>10 DEF IReq
<1> QED BY <1>5, <1>8, <1>9, <1>11 DEF Ends, d

LEMMA FailedEnds ==
  ASSUME NEW c \in StateType, NEW V, NEW t \in Trk, IGlobal(c), IDone([c EXCEPT !.req[t].err = TRUE], V, t)
  PROVE  Ends(c, Failed(c, t), V, t)
<1> DEFINE d == [c EXCEPT !.req[t].err = TRUE]
<1>1. d \in StateType /\ SameBut(c, d, t) /\ d.req[t].op = c.req[t].op
  <2>1. c.req[t] \in ReqType
    BY DEF StateType
  <2>2. [c.req[t] EXCEPT !.err = TRUE] \in ReqType /\ [c.req[t] EXCEPT !.err = TRUE].op = c.req[t].op
    BY <2>1 DEF ReqType
  <2> QED BY <2>2, ReqUpd
<1> HIDE DEF d
<1>2. IGlobal(d)
  BY <1>1, GlobalSame
<1>3. Ends(d, hd_finished(d, t), V, t)
  BY <1>1, <1>2, FinishEnds DEF d
<1> QED BY <1>1, <1>3, FromSame DEF Failed, d

LEMMA BeginIs ==
  ASSUME NEW c \in StateType, NEW t \in Trk, NEW x \in Mirror
  PROVE  LET d == hd_begin(c, t, x) IN
         /\ d \in StateType /\ SameBut(c, d, t)
         /\ d.req[t] = [c.req[t] EXCEPT !.st = "disk", !.mirror = x, !.on = {x}, !.err = FALSE,
                                        !.refused = (<<x, t>> \in c.refuse)]
<1> DEFINE b == <<x, t>> \in c.refuse
           q == [c.req[t] EXCEPT !.st = "disk", !.mirror = x, !.on = {x}, !.err = FALSE, !.refused = b]
<1>1. c.req[t] \in ReqType
  BY DEF StateType
<1>b. b \in BOOLEAN
  OBVIOUS
<1> HIDE DEF b
<1>2. q \in ReqType
  BY <1>1, <1>b DEF ReqType
<1>3. hd_begin(c, t, x) = [c EXCEPT !.req[t] = q]
  BY DEF hd_begin, b
<1>4. q = [c.req[t] EXCEPT !.st = "disk", !.mirror = x, !.on = {x}, !.err = FALSE, !.refused = (<<x, t>> \in c.refuse)]
  BY DEF b
<1> HIDE DEF q
<1> QED BY <1>2, <1>3, <1>4, ReqUpd

LEMMA Types ==
  ASSUME NEW c \in StateType, NEW t \in Trk
  PROVE  LET r == c.req[t] IN
         /\ r \in ReqType
         /\ c.stale \subseteq Mirror /\ c.syncerr \subseteq Mirror /\ c.sync_msk \subseteq Mirror
         /\ c.sync_trk \in Trk \cup {NO_SYNCTRK} /\ c.torn \subseteq Trk /\ c.acked \in [Trk -> Int]
         /\ r.on \subseteq Mirror /\ r.done \subseteq Mirror /\ r.bad \subseteq Mirror
         /\ r.avoid \subseteq Mirror /\ r.tried \subseteq Mirror /\ r.data \in Int
         /\ r.err \in BOOLEAN /\ r.rd \in BOOLEAN /\ r.mirror \in Mirror \cup {0}
<1>1. c.req[t] \in ReqType
  BY DEF StateType
<1>2. /\ c.stale \subseteq Mirror /\ c.syncerr \subseteq Mirror /\ c.sync_msk \subseteq Mirror
      /\ c.sync_trk \in Trk \cup {NO_SYNCTRK} /\ c.torn \subseteq Trk /\ c.acked \in [Trk -> Int]
  BY DEF StateType
<1> QED BY <1>1, <1>2 DEF ReqType

(* The next mirror, and those that are passed over because they are broken. *)
LEMMA SeqNextIs ==
  ASSUME NEW c \in StateType, NEW t \in Trk, Usable(c, t) # {}
  PROVE  LET d == hd_seqnext(c, t)
             r == c.req[t]
             q == d.req[t]
         IN  \E next \in Usable(c, t), P \in SUBSET (Left(c, t) \ Usable(c, t)) :
               /\ d \in StateType /\ SameBut(c, d, t)
               /\ q.st = "disk" /\ q.mirror = next /\ q.on = {next} /\ q.err = FALSE
               /\ q.done = r.done \cup P \cup {next} /\ q.bad = r.bad \cup P
               /\ q.op = r.op /\ q.sched = r.sched /\ q.rd = r.rd /\ q.avoid = r.avoid
               /\ q.data = r.data /\ q.tried = r.tried
<1> DEFINE r == c.req[t]
           next == Min(Usable(c, t))
           P == {x \in Left(c, t) : x < next}
           p == [r EXCEPT !.done = @ \cup P \cup {next}, !.bad = @ \cup P]
           e == [c EXCEPT !.req[t] = p]
<1>7. hd_seqnext(c, t) = hd_begin(e, t, next)
  BY DEF hd_seqnext
<1>1. Usable(c, t) \subseteq Left(c, t) /\ Left(c, t) \subseteq Mirror
  BY DEF Usable, Left
<1>2. Usable(c, t) \in SUBSET Nat /\ Mirror \subseteq Nat
  BY <1>1, MirrorType
<1>3. next \in Usable(c, t) /\ \A y \in Usable(c, t) : next <= y
  BY <1>2, MinIn
<1> HIDE DEF next
<1>4. P \subseteq Left(c, t) \ Usable(c, t)
  BY <1>1, <1>2, <1>3
<1> HIDE DEF P
<1>5. p \in ReqType
  <2> DEFINE done == r.done \cup P \cup {next}
             bad == r.bad \cup P
  <2>1. done \in SUBSET Mirror /\ bad \in SUBSET Mirror /\ r \in ReqType
    BY <1>1, <1>3, <1>4, Types
  <2>2. p = [r EXCEPT !.done = done, !.bad = bad]
    OBVIOUS
  <2> HIDE DEF done, bad, p
  <2> QED BY <2>1, <2>2 DEF ReqType
<1> HIDE DEF p
<1>6. e \in StateType /\ SameBut(c, e, t) /\ e.req[t] = p
  BY <1>5, ReqUpd
<1> HIDE DEF e
<1>8. next \in Mirror
  BY <1>1, <1>3
<1> DEFINE d == hd_begin(e, t, next)
           q == d.req[t]
<1>9. /\ d \in StateType /\ SameBut(e, d, t)
      /\ q = [p EXCEPT !.st = "disk", !.mirror = next, !.on = {next}, !.err = FALSE,
                       !.refused = (<<next, t>> \in e.refuse)]
  BY <1>6, <1>8, BeginIs
<1> HIDE DEF d
<1>10. SameBut(c, d, t)
  BY <1>6, <1>9 DEF SameBut
<1>11. /\ q.st = "disk" /\ q.mirror = next /\ q.on = {next} /\ q.err = FALSE
       /\ q.done = p.done /\ q.bad = p.bad /\ q.op = p.op /\ q.sched = p.sched /\ q.rd = p.rd
       /\ q.avoid = p.avoid /\ q.data = p.data /\ q.tried = p.tried
  BY <1>5, <1>9 DEF ReqType
<1>12. /\ p.done = r.done \cup P \cup {next} /\ p.bad = r.bad \cup P
       /\ p.op = r.op /\ p.sched = r.sched /\ p.rd = r.rd /\ p.avoid = r.avoid
       /\ p.data = r.data /\ p.tried = r.tried
  BY Types DEF p, ReqType
<1> QED BY <1>3, <1>4, <1>7, <1>9, <1>10, <1>11, <1>12 DEF d

-----------------------------------------------------------------------------
(* Reads: what holds when a transfer has ended, with or without an error.    *)
PRead(c, V, t) ==
  LET r == c.req[t] IN
  /\ r.op = "read" /\ r.st = "disk" /\ r.sched = IF r.rd THEN "hd_mirread" ELSE "hd_fixup"
  /\ r.avoid # Mirror /\ r.mirror \in Mirror /\ (r.rd => r.mirror \notin r.avoid)
  /\ r.bad \cap r.avoid = {}
  /\ r.rd /\ c.i_sched \notin NearbyReads => r.done \subseteq r.tried
  /\ t \notin c.torn =>
       Current(c, V, t, Source(c, t)) /\ (~r.rd \/ ~r.err => Hold(V, t, Source(c, t), r.data))

LEMMA ReadDone ==
  ASSUME NEW c \in StateType, NEW V, NEW t \in Trk, IGlobal(c), PRead(c, V, t),
         NEW d \in StateType, SameBut(c, d, t), d.req[t].op = "read", d.req[t].avoid = c.req[t].avoid,
         d.req[t].data = c.req[t].data, d.req[t].tried = c.req[t].tried,
         d.req[t].err => c.req[t].err /\ c.req[t].rd /\ Left(c, t) = {},
         ~d.req[t].err => ~c.req[t].rd \/ ~c.req[t].err
  PROVE  Ends(c, hd_finished(d, t), V, t)
<1> DEFINE r == c.req[t]
           q == d.req[t]
<1>1. Good(d, t) = Good(c, t)
  BY DEF Good, SameBut
<1>2. IGlobal(d)
  BY GlobalSame DEF PRead
<1>3. Clean(d, V, t)
  BY <1>1 DEF PRead, Clean, Current, Alike, Hold, Source, SameBut
<1>4. ~q.err /\ d.acked[t] # Unknown => q.data = d.acked[t]
  <2> SUFFICES ASSUME ~q.err, c.acked[t] # Unknown PROVE q.data = c.acked[t]
    BY DEF SameBut
  <2>1. t \notin c.torn
    BY DEF IGlobal
  <2>2. PICK x \in Mirror : x \notin r.avoid
    BY Types DEF PRead
  <2>3. x \in Source(c, t)
    BY <2>2 DEF Source
  <2> QED BY <2>1, <2>3 DEF PRead, Current, Hold
<1>5. q.err /\ d.i_sched \notin NearbyReads => Mirror \ q.avoid \subseteq q.tried
  BY DEF PRead, Left, SameBut
<1>6. IDone(d, V, t)
  BY <1>3, <1>4, <1>5 DEF IDone, Op
<1>7. Ends(d, hd_finished(d, t), V, t)
  BY <1>2, <1>6, FinishEnds
<1> QED BY <1>7, FromSame DEF PRead

LEMMA FixupEnds ==
  ASSUME NEW c \in StateType, NEW V, NEW t \in Trk, IGlobal(c), PRead(c, V, t),
         ~c.req[t].rd \/ ~c.req[t].err
  PROVE  Ends(c, hd_fixup(c, t), V, t)
<1> DEFINE r == c.req[t]
           next == Min(r.bad)
           p == [r EXCEPT !.rd = FALSE, !.sched = "hd_fixup", !.err = FALSE]
           d == [c EXCEPT !.req[t] = p]
           e == [d EXCEPT !.req[t].bad = @ \ {next}]
<1>1. hd_fixup(c, t) = IF r.bad = {} THEN hd_finished(d, t) ELSE hd_begin(e, t, next)
  BY DEF hd_fixup
<1>2. /\ p \in ReqType /\ p.op = r.op /\ p.avoid = r.avoid /\ p.data = r.data /\ p.tried = r.tried
      /\ p.bad = r.bad /\ p.rd = FALSE /\ p.sched = "hd_fixup" /\ p.err = FALSE
  <2>1. r \in ReqType
    BY Types
  <2> HIDE DEF r
  <2> QED BY <2>1 DEF ReqType, Sched
<1> HIDE DEF p
<1>3. d \in StateType /\ SameBut(c, d, t) /\ d.req[t] = p
  BY <1>2, ReqUpd
<1> HIDE DEF d
<1>4. CASE r.bad = {}
  <2>1. Ends(c, hd_finished(d, t), V, t)
    BY <1>2, <1>3, ReadDone DEF PRead
  <2> QED BY <1>1, <1>4, <2>1
<1>5. CASE r.bad # {}
  <2>1. next \in r.bad /\ r.bad \subseteq Mirror
    BY <1>5, Types, MirrorType
  <2> HIDE DEF next
  <2> DEFINE bad == r.bad \ {next}
             q == [p EXCEPT !.bad = bad]
  <2>2. bad \in SUBSET Mirror
    BY <2>1
  <2>3. e = [d EXCEPT !.req[t] = q]
    BY <1>2, <1>3
  <2> HIDE DEF bad, e
  <2>4. /\ q \in ReqType /\ q.op = p.op /\ q.avoid = p.avoid /\ q.data = p.data /\ q.tried = p.tried
        /\ q.bad = bad /\ q.rd = FALSE /\ q.sched = "hd_fixup"
    BY <1>2, <2>2 DEF ReqType
  <2> HIDE DEF q
  <2>5. e \in StateType /\ SameBut(d, e, t) /\ e.req[t] = q
    BY <1>3, <2>3, <2>4, ReqUpd
  <2> DEFINE f == hd_begin(e, t, next)
             s == f.req[t]
  <2>6. f \in StateType /\ SameBut(e, f, t)
        /\ s = [q EXCEPT !.st = "disk", !.mirror = next, !.on = {next}, !.err = FALSE,
                         !.refused = (<<next, t>> \in e.refuse)]
    BY <2>1, <2>5, BeginIs
  <2> HIDE DEF f
  <2>7. /\ s.op = r.op /\ s.avoid = r.avoid /\ s.data = r.data /\ s.bad = bad /\ s.rd = FALSE
        /\ s.sched = "hd_fixup" /\ s.st = "disk" /\ s.mirror = next /\ s.on = {next}
    BY <1>2, <2>4, <2>6 DEF ReqType
  <2>8. SameBut(c, f, t)
    BY <1>3, <2>5, <2>6 DEF SameBut
  <2>9. Good(f, t) = Good(c, t)
    BY <2>8 DEF Good, SameBut
  <2>10. Source(f, t) = Source(c, t)
    BY <2>7, <2>9 DEF Source
  <2>11. IReads(f, V, t)
    BY <2>1, <2>7, <2>8, <2>10 DEF IReads, PRead, Current, SameBut
  <2>12. IRead(f, V, t)
    BY <2>1, <2>7, <2>11 DEF IRead, PRead, bad
  <2>13. IReq(f, V, t)
    BY <2>7, <2>12 DEF IReq, IDisk, PRead, Op
  <2>14. Ends(c, f, V, t)
    BY <2>6, <2>7, <2>8, <2>13, FrameSame DEF Ends
  <2> QED BY <1>1, <1>5, <2>14 DEF f
<1> QED BY <1>4, <1>5

LEMMA MirreadEnds ==
  ASSUME NEW c \in StateType, NEW V, NEW t \in Trk, IGlobal(c), PRead(c, V, t), c.req[t].rd,
         NEW media \in BOOLEAN
  PROVE  Ends(c, hd_mirread(c, t, media), V, t)
<1> DEFINE r == c.req[t]
           bad == IF media THEN r.bad \cup {r.mirror} ELSE r.bad
           p == [r EXCEPT !.bad = bad]
           d == [c EXCEPT !.req[t].bad = IF media THEN @ \cup {r.mirror} ELSE @]
<1>1. hd_mirread(c, t, media) =
        IF r.err THEN IF Usable(c, t) # {} THEN hd_seqnext(d, t) ELSE hd_finished(c, t)
        ELSE IF r.bad # {} /\ ~c.nobbrel THEN hd_fixup(c, t) ELSE hd_finished(c, t)
  BY DEF hd_mirread
<1>2. CASE ~r.err
  <2>1. Ends(c, hd_fixup(c, t), V, t)
    BY <1>2, FixupEnds
  <2>2. SameBut(c, c, t)
    BY DEF SameBut
  <2>3. Ends(c, hd_finished(c, t), V, t)
    BY <1>2, <2>2, ReadDone DEF PRead
  <2> QED BY <1>1, <1>2, <2>1, <2>3
<1>3. CASE r.err /\ Usable(c, t) = {}
  <2>1. Left(c, t) = {} /\ SameBut(c, c, t)
    BY <1>3 DEF Usable, PRead, SameBut
  <2>2. Ends(c, hd_finished(c, t), V, t)
    BY <1>3, <2>1, ReadDone DEF PRead
  <2> QED BY <1>1, <1>3, <2>2
<1>4. CASE r.err /\ Usable(c, t) # {}
  <2>1. bad \in SUBSET Mirror /\ bad \cap r.avoid = {} /\ r.avoid \subseteq Mirror
    BY Types DEF PRead
  <2>2. d = [c EXCEPT !.req[t] = p]
    OBVIOUS
  <2> HIDE DEF bad, d
  <2>3. /\ p \in ReqType /\ p.op = r.op /\ p.avoid = r.avoid /\ p.done = r.done /\ p.bad = bad
        /\ p.sched = r.sched /\ p.rd = r.rd /\ p.data = r.data /\ p.tried = r.tried
    <3>1. r \in ReqType
      BY Types
    <3> HIDE DEF r
    <3> QED BY <2>1, <3>1 DEF ReqType
  <2> HIDE DEF p
  <2>4. d \in StateType /\ SameBut(c, d, t) /\ d.req[t] = p
    BY <2>2, <2>3, ReqUpd
  <2>5. Left(d, t) = Left(c, t) /\ Usable(d, t) = Left(d, t) /\ Usable(c, t) = Left(c, t)
    BY <2>3, <2>4 DEF Left, Usable, PRead
  <2> DEFINE f == hd_seqnext(d, t)
             s == f.req[t]
  <2>6. \E next \in Usable(d, t), P \in SUBSET (Left(d, t) \ Usable(d, t)) :
           /\ f \in StateType /\ SameBut(d, f, t)
           /\ s.st = "disk" /\ s.mirror = next /\ s.on = {next} /\ s.err = FALSE
           /\ s.done = p.done \cup P \cup {next} /\ s.bad = p.bad \cup P
           /\ s.op = p.op /\ s.sched = p.sched /\ s.rd = p.rd /\ s.avoid = p.avoid
           /\ s.data = p.data /\ s.tried = p.tried
    BY <1>4, <2>4, <2>5, SeqNextIs
  <2> HIDE DEF f
  <2>7. PICK next \in Left(c, t) :
           /\ f \in StateType /\ SameBut(d, f, t)
           /\ s.st = "disk" /\ s.mirror = next /\ s.on = {next}
           /\ s.done = r.done \cup {next} /\ s.bad = bad
           /\ s.op = r.op /\ s.sched = r.sched /\ s.rd = r.rd /\ s.avoid = r.avoid
           /\ s.tried = r.tried
    BY <2>3, <2>5, <2>6
  <2>8. SameBut(c, f, t)
    BY <2>4, <2>7 DEF SameBut
  <2>9. Good(f, t) = Good(c, t)
    BY <2>8 DEF Good, SameBut
  <2>10. Source(f, t) = Source(c, t)
    BY <2>7, <2>9 DEF Source
  <2>11. next \in Mirror /\ next \notin r.avoid
    BY DEF Left
  <2>12. IReads(f, V, t)
    BY <2>7, <2>8, <2>10, <2>11 DEF IReads, PRead, Current, SameBut
  <2>13. IRead(f, V, t)
    BY <2>1, <2>7, <2>8, <2>11, <2>12 DEF IRead, PRead, SameBut
  <2>14. IReq(f, V, t)
    BY <2>7, <2>13 DEF IReq, IDisk, PRead, Op
  <2>15. Ends(c, f, V, t)
    BY <2>7, <2>8, <2>14, FrameSame DEF Ends
  <2> QED BY <1>1, <1>4, <2>15 DEF f
<1> QED BY <1>2, <1>3, <1>4

-----------------------------------------------------------------------------
(* What hd_stalepp is called with: the mirrors that have failed, or that     *)
(* have been passed over, are marked bad.                                    *)
PStale(c, V, t) ==
  LET r == c.req[t] IN
  /\ r.op \in {"write", "MWC_RCV_OP"}
  /\ r.op = "write" => /\ Good(c, t) \cap r.avoid = {} /\ r.bad \cap r.avoid = {}
                       /\ Hold(V, t, Good(c, t) \ r.bad, r.data)
  /\ r.op = "MWC_RCV_OP" => Clean(c, V, t)
  /\ c.vg = "opening" => /\ c.stale \subseteq r.avoid /\ r.avoid \subseteq r.bad /\ r.avoid # Mirror
                         /\ Alike(V, t, Mirror \ r.bad)

(* The mirror that is spared when there is no other.                        *)
LEMMA MarkedIs ==
  ASSUME NEW c \in StateType, NEW V, NEW t \in Trk, IGlobal(c), PStale(c, V, t), missing \subseteq Mirror
  PROVE  LET r == c.req[t]
             M == Marked(c, t)
             all == c.stale \cup r.bad \cup r.avoid = Mirror
         IN  /\ M \subseteq Mirror
             /\ c.vg = "forced_sync" \/ Mirror \ (c.stale \cup M) # {}
             /\ r.op = "write" => /\ Alike(V, t, Good(c, t) \ M)
                                  /\ ~all => Hold(V, t, Good(c, t) \ M, r.data)
             /\ c.vg = "opening" => Alike(V, t, Good(c, t) \ M)
<1> DEFINE r == c.req[t]
           M == Marked(c, t)
           all == c.stale \cup r.bad \cup r.avoid = Mirror
           active == Mirror \ (r.avoid \cup c.stale)
           actmir == IF active \ missing # {} THEN {Min(active \ missing)}
                     ELSE IF active # {} THEN {Min(active)} ELSE {}
<1>1. M = IF ~all THEN r.bad
          ELSE IF c.sync_trk # NO_SYNCTRK THEN Mirror \ (r.avoid \cup actmir) ELSE r.bad \ actmir
  BY DEF Marked
<1>2. actmir \subseteq active /\ (active # {} => actmir # {}) /\ \A x, y \in actmir : x = y
  <2>1. active \ missing # {} => Min(active \ missing) \in active \ missing
    BY MirrorType
  <2>2. active # {} => Min(active) \in active
    BY MirrorType
  <2> QED BY <2>1, <2>2
<1> HIDE DEF M, actmir
<1>3. /\ c.stale \subseteq Mirror /\ r.bad \subseteq Mirror /\ r.avoid \subseteq Mirror
      /\ Mirror \ c.stale \subseteq Good(c, t) /\ Good(c, t) \subseteq Mirror
      /\ c.sync_trk = NO_SYNCTRK => Good(c, t) = Mirror \ c.stale
  BY Types DEF Good, Trk, NO_SYNCTRK
<1>4. CASE ~all
  <2>1. M \subseteq Mirror
    BY <1>1, <1>3, <1>4
  <2>2. Mirror \ (c.stale \cup M) # {}
    BY <1>1, <1>3, <1>4
  <2>3. r.op = "write" => Hold(V, t, Good(c, t) \ M, r.data)
    BY <1>1, <1>4 DEF PStale
  <2>4. c.vg = "opening" => Alike(V, t, Good(c, t) \ M)
    BY <1>1, <1>3, <1>4 DEF PStale, Alike
  <2>5. r.op = "write" => Alike(V, t, Good(c, t) \ M)
    BY <2>3 DEF Hold, Alike
  <2> QED BY <2>1, <2>2, <2>3, <2>4, <2>5 DEF M
<1>5. CASE all /\ r.op = "write"
  <2>1. Good(c, t) \cap r.avoid = {}
    BY <1>5 DEF PStale
  <2>2. Good(c, t) \ M \subseteq actmir
    <3>1. CASE c.sync_trk = NO_SYNCTRK
      BY <1>1, <1>3, <1>5, <2>1, <3>1
    <3>2. CASE c.sync_trk # NO_SYNCTRK
      BY <1>1, <1>3, <1>5, <2>1, <3>2
    <3> QED BY <3>1, <3>2
  <2>3. Alike(V, t, Good(c, t) \ M)
    BY <1>2, <2>2 DEF Alike
  <2>4. c.vg = "forced_sync" \/ Mirror \ (c.stale \cup M) # {}
    <3> SUFFICES ASSUME Mirror \ c.stale # {} PROVE Mirror \ (c.stale \cup M) # {}
      BY DEF IGlobal
    <3>1. active # {}
      BY <1>3, <2>1
    <3>2. PICK a \in actmir : a \in active
      BY <1>2, <3>1
    <3>3. a \notin M
      BY <1>1, <1>5
    <3> QED BY <3>2, <3>3
  <2>5. M \subseteq Mirror
    BY <1>1, <1>3
  <2> QED BY <1>5, <2>3, <2>4, <2>5 DEF M
<1>6. CASE all /\ r.op = "MWC_RCV_OP"
  <2>1. M \subseteq Mirror
    BY <1>1, <1>3
  <2>2. CASE c.vg = "opening"
    <3>1. c.sync_trk = NO_SYNCTRK
      BY <2>2 DEF IGlobal
    <3>2. r.bad = Mirror /\ active # {}
      BY <1>3, <1>6, <2>2 DEF PStale
    <3>3. M = Mirror \ actmir
      BY <1>1, <1>6, <3>1, <3>2 DEF NO_SYNCTRK
    <3>4. Mirror \ (c.stale \cup M) # {}
      BY <1>2, <3>2, <3>3
    <3>5. Good(c, t) \ M \subseteq actmir
      BY <1>3, <3>3
    <3>6. Alike(V, t, Good(c, t) \ M)
      BY <1>2, <3>5 DEF Alike
    <3> QED BY <1>6, <2>1, <3>4, <3>6 DEF M
  <2>3. CASE c.vg = "forced_sync"
    BY <1>6, <2>1, <2>3 DEF M
  <2>4. c.vg # "open"
    BY <1>6 DEF IGlobal
  <2>5. c.vg \in {"opening", "open", "forced_sync"}
    BY DEF StateType
  <2> QED BY <2>2, <2>3, <2>4, <2>5
<1> QED BY <1>4, <1>5, <1>6 DEF PStale, M

LEMMA StaleppEnds ==
  ASSUME NEW c \in StateType, NEW V, NEW t \in Trk, IGlobal(c), PStale(c, V, t), missing \subseteq Mirror
  PROVE  Ends(c, hd_stalepp(c, t), V, t)
<1> DEFINE r == c.req[t]
           M == Marked(c, t)
           all == c.stale \cup r.bad \cup r.avoid = Mirror
           wait == M \ (c.stale \ c.chging)
           err == all /\ (r.err \/ r.op # "MWC_RCV_OP")
           q == [r EXCEPT !.err = err, !.bad = wait, !.sched = "hd_staleppe", !.on = {}]
           syncerr == IF c.sync_trk # NO_SYNCTRK THEN c.syncerr \cup M ELSE c.syncerr
           chging == c.chging \cup (M \ c.stale)
           d == [c EXCEPT !.stale = @ \cup M, !.chging = chging, !.syncerr = syncerr, !.req[t] = q]
           f == [d EXCEPT !.req[t].st = "wheel"]
<1>1. hd_stalepp(c, t) = IF wait = {} THEN hd_finished(d, t) ELSE IF c.off THEN Failed(d, t) ELSE f
  BY DEF hd_stalepp
<1>2. /\ M \subseteq Mirror
      /\ c.vg = "forced_sync" \/ Mirror \ (c.stale \cup M) # {}
      /\ r.op = "write" => /\ Alike(V, t, Good(c, t) \ M)
                           /\ ~all => Hold(V, t, Good(c, t) \ M, r.data)
      /\ c.vg = "opening" => Alike(V, t, Good(c, t) \ M)
  BY MarkedIs
<1>3. err \in BOOLEAN /\ (r.op = "write" => (err <=> all))
  BY DEF PStale
<1> HIDE DEF all
<1> HIDE DEF M, err
<1>4. wait \subseteq Mirror /\ chging \subseteq Mirror /\ c.stale \cup M \subseteq Mirror /\ syncerr \subseteq Mirror
  BY <1>2, Types DEF StateType
<1>5. \A s \in Trk : {x \in Mirror : x \notin c.stale \cup M \/ (s < c.sync_trk /\ x \notin syncerr)} = Good(c, s) \ M
  BY DEF Good, Trk, NO_SYNCTRK
<1> HIDE DEF wait
<1>6. /\ q \in ReqType /\ q.op = r.op /\ q.data = r.data /\ q.avoid = r.avoid /\ q.tried = r.tried
      /\ q.err = err /\ q.bad = wait /\ q.sched = "hd_staleppe" /\ q.on = {}
  <2>1. r \in ReqType
    BY Types
  <2> HIDE DEF r
  <2> QED BY <1>3, <1>4, <2>1 DEF ReqType
<1> HIDE DEF q
<1>7. /\ d \in StateType /\ d.req[t] = q /\ \A s \in Trk \ {t} : d.req[s] = c.req[s]
      /\ d.stale = c.stale \cup M /\ d.syncerr = syncerr /\ d.chging = chging /\ d.off = c.off
      /\ d.sync_trk = c.sync_trk /\ d.sync_msk = c.sync_msk /\ d.rip = c.rip /\ d.i_sched = c.i_sched /\ d.refuse = c.refuse
      /\ d.vg = c.vg /\ d.acked = c.acked /\ d.torn = c.torn
  <2> DEFINE e == [c EXCEPT !.req[t] = q]
  <2>1. e \in StateType /\ SameBut(c, e, t) /\ e.req[t] = q
    BY <1>6, ReqUpd
  <2>2. e.stale = c.stale
    BY <2>1 DEF SameBut
  <2>3. d = [e EXCEPT !.stale = c.stale \cup M, !.chging = chging, !.syncerr = syncerr]
    BY DEF StateType
  <2> HIDE DEF e, d, chging, syncerr
  <2>4. d \in StateType
    BY <1>4, <2>1, <2>3 DEF StateType
  <2>5. /\ d.req = e.req /\ d.stale = c.stale \cup M /\ d.syncerr = syncerr /\ d.chging = chging /\ d.off = e.off
        /\ d.sync_trk = e.sync_trk /\ d.sync_msk = e.sync_msk /\ d.rip = e.rip /\ d.i_sched = e.i_sched /\ d.refuse = e.refuse
        /\ d.vg = e.vg /\ d.acked = e.acked /\ d.torn = e.torn
    BY <2>1, <2>3 DEF StateType
  <2> QED BY <2>1, <2>4, <2>5 DEF SameBut
<1> HIDE DEF d
<1>8. \A s \in Trk : Good(d, s) = Good(c, s) \ M
  BY <1>5, <1>7 DEF Good
<1>9. Outside(c, d, t)
  BY <1>6, <1>7, <1>8 DEF Outside
<1>9a. Chg(c, Trk \ {t}) /\ (wait = {} \/ c.off) => Chg(d, Trk \ {t})
  <2> SUFFICES ASSUME Chg(c, Trk \ {t}), wait = {} \/ c.off, NEW x \in d.chging
               PROVE  /\ x \in d.stale
                      /\ d.off \/ \E s \in Trk \ {t} : Waits(d, x, s)
                      /\ d.sync_trk # NO_SYNCTRK =>
                           x \in d.syncerr \/ \E s \in Trk \ {t} : s >= d.sync_trk /\ Waits(d, x, s)
    BY DEF Chg
  <2>1. CASE x \in c.chging
    BY <1>7, <2>1 DEF Chg, Waits
  <2>2. CASE x \in M \ c.stale
    BY <1>7, <2>2 DEF wait
  <2> QED BY <1>7, <2>1, <2>2
<1>10. Kept(c, d, t)
  BY <1>2, <1>7 DEF Kept, IGlobal
<1>11. IGlobal(d)
  BY <1>7, <1>9, <1>10, FrameGlobal
<1>12. /\ r.op = "write" => Alike(V, t, Good(d, t)) /\ (~err => Hold(V, t, Good(d, t), r.data))
       /\ r.op = "MWC_RCV_OP" => Clean(d, V, t) /\ Alike(V, t, Good(d, t))
  <2>1. r.op = "write" => Alike(V, t, Good(d, t)) /\ (~err => Hold(V, t, Good(d, t), r.data))
    BY <1>2, <1>3, <1>8
  <2>2. r.op = "MWC_RCV_OP" => Clean(d, V, t)
    BY <1>7, <1>8 DEF PStale, Clean, Current, Alike, Hold
  <2>3. r.op = "MWC_RCV_OP" => Alike(V, t, Good(d, t))
    <3> SUFFICES ASSUME r.op = "MWC_RCV_OP" PROVE Alike(V, t, Good(d, t))
      OBVIOUS
    <3>1. CASE c.vg = "opening"
      BY <1>2, <1>8, <3>1
    <3>2. CASE c.vg = "forced_sync"
      <4>1. t \notin d.torn
        BY <1>7, <3>2 DEF IGlobal
      <4> QED BY <2>2, <4>1 DEF Clean, Current
    <3>3. c.vg # "open" /\ c.vg \in {"opening", "open", "forced_sync"}
      BY DEF IGlobal, StateType
    <3> QED BY <3>1, <3>2, <3>3
  <2> QED BY <2>1, <2>2, <2>3
<1>13. wait = {} => Ends(c, hd_finished(d, t), V, t)
  <2> SUFFICES ASSUME wait = {} PROVE Ends(c, hd_finished(d, t), V, t)
    OBVIOUS
  <2>1. IDone(d, V, t)
    BY <1>6, <1>7, <1>12 DEF IDone, PStale, Op, SyncOp
  <2>2. Ends(d, hd_finished(d, t), V, t)
    BY <1>7, <1>11, <2>1, FinishEnds
  <2>3. Chg(c, Trk \ {t}) => Chg(hd_finished(d, t), Trk)
    BY <1>9a, <2>2 DEF Ends, Frame
  <2> QED BY <1>6, <1>7, <1>9, <1>10, <2>2, <2>3, FromOutside
<1>14. c.off => Ends(c, Failed(d, t), V, t)
  <2> SUFFICES ASSUME c.off PROVE Ends(c, Failed(d, t), V, t)
    OBVIOUS
  <2> DEFINE g == [d EXCEPT !.req[t].err = TRUE]
             p == [q EXCEPT !.err = TRUE]
  <2>1. p \in ReqType /\ p.op = q.op /\ p.err = TRUE /\ p.data = q.data
    BY <1>6 DEF ReqType
  <2>2. g = [d EXCEPT !.req[t] = p]
    BY <1>7
  <2> HIDE DEF p, g
  <2>3. g \in StateType /\ SameBut(d, g, t) /\ g.req[t] = p
    BY <1>7, <2>1, <2>2, ReqUpd
  <2>4. Good(g, t) = Good(d, t) /\ g.torn = d.torn /\ g.acked = d.acked
    BY <2>3 DEF Good, SameBut
  <2>5. IDone(g, V, t)
    BY <1>6, <1>12, <2>1, <2>3, <2>4 DEF IDone, PStale, Op, SyncOp, Clean, Current
  <2>6. Ends(d, Failed(d, t), V, t)
    BY <1>7, <1>11, <2>5, FailedEnds DEF g
  <2>7. Chg(c, Trk \ {t}) => Chg(Failed(d, t), Trk)
    BY <1>9a, <2>6 DEF Ends, Frame
  <2> QED BY <1>6, <1>7, <1>9, <1>10, <2>6, <2>7, FromOutside
<1>15. Ends(c, f, V, t)
  <2> DEFINE p == [q EXCEPT !.st = "wheel"]
  <2>1. /\ p \in ReqType /\ p.op = q.op /\ p.err = q.err /\ p.data = q.data /\ p.st = "wheel" /\ p.on = {}
        /\ p.bad = wait /\ p.sched = "hd_staleppe"
    BY <1>6 DEF ReqType
  <2>2. f = [d EXCEPT !.req[t] = p]
    BY <1>7
  <2> HIDE DEF p, f
  <2>3. f \in StateType /\ SameBut(d, f, t) /\ f.req[t] = p
    BY <1>7, <2>1, <2>2, ReqUpd
  <2>4. Good(f, t) = Good(d, t) /\ f.torn = d.torn /\ f.acked = d.acked
    BY <2>3 DEF Good, SameBut
  <2>5. IWheel(f, V, t)
    BY <1>6, <1>12, <2>1, <2>3, <2>4 DEF IWheel, PStale, SyncOp, Clean, Current
  <2>6. IReq(f, V, t)
    BY <2>1, <2>3, <2>5 DEF IReq
  <2>7. Ends(d, f, V, t)
    BY <1>7, <1>11, <2>1, <2>3, <2>6, FrameSame DEF Ends
  <2>8. ASSUME Chg(c, Trk \ {t}), NEW x \in f.chging
        PROVE  /\ x \in f.stale
               /\ f.off \/ \E s \in Trk : Waits(f, x, s)
               /\ f.sync_trk # NO_SYNCTRK =>
                    x \in f.syncerr \/ \E s \in Trk : s >= f.sync_trk /\ Waits(f, x, s)
    <3>1. /\ f.chging = chging /\ f.stale = c.stale \cup M /\ f.off = c.off /\ f.sync_trk = c.sync_trk
          /\ f.syncerr = syncerr /\ \A s \in Trk \ {t} : f.req[s] = c.req[s]
      BY <1>7, <2>3 DEF SameBut
    <3>2. CASE x \in c.chging
      BY <2>8, <3>1, <3>2 DEF Chg, Waits
    <3>3. CASE x \in M \ c.stale
      <4>1. Waits(f, x, t)
        BY <2>1, <2>3, <3>3 DEF Waits, wait
      <4> QED BY <3>1, <3>3, <4>1
    <3> QED BY <2>8, <3>1, <3>2, <3>3
  <2>9. Chg(c, Trk \ {t}) => Chg(f, Trk)
    BY <2>8 DEF Chg
  <2> QED BY <1>6, <1>7, <1>9, <1>10, <2>7, <2>9, FromOutside
<1> QED BY <1>1, <1>13, <1>14, <1>15

-----------------------------------------------------------------------------
(* Writes: what holds when all copies have been looked at (PWritten), and    *)
(* when the transfer to a mirror has ended (PWrite).                         *)
PWritten(c, V, t) ==
  LET r == c.req[t] IN
  /\ r.op = "write"
  /\ Good(c, t) \cap r.avoid = {} /\ r.bad \cap r.avoid = {}
  /\ Hold(V, t, Good(c, t) \ r.bad, r.data)
  /\ ~r.err => r.bad \cup r.avoid # Mirror

Bad(r, mirror) == IF r.err THEN r.bad \cup {mirror} ELSE r.bad

PWrite(c, V, t, mirror) ==
  LET r == c.req[t] IN
  /\ r.op = "write" /\ r.st = "disk" /\ r.sched \in {"hd_seqwrite", "hd_parwrite"} /\ ~r.rd
  /\ Good(c, t) \cap r.avoid = {}
  /\ (r.bad \cup r.on) \cap r.avoid = {}
  /\ r.bad \cap r.on = {} /\ mirror \in r.on
  /\ r.sched = "hd_seqwrite" => r.on = {mirror} /\ mirror = r.mirror /\ mirror \in r.done /\ r.bad \subseteq r.done
  /\ r.sched = "hd_parwrite" => ~r.refused
  /\ Hold(V, t, Good(c, t) \ (Bad(r, mirror) \cup (Todo(r) \ {mirror})), r.data)

LEMMA WrittenEnds ==
  ASSUME NEW c \in StateType, NEW V, NEW t \in Trk, IGlobal(c), PWritten(c, V, t), missing \subseteq Mirror
  PROVE  Ends(c, Written(c, t), V, t)
<1> DEFINE r == c.req[t]
<1>1. Good(c, t) \subseteq Mirror /\ r.avoid \subseteq Mirror /\ r.bad \subseteq Mirror
  BY Types DEF Good
<1>2. CASE r.bad = {}
  <2>1. Hold(V, t, Good(c, t), r.data)
    BY <1>2 DEF PWritten
  <2>2. Alike(V, t, Good(c, t))
    BY <2>1 DEF Hold, Alike
  <2>3. IDone(c, V, t)
    BY <2>1, <2>2 DEF PWritten, IDone, Op
  <2> QED BY <1>2, <2>3, FinishEnds DEF Written
<1>3. CASE r.bad # {} /\ Cardinality(Mirror \ r.avoid) = 1
  <2>1. IsFiniteSet(Mirror \ r.avoid)
    BY MirrorType, FS_Difference
  <2>2. PICK x : Mirror \ r.avoid = {x}
    BY <1>3, <2>1, FS_Singleton
  <2>3. Good(c, t) \subseteq {x} /\ r.bad = {x}
    BY <1>1, <1>3, <2>2 DEF PWritten
  <2>4. Alike(V, t, Good(c, t)) /\ r.err
    BY <1>1, <2>2, <2>3 DEF PWritten, Alike
  <2>5. IDone(c, V, t)
    BY <2>4 DEF PWritten, IDone, Op
  <2> QED BY <1>3, <2>5, FinishEnds DEF Written
<1>4. CASE ~(r.bad = {} \/ Cardinality(Mirror \ r.avoid) = 1)
  <2>1. PStale(c, V, t)
    BY DEF PWritten, PStale, IGlobal
  <2> QED BY <1>4, <2>1, StaleppEnds DEF Written
<1> QED BY <1>2, <1>3, <1>4

LEMMA ParwriteEnds ==
  ASSUME NEW c \in StateType, NEW V, NEW t \in Trk, NEW mirror \in Mirror, IGlobal(c), PWrite(c, V, t, mirror),
         c.req[t].sched = "hd_parwrite", missing \subseteq Mirror
  PROVE  Ends(c, hd_parwrite(c, t, mirror), V, t)
<1> DEFINE r == c.req[t]
           bad == Bad(r, mirror)
           q == [r EXCEPT !.bad = bad, !.on = @ \ {mirror}]
           d == [c EXCEPT !.req[t] = q]
<1>1. hd_parwrite(c, t, mirror) = IF r.on \ {mirror} # {} THEN d ELSE Written(d, t)
  BY DEF hd_parwrite, Bad
<1>2. bad \in SUBSET Mirror /\ r.on \ {mirror} \in SUBSET Mirror /\ r \in ReqType
  BY Types DEF Bad
<1> HIDE DEF bad
<1>3. /\ q \in ReqType /\ q.bad = bad /\ q.on = r.on \ {mirror} /\ q.op = r.op /\ q.st = r.st /\ q.sched = r.sched
      /\ q.rd = r.rd /\ q.avoid = r.avoid /\ q.data = r.data /\ q.err = r.err /\ q.done = r.done /\ q.mirror = r.mirror
      /\ q.refused = r.refused
  <2> HIDE DEF r
  <2> QED BY <1>2 DEF ReqType
<1> HIDE DEF q
<1>4. d \in StateType /\ SameBut(c, d, t) /\ d.req[t] = q
  BY <1>3, ReqUpd
<1> HIDE DEF d
<1>5. Good(d, t) = Good(c, t)
  BY <1>4 DEF Good, SameBut
<1>6. bad \cap r.avoid = {} /\ bad \cap (r.on \ {mirror}) = {}
  BY DEF PWrite, bad, Bad
<1>7. Hold(V, t, Good(d, t) \ (bad \cup (r.on \ {mirror})), r.data)
  BY <1>5 DEF PWrite, Todo, bad, Hold
<1>8. CASE r.on \ {mirror} # {}
  <2>1. IWrite(d, V, t)
    BY <1>3, <1>4, <1>5, <1>6, <1>7, <1>8 DEF IWrite, PWrite, Todo
  <2>2. IReq(d, V, t)
    BY <1>3, <1>4, <2>1 DEF IReq, IDisk, PWrite, Op
  <2>3. Ends(c, d, V, t)
    BY <1>3, <1>4, <2>2, FrameSame DEF Ends
  <2> QED BY <1>1, <1>8, <2>3
<1>9. CASE r.on \ {mirror} = {}
  <2>1. ~r.err => bad \cup r.avoid # Mirror
    BY DEF bad, Bad, PWrite
  <2>2. Hold(V, t, Good(d, t) \ bad, r.data)
    BY <1>7, <1>9 DEF Hold
  <2>3. PWritten(d, V, t)
    BY <1>3, <1>4, <1>5, <1>6, <2>1, <2>2 DEF PWritten, PWrite
  <2>4. IGlobal(d)
    BY <1>3, <1>4, GlobalSame
  <2>5. Ends(d, Written(d, t), V, t)
    BY <1>4, <2>3, <2>4, WrittenEnds
  <2> QED BY <1>1, <1>3, <1>4, <1>9, <2>5, FromSame
<1> QED BY <1>8, <1>9

LEMMA SeqwriteEnds ==
  ASSUME NEW c \in StateType, NEW V, NEW t \in Trk, NEW mirror \in Mirror, IGlobal(c), PWrite(c, V, t, mirror),
         c.req[t].sched = "hd_seqwrite", missing \subseteq Mirror
  PROVE  Ends(c, hd_seqwrite(c, t), V, t)
<1> DEFINE r == c.req[t]
           bad == Bad(r, r.mirror)
           q == [r EXCEPT !.bad = bad]
           d == [c EXCEPT !.req[t] = q]
           p == [q EXCEPT !.bad = bad \cup Left(c, t)]
           e == [d EXCEPT !.req[t].bad = @ \cup Left(c, t)]
<1>1. hd_seqwrite(c, t) = IF Usable(c, t) # {} THEN hd_seqnext(d, t) ELSE Written(e, t)
  BY DEF hd_seqwrite, Bad
<1>a. mirror = r.mirror
  BY DEF PWrite
<1>2. bad \in SUBSET Mirror /\ r \in ReqType /\ Left(c, t) \in SUBSET Mirror
  BY <1>a, Types DEF Bad, Left
<1> HIDE DEF bad
<1>3. /\ q \in ReqType /\ q.bad = bad /\ q.on = r.on /\ q.op = r.op /\ q.st = r.st /\ q.sched = r.sched
      /\ q.rd = r.rd /\ q.avoid = r.avoid /\ q.data = r.data /\ q.err = r.err /\ q.done = r.done
  <2> HIDE DEF r
  <2> QED BY <1>2 DEF ReqType
<1> HIDE DEF q
<1>4. d \in StateType /\ SameBut(c, d, t) /\ d.req[t] = q
  BY <1>3, ReqUpd
<1>5. e = [d EXCEPT !.req[t] = p]
  BY <1>3, <1>4
<1> HIDE DEF d, e
<1>6. Good(d, t) = Good(c, t) /\ Good(c, t) \subseteq Mirror
  BY <1>4 DEF Good, SameBut
<1>7. IGlobal(d)
  BY <1>3, <1>4, GlobalSame
<1>8. bad \cap r.avoid = {} /\ bad \subseteq r.done /\ mirror \in r.done
  BY <1>a DEF PWrite, bad, Bad
<1>9. Hold(V, t, Good(c, t) \ (bad \cup (Mirror \ r.done)), r.data)
  <2>1. Todo(r) \ {mirror} \subseteq Mirror \ r.done
    BY DEF PWrite, Todo
  <2> QED BY <1>a, <2>1 DEF PWrite, bad, Hold
<1>10. CASE Usable(c, t) # {}
  <2>1. Left(d, t) = Left(c, t) /\ Usable(d, t) = Usable(c, t)
    BY <1>3, <1>4 DEF Left, Usable, Broken, SameBut
  <2> DEFINE f == hd_seqnext(d, t)
             s == f.req[t]
  <2>2. \E next \in Usable(d, t), P \in SUBSET (Left(d, t) \ Usable(d, t)) :
           /\ f \in StateType /\ SameBut(d, f, t)
           /\ s.st = "disk" /\ s.mirror = next /\ s.on = {next} /\ s.err = FALSE
           /\ s.done = q.done \cup P \cup {next} /\ s.bad = q.bad \cup P
           /\ s.op = q.op /\ s.sched = q.sched /\ s.rd = q.rd /\ s.avoid = q.avoid
           /\ s.data = q.data /\ s.tried = q.tried
    <3>1. Usable(d, t) # {} /\ d \in StateType /\ d.req[t] = q
      BY <1>4, <1>10, <2>1
    <3> QED BY <3>1, SeqNextIs
  <2> HIDE DEF f
  <2>3. PICK next \in Usable(c, t), P \in SUBSET (Left(c, t) \ Usable(c, t)) :
           /\ f \in StateType /\ SameBut(d, f, t)
           /\ s.st = "disk" /\ s.mirror = next /\ s.on = {next}
           /\ s.done = r.done \cup P \cup {next} /\ s.bad = bad \cup P
           /\ s.op = r.op /\ s.sched = r.sched /\ s.rd = r.rd /\ s.avoid = r.avoid
           /\ s.data = r.data
    BY <1>3, <2>1, <2>2
  <2>4. SameBut(c, f, t)
    BY <1>4, <2>3 DEF SameBut
  <2>5. Good(f, t) = Good(c, t)
    BY <2>4 DEF Good, SameBut
  <2>6. /\ next \in Left(c, t) /\ P \subseteq Left(c, t) /\ next \notin P
        /\ Left(c, t) = Mirror \ (r.done \cup r.avoid)
    BY DEF Usable, Left
  <2>7. Hold(V, t, Good(f, t) \ (s.bad \cup Todo(s)), s.data)
    BY <1>6, <1>9, <2>3, <2>5, <2>6 DEF Hold, Todo, PWrite
  <2>8. /\ (s.bad \cup s.on) \cap s.avoid = {} /\ s.bad \cap s.on = {}
        /\ s.mirror \in s.done /\ s.bad \subseteq s.done
    BY <1>8, <2>3, <2>6
  <2>9. IWrite(f, V, t)
    BY <2>3, <2>5, <2>7, <2>8 DEF IWrite, PWrite
  <2>10. IReq(f, V, t)
    BY <2>3, <2>9 DEF IReq, IDisk, PWrite, Op
  <2>11. Ends(c, f, V, t)
    BY <2>3, <2>4, <2>10, FrameSame DEF Ends
  <2> QED BY <1>1, <1>10, <2>11 DEF f
<1>11. CASE Usable(c, t) = {}
  <2>1. /\ p \in ReqType /\ p.bad = bad \cup Left(c, t) /\ p.op = r.op
        /\ p.avoid = r.avoid /\ p.data = r.data /\ p.err = r.err
    BY <1>2, <1>3 DEF ReqType
  <2> HIDE DEF p
  <2>2. e \in StateType /\ SameBut(d, e, t) /\ e.req[t] = p
    BY <1>4, <1>5, <2>1, ReqUpd
  <2>3. SameBut(c, e, t)
    BY <1>4, <2>2 DEF SameBut
  <2>4. Good(e, t) = Good(c, t)
    BY <2>3 DEF Good, SameBut
  <2>5. Left(c, t) = Mirror \ (r.done \cup r.avoid)
    BY DEF Left
  <2>6. Good(c, t) \cap r.avoid = {}
    BY DEF PWrite
  <2>7. Hold(V, t, Good(e, t) \ p.bad, p.data)
    BY <1>6, <1>9, <2>1, <2>4, <2>5, <2>6 DEF Hold
  <2>8. ~r.err => p.bad \cup p.avoid # Mirror
    BY <1>a, <1>8, <2>1, <2>5 DEF bad, Bad, PWrite
  <2>9. PWritten(e, V, t)
    BY <1>8, <2>1, <2>2, <2>4, <2>5, <2>6, <2>7, <2>8 DEF PWritten, PWrite
  <2>10. IGlobal(e)
    BY <2>1, <2>2, <2>3, GlobalSame
  <2>11. Ends(e, Written(e, t), V, t)
    BY <2>2, <2>9, <2>10, WrittenEnds
  <2> QED BY <1>1, <1>11, <2>1, <2>2, <2>3, <2>11, FromSame
<1> QED BY <1>10, <1>11

-----------------------------------------------------------------------------
(* Resynchronisation and recovery: how they change the partition.           *)
PartSet(c, t, stale, syncerr, sync_trk, sync_msk, rip, q) ==
  [c EXCEPT !.stale = stale, !.syncerr = syncerr, !.sync_trk = sync_trk, !.sync_msk = sync_msk,
            !.rip = rip, !.req[t] = q]

(* What of the state is as it was before.                                   *)
Beside(c, d, t) ==
  /\ d.vg = c.vg /\ d.i_sched = c.i_sched /\ d.refuse = c.refuse /\ d.acked = c.acked /\ d.torn = c.torn
  /\ d.chging = c.chging /\ d.off = c.off
  /\ \A s \in Trk \ {t} : d.req[s] = c.req[s]

PartIs(c, d, t, stale, syncerr, sync_trk, sync_msk, rip, q) ==
  /\ d \in StateType /\ Beside(c, d, t) /\ d.req[t] = q /\ d.stale = stale /\ d.syncerr = syncerr
  /\ d.sync_trk = sync_trk /\ d.sync_msk = sync_msk /\ d.rip = rip

LEMMA PartUpd ==
  ASSUME NEW c \in StateType, NEW t \in Trk, NEW q \in ReqType, NEW stale \in SUBSET Mirror,
         NEW syncerr \in SUBSET Mirror, NEW sync_trk \in Trk \cup {NO_SYNCTRK},
         NEW sync_msk \in SUBSET Mirror, NEW rip \in BOOLEAN
  PROVE  PartIs(c, PartSet(c, t, stale, syncerr, sync_trk, sync_msk, rip, q), t, stale, syncerr, sync_trk, sync_msk,
                rip, q)
<1> DEFINE e == [c EXCEPT !.req[t] = q]
           d == PartSet(c, t, stale, syncerr, sync_trk, sync_msk, rip, q)
<1>1. e \in StateType /\ SameBut(c, e, t) /\ e.req[t] = q
  BY ReqUpd
<1>2. d = [e EXCEPT !.stale = stale, !.syncerr = syncerr, !.sync_trk = sync_trk,
                    !.sync_msk = sync_msk, !.rip = rip]
  BY DEF PartSet, StateType
<1> HIDE DEF e, d
<1>3. d \in StateType
  BY <1>1, <1>2 DEF StateType
<1>4. /\ d.req = e.req /\ d.vg = e.vg /\ d.i_sched = e.i_sched /\ d.refuse = e.refuse /\ d.acked = e.acked /\ d.torn = e.torn
      /\ d.chging = e.chging /\ d.off = e.off
      /\ d.stale = stale /\ d.syncerr = syncerr /\ d.sync_trk = sync_trk
      /\ d.sync_msk = sync_msk /\ d.rip = rip
  BY <1>1, <1>2 DEF StateType
<1>5. PartIs(c, d, t, stale, syncerr, sync_trk, sync_msk, rip, q)
  BY <1>1, <1>3, <1>4 DEF PartIs, Beside, SameBut
<1> QED BY <1>5 DEF d

LEMMA SyncFrame ==
  ASSUME NEW c \in StateType, NEW d \in StateType, NEW t \in Trk, IGlobal(c), Beside(c, d, t),
         c.req[t].op \in SyncOp, d.req[t].op = c.req[t].op, d.stale \subseteq c.stale,
         c.vg = "opening" => d.sync_trk = NO_SYNCTRK, d.rip => d.sync_trk # NO_SYNCTRK,
         \A s \in Trk \ {t} : Good(d, s) \subseteq Good(c, s),
         \/ d.stale = c.stale /\ c.syncerr \subseteq d.syncerr /\ d.sync_trk \in {c.sync_trk, NO_SYNCTRK}
         \/ Chg(c, Trk \ {t}) => Chg(d, Trk)
  PROVE  Frame(c, d, t) /\ Kept(c, d, t) /\ IGlobal(d)
<1>1. Frame(c, d, t)
  <2>1. Outside(c, d, t)
    BY DEF Outside, Beside
  <2>2. Chg(c, Trk \ {t}) => Chg(d, Trk)
    BY ChgStep, ChgMore DEF Beside
  <2> QED BY <2>1, <2>2 DEF Frame
<1>2. Kept(c, d, t)
  <2>1. c.vg = "forced_sync" \/ Mirror \ d.stale # {}
    BY DEF IGlobal
  <2> QED BY <2>1 DEF Kept, IGlobal, Beside
<1> QED BY <1>1, <1>2, FrameGlobal DEF Frame

(* A physical request of it begins.                                         *)
LEMMA SyncBegins ==
  ASSUME NEW c \in StateType, NEW V, NEW t \in Trk, NEW d \in StateType, NEW x \in Mirror,
         Frame(c, d, t), Kept(c, d, t), IGlobal(d), d.req[t].op = c.req[t].op, d.req[t].st # "wheel",
         IReq(hd_begin(d, t, x), V, t)
  PROVE  Ends(c, hd_begin(d, t, x), V, t)
<1> DEFINE f == hd_begin(d, t, x)
<1>1. /\ f \in StateType /\ SameBut(d, f, t)
      /\ f.req[t] = [d.req[t] EXCEPT !.st = "disk", !.mirror = x, !.on = {x}, !.err = FALSE,
                                     !.refused = (<<x, t>> \in d.refuse)]
  BY BeginIs
<1> HIDE DEF f
<1>2. f.req[t].op = d.req[t].op
  BY <1>1, Types DEF ReqType
<1>3. Frame(d, f, t) /\ Kept(d, f, t)
  BY <1>1, <1>2, FrameSame
<1>4. Ends(d, f, V, t)
  BY <1>1, <1>3 DEF Ends, f
<1> QED BY <1>4, FromFrame DEF f

(* What hd_begin makes of the request, and what it leaves.                  *)
Begun(d, f, t, x) ==
  LET p == d.req[t]
      q == f.req[t]
  IN  /\ q.st = "disk" /\ q.mirror = x /\ q.on = {x} /\ q.err = FALSE
      /\ q.op = p.op /\ q.sched = p.sched /\ q.rd = p.rd /\ q.done = p.done /\ q.bad = p.bad
      /\ q.avoid = p.avoid /\ q.data = p.data /\ q.tried = p.tried
      /\ f.stale = d.stale /\ f.syncerr = d.syncerr /\ f.sync_trk = d.sync_trk
      /\ f.sync_msk = d.sync_msk /\ f.vg = d.vg /\ f.acked = d.acked /\ f.torn = d.torn
      /\ f.i_sched = d.i_sched
      /\ Good(f, t) = Good(d, t) /\ Source(f, t) = Source(d, t)

LEMMA BeginFields ==
  ASSUME NEW d \in StateType, NEW t \in Trk, NEW x \in Mirror
  PROVE  Begun(d, hd_begin(d, t, x), t, x)
<1> DEFINE f == hd_begin(d, t, x)
<1>1. /\ f \in StateType /\ SameBut(d, f, t)
      /\ f.req[t] = [d.req[t] EXCEPT !.st = "disk", !.mirror = x, !.on = {x}, !.err = FALSE,
                                     !.refused = (<<x, t>> \in d.refuse)]
  BY BeginIs
<1> HIDE DEF f
<1>2. LET p == d.req[t]
          q == f.req[t]
      IN  /\ q.st = "disk" /\ q.mirror = x /\ q.on = {x} /\ q.err = FALSE
          /\ q.op = p.op /\ q.sched = p.sched /\ q.rd = p.rd /\ q.done = p.done /\ q.bad = p.bad
          /\ q.avoid = p.avoid /\ q.data = p.data /\ q.tried = p.tried
  BY <1>1, Types DEF ReqType
<1>3. /\ f.stale = d.stale /\ f.syncerr = d.syncerr /\ f.sync_trk = d.sync_trk
      /\ f.sync_msk = d.sync_msk /\ f.vg = d.vg /\ f.acked = d.acked /\ f.torn = d.torn
      /\ f.i_sched = d.i_sched
  BY <1>1 DEF SameBut
<1>4. Good(f, t) = Good(d, t)
  BY <1>3 DEF Good
<1>5. Source(f, t) = Source(d, t)
  BY <1>2, <1>4 DEF Source
<1>6. Begun(d, f, t, x)
  BY <1>2, <1>3, <1>4, <1>5 DEF Begun
<1> QED BY <1>6 DEF f

(* The next mirror of a request that reads: none is passed over.            *)
Retries(c, f, t, next, bad) ==
  LET r == c.req[t]
      q == f.req[t]
  IN  /\ f \in StateType /\ SameBut(c, f, t)
      /\ q.st = "disk" /\ q.mirror = next /\ q.on = {next} /\ q.err = FALSE
      /\ q.done = r.done \cup {next} /\ q.bad = bad
      /\ q.op = r.op /\ q.sched = r.sched /\ q.rd = r.rd /\ q.avoid = r.avoid
      /\ q.data = r.data /\ q.tried = r.tried
      /\ Good(f, t) = Good(c, t) /\ Source(f, t) = Source(c, t)

LEMMA RetryIs ==
  ASSUME NEW c \in StateType, NEW t \in Trk, c.req[t].op # "write", Usable(c, t) # {}, NEW bad \in SUBSET Mirror
  PROVE  \E next \in Left(c, t) : Retries(c, hd_seqnext([c EXCEPT !.req[t].bad = bad], t), t, next, bad)
<1> DEFINE r == c.req[t]
           p == [r EXCEPT !.bad = bad]
           d == [c EXCEPT !.req[t] = p]
           f == hd_seqnext(d, t)
           s == f.req[t]
<1>1. /\ p \in ReqType /\ p.op = r.op /\ p.avoid = r.avoid /\ p.done = r.done /\ p.bad = bad
      /\ p.sched = r.sched /\ p.rd = r.rd /\ p.data = r.data /\ p.tried = r.tried
  <2>1. r \in ReqType
    BY Types
  <2> HIDE DEF r
  <2> QED BY <2>1 DEF ReqType
<1>2. [c EXCEPT !.req[t].bad = bad] = d
  OBVIOUS
<1> HIDE DEF p
<1>3. d \in StateType /\ SameBut(c, d, t) /\ d.req[t] = p
  BY <1>1, ReqUpd
<1> HIDE DEF d
<1>4. Left(d, t) = Left(c, t) /\ Usable(d, t) = Left(d, t) /\ Usable(c, t) = Left(c, t)
  BY <1>1, <1>3 DEF Left, Usable
<1>5. \E next \in Usable(d, t), P \in SUBSET (Left(d, t) \ Usable(d, t)) :
         /\ f \in StateType /\ SameBut(d, f, t)
         /\ s.st = "disk" /\ s.mirror = next /\ s.on = {next} /\ s.err = FALSE
         /\ s.done = p.done \cup P \cup {next} /\ s.bad = p.bad \cup P
         /\ s.op = p.op /\ s.sched = p.sched /\ s.rd = p.rd /\ s.avoid = p.avoid
         /\ s.data = p.data /\ s.tried = p.tried
  <2>1. Usable(d, t) # {} /\ d \in StateType /\ d.req[t] = p
    BY <1>3, <1>4
  <2> QED BY <2>1, SeqNextIs
<1> HIDE DEF f
<1>6. PICK next \in Left(c, t) :
         /\ f \in StateType /\ SameBut(d, f, t)
         /\ s.st = "disk" /\ s.mirror = next /\ s.on = {next} /\ s.err = FALSE
         /\ s.done = r.done \cup {next} /\ s.bad = bad
         /\ s.op = r.op /\ s.sched = r.sched /\ s.rd = r.rd /\ s.avoid = r.avoid
         /\ s.data = r.data /\ s.tried = r.tried
  BY <1>1, <1>4, <1>5
<1>7. SameBut(c, f, t)
  BY <1>3, <1>6 DEF SameBut
<1>8. Good(f, t) = Good(c, t)
  BY <1>7 DEF Good, SameBut
<1>9. Source(f, t) = Source(c, t)
  BY <1>6, <1>8 DEF Source
<1>10. Retries(c, f, t, next, bad)
  BY <1>6, <1>7, <1>8, <1>9 DEF Retries
<1> QED BY <1>2, <1>10 DEF f

(* What holds when a transfer of a resynchronisation or a recovery has ended. *)
PSync(c, V, t) ==
  LET r == c.req[t] IN
  /\ r.st = "disk" /\ r.sched = "hd_resyncpp" /\ r.avoid # Mirror /\ r.mirror \in Mirror
  /\ r.rd => r.mirror \notin r.avoid
  /\ t \notin c.torn =>
       Current(c, V, t, Source(c, t)) /\ (~r.rd \/ ~r.err => Hold(V, t, Source(c, t), r.data))

PResync(c, V, t) ==
  LET r == c.req[t]
      all == c.sync_msk \cup (IF r.rd THEN {} ELSE r.done)
  IN
  /\ r.op = "RESYNC_OP" /\ c.sync_trk = t
  /\ all # {} /\ all \subseteq c.stale \cap r.avoid /\ c.stale \ c.syncerr \subseteq all
  /\ ~r.rd => r.mirror \in r.done /\ Hold(V, t, r.done \ (c.syncerr \cup (IF r.err THEN {r.mirror} ELSE {})), r.data)
  /\ PSync(c, V, t)

PRecover(c, V, t) ==
  LET r == c.req[t] IN
  /\ r.op = "MWC_RCV_OP" /\ c.sync_msk \cap r.avoid = {} /\ r.mirror \notin r.avoid
  /\ c.vg = "opening" => c.stale \subseteq r.avoid
  /\ c.vg = "opening" /\ r.rd => /\ c.sync_msk = Mirror \ r.avoid /\ r.done \subseteq r.bad \cup {r.mirror}
                                 /\ ~r.err => V[r.mirror][t] = r.data
  /\ c.vg = "opening" /\ ~r.rd => /\ r.avoid \subseteq r.bad
                                  /\ Hold(V, t, Mirror \ (Bad(r, r.mirror) \cup c.sync_msk), r.data)
  /\ PSync(c, V, t)

LEMMA SyncClean ==
  ASSUME NEW c \in StateType, NEW V, NEW t \in Trk, PSync(c, V, t), NEW d, d.torn = c.torn, d.acked = c.acked,
         Good(d, t) \subseteq Good(c, t)
  PROVE  Clean(d, V, t)
BY DEF PSync, Clean, Current, Alike, Hold, Source

LEMMA ResyncRead ==
  ASSUME NEW c \in StateType, NEW V, NEW t \in Trk, IGlobal(c), PResync(c, V, t), c.req[t].rd
  PROVE  Ends(c, SyncRead(c, t), V, t)
<1> DEFINE r == c.req[t]
           bad == r.bad \cup {r.mirror}
           d == [c EXCEPT !.req[t].bad = bad]
           e == [d EXCEPT !.sync_trk = NO_SYNCTRK, !.rip = FALSE, !.sync_msk = {}]
           next == Min(c.sync_msk)
           q == [r EXCEPT !.rd = FALSE, !.done = {next} \cup {}, !.bad = {}]
           g == [c EXCEPT !.sync_msk = c.sync_msk \ {next}, !.req[t] = q]
<1>1. SyncRead(c, t) =
        IF r.err THEN IF Usable(c, t) # {} THEN hd_seqnext(d, t) ELSE hd_finished(e, t)
        ELSE hd_begin(g, t, next)
  BY DEF SyncRead, PResync
<1>2. bad \in SUBSET Mirror /\ r \in ReqType /\ c.sync_msk \in SUBSET Mirror
  BY Types DEF PResync, PSync
<1>3. CASE r.err /\ Usable(c, t) # {}
  <2> DEFINE f == hd_seqnext(d, t)
             s == f.req[t]
  <2>1. \E nxt \in Left(c, t) : Retries(c, f, t, nxt, bad)
    <3>1. r.op # "write"
      BY DEF PResync
    <3> HIDE DEF bad
    <3> QED BY <1>2, <1>3, <3>1, RetryIs
  <2> HIDE DEF f
  <2>2. PICK nxt \in Left(c, t) :
           /\ f \in StateType /\ SameBut(c, f, t)
           /\ s.st = "disk" /\ s.mirror = nxt /\ s.on = {nxt}
           /\ s.op = r.op /\ s.sched = r.sched /\ s.rd = r.rd /\ s.avoid = r.avoid
           /\ Good(f, t) = Good(c, t) /\ Source(f, t) = Source(c, t)
    BY <2>1 DEF Retries
  <2>3. nxt \in Mirror /\ nxt \notin r.avoid
    BY DEF Left
  <2>4. IReads(f, V, t)
    BY <2>2, <2>3 DEF IReads, PResync, PSync, SameBut, Current
  <2>5. IResync(f, V, t)
    BY <2>2, <2>4 DEF IResync, PResync, PSync, SameBut
  <2>6. IReq(f, V, t)
    BY <2>2, <2>5 DEF IReq, IDisk, PResync, Op, SyncOp
  <2>7. Ends(c, f, V, t)
    BY <2>2, <2>6, FrameSame DEF Ends
  <2> QED BY <1>1, <1>3, <2>7 DEF f
<1>4. CASE r.err /\ Usable(c, t) = {}
  <2> DEFINE p == [r EXCEPT !.bad = bad]
  <2>1. p \in ReqType /\ p.op = r.op /\ p.err = r.err /\ p.st = "disk"
    <3>0. r.st = "disk"
      BY DEF PResync, PSync
    <3> HIDE DEF r, bad
    <3> QED BY <1>2, <3>0 DEF ReqType
  <2>2. e = PartSet(c, t, c.stale, c.syncerr, NO_SYNCTRK, {}, FALSE, p)
    BY DEF PartSet, StateType
  <2> HIDE DEF p, e
  <2>3. /\ e \in StateType /\ Beside(c, e, t) /\ e.req[t] = p /\ e.stale = c.stale /\ e.syncerr = c.syncerr
        /\ e.sync_trk = NO_SYNCTRK /\ e.sync_msk = {} /\ e.rip = FALSE
    <3>1. /\ c.stale \in SUBSET Mirror /\ c.syncerr \in SUBSET Mirror /\ NO_SYNCTRK \in Trk \cup {NO_SYNCTRK}
          /\ {} \in SUBSET Mirror /\ FALSE \in BOOLEAN
      BY Types
    <3>2. PartIs(c, e, t, c.stale, c.syncerr, NO_SYNCTRK, {}, FALSE, p)
      BY <2>1, <2>2, <3>1, PartUpd
    <3> QED BY <3>2 DEF PartIs
  <2>4. \A s \in Trk : Good(e, s) \subseteq Good(c, s)
    BY <2>3 DEF Good, Trk, NO_SYNCTRK
  <2>5. Frame(c, e, t) /\ Kept(c, e, t) /\ IGlobal(e)
    BY <2>1, <2>3, <2>4, SyncFrame DEF PResync, SyncOp
  <2>6. Clean(e, V, t)
    BY <2>3, <2>4, SyncClean DEF PResync, Beside
  <2>7. IDone(e, V, t)
    BY <2>1, <2>3, <2>6 DEF IDone, PResync, Op, SyncOp
  <2>8. Ends(c, hd_finished(e, t), V, t)
    BY <2>1, <2>3, <2>5, <2>7, FinishEnds, FromFrame
  <2> QED BY <1>1, <1>4, <2>8
<1>5. CASE ~r.err
  <2>1. next \in c.sync_msk /\ next \in Mirror
    BY <1>2, MirrorType DEF PResync
  <2> HIDE DEF next
  <2>2. /\ q \in ReqType /\ q.op = r.op /\ q.sched = r.sched /\ q.rd = FALSE /\ q.done = {next} /\ q.avoid = r.avoid
        /\ q.data = r.data /\ q.st = "disk"
    <3>1. {next} \cup {} \in SUBSET Mirror /\ r.st = "disk"
      BY <2>1 DEF PResync, PSync
    <3> HIDE DEF r
    <3> QED BY <1>2, <3>1 DEF ReqType
  <2>3. g = PartSet(c, t, c.stale, c.syncerr, c.sync_trk, c.sync_msk \ {next}, c.rip, q)
    BY DEF PartSet, StateType
  <2> HIDE DEF q, g
  <2>4. c.rip \in BOOLEAN /\ c.sync_msk \ {next} \in SUBSET Mirror
    BY <1>2 DEF StateType
  <2>5. /\ g \in StateType /\ Beside(c, g, t) /\ g.req[t] = q /\ g.stale = c.stale /\ g.syncerr = c.syncerr
        /\ g.sync_trk = c.sync_trk /\ g.sync_msk = c.sync_msk \ {next} /\ g.rip = c.rip
    <3>1. c.stale \in SUBSET Mirror /\ c.syncerr \in SUBSET Mirror /\ c.sync_trk \in Trk \cup {NO_SYNCTRK}
      BY Types
    <3>2. PartIs(c, g, t, c.stale, c.syncerr, c.sync_trk, c.sync_msk \ {next}, c.rip, q)
      BY <2>2, <2>3, <2>4, <3>1, PartUpd
    <3> QED BY <3>2 DEF PartIs
  <2>6. \A s \in Trk : Good(g, s) = Good(c, s)
    BY <2>5 DEF Good
  <2>7. Frame(c, g, t) /\ Kept(c, g, t) /\ IGlobal(g)
    <3>1. c.vg = "opening" => g.sync_trk = NO_SYNCTRK
      BY <2>5 DEF IGlobal
    <3>2. g.rip => g.sync_trk # NO_SYNCTRK
      BY <2>5 DEF IGlobal
    <3> QED BY <2>2, <2>5, <2>6, <3>1, <3>2, SyncFrame DEF PResync, SyncOp
  <2> DEFINE f == hd_begin(g, t, next)
             s == f.req[t]
  <2>8. /\ s.st = "disk" /\ s.mirror = next /\ s.on = {next} /\ s.op = r.op /\ s.sched = r.sched
        /\ s.rd = FALSE /\ s.done = {next} /\ s.avoid = r.avoid /\ s.data = r.data
        /\ f.stale = c.stale /\ f.syncerr = c.syncerr /\ f.sync_trk = c.sync_trk
        /\ f.sync_msk = c.sync_msk \ {next} /\ f.vg = c.vg /\ f.acked = c.acked /\ f.torn = c.torn
        /\ Good(f, t) = Good(c, t)
    <3>1. Begun(g, f, t, next)
      BY <2>1, <2>5, BeginFields
    <3> HIDE DEF f
    <3> QED BY <2>2, <2>5, <2>6, <3>1 DEF Beside, Begun
  <2> HIDE DEF f
  <2>9. Source(f, t) = Source(c, t)
    BY <2>8 DEF Source
  <2>10. IReads(f, V, t)
    BY <1>5, <2>1, <2>8, <2>9 DEF IReads, PResync, PSync, Current
  <2>11. IResync(f, V, t)
    BY <2>1, <2>8, <2>10 DEF IResync, PResync, PSync, Hold
  <2>12. IReq(f, V, t)
    BY <2>8, <2>11 DEF IReq, IDisk, PResync, Op, SyncOp
  <2>13. Ends(c, f, V, t)
    BY <2>1, <2>2, <2>5, <2>7, <2>12, SyncBegins DEF f
  <2> QED BY <1>1, <1>5, <2>13 DEF f
<1> QED BY <1>3, <1>4, <1>5

LEMMA RecoverRead ==
  ASSUME NEW c \in StateType, NEW V, NEW t \in Trk, IGlobal(c), PRecover(c, V, t), c.req[t].rd,
         missing \subseteq Mirror
  PROVE  Ends(c, SyncRead(c, t), V, t)
<1> DEFINE r == c.req[t]
           bad == r.bad \cup {r.mirror}
           d == [c EXCEPT !.req[t].bad = bad]
           p == [r EXCEPT !.err = FALSE, !.bad = bad \cup r.avoid]
           e == [c EXCEPT !.req[t] = p]
           msk == (c.sync_msk \cup {r.mirror}) \ (c.sync_msk \cap {r.mirror})
           u == [r EXCEPT !.bad = r.avoid]
           h == [c EXCEPT !.sync_msk = {}, !.req[t].bad = r.avoid]
           next == Min(msk)
           q == [r EXCEPT !.rd = FALSE, !.done = {next} \cup r.avoid, !.bad = r.avoid]
           g == [c EXCEPT !.sync_msk = msk \ {next}, !.req[t] = q]
<1>1. SyncRead(c, t) =
        IF r.err THEN IF Usable(c, t) # {} THEN hd_seqnext(d, t) ELSE hd_stalepp(e, t)
        ELSE IF msk = {} THEN hd_stalepp(h, t) ELSE hd_begin(g, t, next)
  BY DEF SyncRead, PRecover
<1>2. bad \in SUBSET Mirror /\ r \in ReqType /\ c.sync_msk \in SUBSET Mirror /\ msk \in SUBSET Mirror /\ r.avoid \in SUBSET Mirror
  BY Types DEF PRecover, PSync
<1>3. CASE r.err /\ Usable(c, t) # {}
  <2> DEFINE f == hd_seqnext(d, t)
             s == f.req[t]
  <2>1. \E nxt \in Left(c, t) : Retries(c, f, t, nxt, bad)
    <3>1. r.op # "write"
      BY DEF PRecover
    <3> HIDE DEF bad
    <3> QED BY <1>2, <1>3, <3>1, RetryIs
  <2> HIDE DEF f
  <2>2. PICK nxt \in Left(c, t) :
           /\ f \in StateType /\ SameBut(c, f, t)
           /\ s.st = "disk" /\ s.mirror = nxt /\ s.on = {nxt} /\ s.done = r.done \cup {nxt} /\ s.bad = bad
           /\ s.op = r.op /\ s.sched = r.sched /\ s.rd = r.rd /\ s.avoid = r.avoid
           /\ Good(f, t) = Good(c, t) /\ Source(f, t) = Source(c, t)
    BY <2>1 DEF Retries
  <2>3. nxt \in Mirror /\ nxt \notin r.avoid
    BY DEF Left
  <2>4. IReads(f, V, t)
    BY <2>2, <2>3 DEF IReads, PRecover, PSync, SameBut, Current
  <2>5. IRecover(f, V, t)
    BY <2>2, <2>3, <2>4 DEF IRecover, PRecover, PSync, SameBut
  <2>6. IReq(f, V, t)
    BY <2>2, <2>5 DEF IReq, IDisk, PRecover, Op, SyncOp
  <2>7. Ends(c, f, V, t)
    BY <2>2, <2>6, FrameSame DEF Ends
  <2> QED BY <1>1, <1>3, <2>7 DEF f
<1>4. CASE r.err /\ Usable(c, t) = {}
  <2>1. p \in ReqType /\ p.op = r.op /\ p.err = FALSE /\ p.bad = bad \cup r.avoid /\ p.avoid = r.avoid
    <3>1. bad \cup r.avoid \in SUBSET Mirror
      BY <1>2
    <3> HIDE DEF r, bad
    <3> QED BY <1>2, <3>1 DEF ReqType
  <2> HIDE DEF p
  <2>2. e \in StateType /\ SameBut(c, e, t) /\ e.req[t] = p
    BY <2>1, ReqUpd
  <2> HIDE DEF e
  <2>3. Good(e, t) = Good(c, t) /\ Good(c, t) \subseteq Good(c, t)
    BY <2>2 DEF Good, SameBut
  <2>4. Clean(e, V, t)
    BY <2>2, <2>3, SyncClean DEF PRecover, SameBut
  <2>5. c.vg = "opening" => p.bad = Mirror
    BY <1>2, <1>4, <2>1 DEF PRecover, Usable, Left
  <2>6. PStale(e, V, t)
    BY <2>1, <2>2, <2>4, <2>5 DEF PStale, PRecover, PSync, SameBut, Alike
  <2>7. IGlobal(e)
    BY <2>1, <2>2, GlobalSame
  <2>8. Ends(e, hd_stalepp(e, t), V, t)
    BY <2>2, <2>6, <2>7, StaleppEnds
  <2>9. Ends(c, hd_stalepp(e, t), V, t)
    BY <2>1, <2>2, <2>8, FromSame
  <2> QED BY <1>1, <1>4, <2>9
<1>5. CASE ~r.err /\ msk = {}
  <2>1. u \in ReqType /\ u.op = r.op /\ u.bad = r.avoid /\ u.avoid = r.avoid /\ u.st = "disk"
    <3>1. r.avoid \in SUBSET Mirror /\ r.st = "disk"
      BY <1>2 DEF PRecover, PSync
    <3> HIDE DEF r
    <3> QED BY <1>2, <3>1 DEF ReqType
  <2>2. h = PartSet(c, t, c.stale, c.syncerr, c.sync_trk, {}, c.rip, u)
    BY DEF PartSet, StateType
  <2> HIDE DEF u, h
  <2>3. /\ h \in StateType /\ Beside(c, h, t) /\ h.req[t] = u /\ h.stale = c.stale /\ h.syncerr = c.syncerr
        /\ h.sync_trk = c.sync_trk /\ h.sync_msk = {} /\ h.rip = c.rip
    <3>1. /\ c.stale \in SUBSET Mirror /\ c.syncerr \in SUBSET Mirror /\ c.sync_trk \in Trk \cup {NO_SYNCTRK}
          /\ {} \in SUBSET Mirror /\ c.rip \in BOOLEAN
      BY Types DEF StateType
    <3>2. PartIs(c, h, t, c.stale, c.syncerr, c.sync_trk, {}, c.rip, u)
      BY <2>1, <2>2, <3>1, PartUpd
    <3> QED BY <3>2 DEF PartIs
  <2>4. \A s \in Trk : Good(h, s) = Good(c, s)
    BY <2>3 DEF Good
  <2>5. Frame(c, h, t) /\ Kept(c, h, t) /\ IGlobal(h)
    <3>1. (c.vg = "opening" => h.sync_trk = NO_SYNCTRK) /\ (h.rip => h.sync_trk # NO_SYNCTRK)
      BY <2>3 DEF IGlobal
    <3> QED BY <2>1, <2>3, <2>4, <3>1, SyncFrame DEF PRecover, SyncOp
  <2>6. Clean(h, V, t)
    BY <2>3, <2>4, SyncClean DEF PRecover, Beside
  <2>7. c.vg = "opening" => Mirror \ r.avoid = {r.mirror}
    BY <1>2, <1>5 DEF PRecover, PSync
  <2>8. PStale(h, V, t)
    BY <2>1, <2>3, <2>6, <2>7 DEF PStale, PRecover, PSync, Beside, Alike
  <2>9. Ends(h, hd_stalepp(h, t), V, t)
    BY <2>3, <2>5, <2>8, StaleppEnds
  <2>10. Ends(c, hd_stalepp(h, t), V, t)
    BY <2>1, <2>3, <2>5, <2>9, FromFrame
  <2> QED BY <1>1, <1>5, <2>10
<1>6. CASE ~r.err /\ msk # {}
  <2>1. next \in msk /\ next \in Mirror
    BY <1>2, <1>6, MirrorType
  <2> HIDE DEF next
  <2>2. next \notin r.avoid
    BY <2>1 DEF PRecover
  <2>3. /\ q \in ReqType /\ q.op = r.op /\ q.sched = r.sched /\ q.rd = FALSE /\ q.done = {next} \cup r.avoid
        /\ q.bad = r.avoid /\ q.avoid = r.avoid /\ q.data = r.data /\ q.st = "disk"
    <3>1. {next} \cup r.avoid \in SUBSET Mirror /\ r.avoid \in SUBSET Mirror /\ r.st = "disk"
      BY <1>2, <2>1 DEF PRecover, PSync
    <3> HIDE DEF r
    <3> QED BY <1>2, <3>1 DEF ReqType
  <2> HIDE DEF msk
  <2>4. g = PartSet(c, t, c.stale, c.syncerr, c.sync_trk, msk \ {next}, c.rip, q)
    BY DEF PartSet, StateType
  <2> HIDE DEF q, g
  <2>5. /\ g \in StateType /\ Beside(c, g, t) /\ g.req[t] = q /\ g.stale = c.stale /\ g.syncerr = c.syncerr
        /\ g.sync_trk = c.sync_trk /\ g.sync_msk = msk \ {next} /\ g.rip = c.rip
    <3>1. /\ c.stale \in SUBSET Mirror /\ c.syncerr \in SUBSET Mirror /\ c.sync_trk \in Trk \cup {NO_SYNCTRK}
          /\ msk \ {next} \in SUBSET Mirror /\ c.rip \in BOOLEAN
      BY <1>2, Types DEF StateType
    <3>2. PartIs(c, g, t, c.stale, c.syncerr, c.sync_trk, msk \ {next}, c.rip, q)
      BY <2>3, <2>4, <3>1, PartUpd
    <3> QED BY <3>2 DEF PartIs
  <2>6. \A s \in Trk : Good(g, s) = Good(c, s)
    BY <2>5 DEF Good
  <2>7. Frame(c, g, t) /\ Kept(c, g, t) /\ IGlobal(g)
    <3>1. (c.vg = "opening" => g.sync_trk = NO_SYNCTRK) /\ (g.rip => g.sync_trk # NO_SYNCTRK)
      BY <2>5 DEF IGlobal
    <3> QED BY <2>3, <2>5, <2>6, <3>1, SyncFrame DEF PRecover, SyncOp
  <2> DEFINE f == hd_begin(g, t, next)
             s == f.req[t]
  <2>8. /\ s.st = "disk" /\ s.mirror = next /\ s.on = {next} /\ s.op = r.op /\ s.sched = r.sched
        /\ s.rd = FALSE /\ s.bad = r.avoid /\ s.avoid = r.avoid /\ s.data = r.data
        /\ f.stale = c.stale /\ f.sync_msk = msk \ {next} /\ f.vg = c.vg /\ f.acked = c.acked /\ f.torn = c.torn
        /\ Good(f, t) = Good(c, t)
    <3>1. Begun(g, f, t, next)
      BY <2>1, <2>5, BeginFields
    <3> HIDE DEF f
    <3> QED BY <2>3, <2>5, <2>6, <3>1 DEF Beside, Begun
  <2> HIDE DEF f
  <2>9. Source(f, t) = Source(c, t)
    BY <2>8 DEF Source
  <2>10. IReads(f, V, t)
    BY <1>6, <2>1, <2>8, <2>9 DEF IReads, PRecover, PSync, Current
  <2>11. (msk \ {next}) \cap r.avoid = {}
    BY DEF PRecover, msk
  <2>12. c.vg = "opening" => Hold(V, t, Mirror \ (r.avoid \cup (msk \ {next}) \cup {next}), r.data)
    <3> SUFFICES ASSUME c.vg = "opening" PROVE Hold(V, t, Mirror \ (r.avoid \cup msk), r.data)
      BY <2>1 DEF Hold
    <3>1. Mirror \ (r.avoid \cup msk) \subseteq {r.mirror}
      BY DEF PRecover, msk
    <3> QED BY <1>6, <3>1 DEF PRecover, Hold
  <2>13. IRecover(f, V, t)
    BY <2>2, <2>8, <2>10, <2>11, <2>12 DEF IRecover, PRecover, PSync
  <2>14. IReq(f, V, t)
    BY <2>8, <2>13 DEF IReq, IDisk, PRecover, Op, SyncOp
  <2>15. Ends(c, f, V, t)
    BY <2>1, <2>3, <2>5, <2>7, <2>14, SyncBegins DEF f
  <2> QED BY <1>1, <1>6, <2>15 DEF f
<1> QED BY <1>3, <1>4, <1>5, <1>6

(* The copies that the resynchronisation has written in the last track group *)
(* become fresh.                                                            *)
PFresh(c, V, t) ==
  LET r == c.req[t] IN
  /\ r.op = "RESYNC_OP" /\ r.st = "disk" /\ c.sync_trk = t /\ t = TRKPPART - 1 /\ r.avoid # Mirror
  /\ Hold(V, t, r.done \ c.syncerr, r.data)
  /\ t \notin c.torn => Current(c, V, t, Source(c, t)) /\ Hold(V, t, Source(c, t), r.data)

LEMMA ErrType ==
  ASSUME NEW q \in ReqType
  PROVE  LET p == [q EXCEPT !.err = TRUE]
         IN  p \in ReqType /\ p.op = q.op /\ p.err = TRUE /\ p.data = q.data /\ p.tried = q.tried /\ p.avoid = q.avoid
BY DEF ReqType

(* A request of a resynchronisation fails.                                  *)
LEMMA ResyncFails ==
  ASSUME NEW c \in StateType, NEW V, NEW t \in Trk, IGlobal(c), c.req[t].op = "RESYNC_OP", Clean(c, V, t)
  PROVE  Ends(c, Failed(c, t), V, t)
<1> DEFINE q == c.req[t]
           p == [q EXCEPT !.err = TRUE]
           g == [c EXCEPT !.req[t] = p]
<1>1. q \in ReqType
  BY Types
<1>2. p \in ReqType /\ p.op = q.op /\ p.err = TRUE
  BY <1>1, ErrType
<1>3. [c EXCEPT !.req[t].err = TRUE] = g
  OBVIOUS
<1> HIDE DEF p
<1>4. g \in StateType /\ SameBut(c, g, t) /\ g.req[t] = p
  BY <1>2, ReqUpd
<1> HIDE DEF g
<1>5. Good(g, t) = Good(c, t) /\ g.torn = c.torn /\ g.acked = c.acked
  BY <1>4 DEF Good, SameBut
<1>6. IDone(g, V, t)
  BY <1>2, <1>4, <1>5 DEF IDone, Op, SyncOp, Clean, Current
<1> QED BY <1>3, <1>6, FailedEnds

LEMMA FreshppEnds ==
  ASSUME NEW c \in StateType, NEW V, NEW t \in Trk, IGlobal(c), PFresh(c, V, t)
  PROVE  Ends(c, hd_freshpp(c, t), V, t)
<1> DEFINE r == c.req[t]
           stale == c.stale \ (r.done \ c.syncerr)
           q == [r EXCEPT !.err = FALSE, !.sched = "hd_finished", !.on = {}]
           d == [c EXCEPT !.stale = @ \ (r.done \ c.syncerr), !.sync_trk = NO_SYNCTRK, !.rip = FALSE, !.req[t] = q]
           f == [d EXCEPT !.req[t].st = "wheel"]
<1>1. hd_freshpp(c, t) = IF c.off THEN Failed(d, t) ELSE f
  BY DEF hd_freshpp
<1>2. r \in ReqType /\ r.done \subseteq Mirror /\ c.stale \subseteq Mirror /\ c.syncerr \subseteq Mirror /\ c.sync_msk \subseteq Mirror
  BY Types
<1>3. q \in ReqType /\ q.op = r.op /\ q.on = {} /\ q.st = "disk"
  <2>1. r.st = "disk"
    BY DEF PFresh
  <2> HIDE DEF r
  <2> QED BY <1>2, <2>1 DEF ReqType
<1>4. d = PartSet(c, t, stale, c.syncerr, NO_SYNCTRK, c.sync_msk, FALSE, q)
  BY DEF PartSet, StateType
<1> HIDE DEF q, d
<1>5. /\ d \in StateType /\ Beside(c, d, t) /\ d.req[t] = q /\ d.stale = stale /\ d.syncerr = c.syncerr
      /\ d.sync_trk = NO_SYNCTRK /\ d.rip = FALSE
  <2>1. /\ stale \in SUBSET Mirror /\ c.syncerr \in SUBSET Mirror /\ NO_SYNCTRK \in Trk \cup {NO_SYNCTRK}
        /\ c.sync_msk \in SUBSET Mirror /\ FALSE \in BOOLEAN
    BY <1>2
  <2>2. PartIs(c, d, t, stale, c.syncerr, NO_SYNCTRK, c.sync_msk, FALSE, q)
    BY <1>3, <1>4, <2>1, PartUpd
  <2> QED BY <2>2 DEF PartIs
<1>6. \A s \in Trk : Good(d, s) = Mirror \ stale
  BY <1>5 DEF Good, Trk, NO_SYNCTRK
<1>7. \A s \in Trk \ {t} : Good(d, s) \subseteq Good(c, s)
  <2> SUFFICES ASSUME NEW s \in Trk \ {t} PROVE Mirror \ stale \subseteq Good(c, s)
    BY <1>6
  <2>1. s < c.sync_trk
    BY DEF PFresh, Trk
  <2> QED BY <2>1 DEF Good
<1>8. Good(c, t) = Mirror \ c.stale
  BY DEF PFresh, Good, Trk
<1>9. Clean(d, V, t)
  <2> SUFFICES ASSUME t \notin c.torn PROVE Current(d, V, t, Mirror \ stale)
    BY <1>5, <1>6 DEF Clean, Beside
  <2>1. Hold(V, t, Mirror \ stale, r.data)
    BY <1>8 DEF PFresh, Hold, Source
  <2>2. c.acked[t] # Unknown => r.data = c.acked[t]
    <3>1. PICK x \in Mirror : x \notin r.avoid
      BY Types DEF PFresh
    <3>2. x \in Source(c, t)
      BY <3>1 DEF Source
    <3> QED BY <3>2 DEF PFresh, Current, Hold
  <2> QED BY <1>5, <2>1, <2>2 DEF Current, Alike, Hold, Beside
<1>10. Frame(c, d, t) /\ Kept(c, d, t) /\ IGlobal(d)
  <2>1. ASSUME Chg(c, Trk \ {t}), NEW x \in c.chging PROVE x \in stale /\ (c.off \/ \E s \in Trk : Waits(d, x, s))
    <3>1. c.sync_trk = t /\ t # NO_SYNCTRK
      BY DEF PFresh, Trk, NO_SYNCTRK
    <3>2. \A s \in Trk \ {t} : ~(s >= t)
      BY DEF PFresh, Trk
    <3>3. x \in c.syncerr
      BY <2>1, <3>1, <3>2 DEF Chg
    <3> QED BY <1>5, <2>1, <3>3 DEF Chg, Waits, Beside
  <2>2. Chg(c, Trk \ {t}) => Chg(d, Trk)
    BY <1>5, <2>1 DEF Chg, Beside
  <2> QED BY <1>3, <1>5, <1>7, <2>2, SyncFrame DEF PFresh, SyncOp
<1>11. Ends(c, Failed(d, t), V, t)
  <2>1. Ends(d, Failed(d, t), V, t)
    BY <1>3, <1>5, <1>9, <1>10, ResyncFails DEF PFresh
  <2> QED BY <1>3, <1>5, <1>10, <2>1, FromFrame
<1>12. Ends(c, f, V, t)
  <2> DEFINE p == [q EXCEPT !.st = "wheel"]
  <2>1. p \in ReqType /\ p.op = q.op /\ p.st = "wheel" /\ p.on = {}
    BY <1>3 DEF ReqType
  <2>2. f = [d EXCEPT !.req[t] = p]
    BY <1>5
  <2> HIDE DEF p, f
  <2>3. f \in StateType /\ SameBut(d, f, t) /\ f.req[t] = p
    BY <1>5, <2>1, <2>2, ReqUpd
  <2>4. Good(f, t) = Good(d, t) /\ f.torn = d.torn /\ f.acked = d.acked
    BY <2>3 DEF Good, SameBut
  <2>5. IWheel(f, V, t)
    BY <1>3, <1>9, <2>1, <2>3, <2>4 DEF IWheel, PFresh, SyncOp, Clean, Current
  <2>6. IReq(f, V, t)
    BY <2>1, <2>3, <2>5 DEF IReq
  <2>7. Ends(d, f, V, t)
    BY <1>5, <1>10, <2>1, <2>3, <2>6, FrameSame DEF Ends
  <2> QED BY <1>3, <1>5, <1>10, <2>7, FromFrame
<1> QED BY <1>1, <1>11, <1>12

LEMMA ResyncWritten ==
  ASSUME NEW c \in StateType, NEW V, NEW t \in Trk, IGlobal(c), PResync(c, V, t), ~c.req[t].rd
  PROVE  Ends(c, SyncWritten(c, t), V, t)
<1> DEFINE r == c.req[t]
           bad == IF r.err THEN r.bad \cup {r.mirror} ELSE r.bad
           syncerr == IF r.err THEN c.syncerr \cup {r.mirror} ELSE c.syncerr
           next == Min(c.sync_msk)
           q == [r EXCEPT !.bad = bad, !.err = FALSE]
           d == [c EXCEPT !.syncerr = syncerr, !.req[t] = q]
           g == [d EXCEPT !.sync_msk = @ \ {next}, !.req[t].done = @ \cup {next}]
           e == [d EXCEPT !.sync_trk = NO_SYNCTRK, !.rip = FALSE]
           h == [d EXCEPT !.rip = FALSE, !.sync_trk = @ + 1]
<1>1. SyncWritten(c, t) =
        IF c.sync_msk # {} THEN hd_begin(g, t, next)
        ELSE IF bad = r.done THEN Failed(e, t)
        ELSE IF c.sync_trk = TRKPPART - 1 THEN hd_freshpp(d, t)
        ELSE hd_finished(h, t)
  BY DEF SyncWritten, PResync
<1>2. /\ r \in ReqType /\ bad \in SUBSET Mirror /\ syncerr \in SUBSET Mirror /\ c.sync_msk \in SUBSET Mirror
      /\ c.stale \in SUBSET Mirror /\ r.done \in SUBSET Mirror /\ c.sync_trk \in Trk \cup {NO_SYNCTRK} /\ c.rip \in BOOLEAN
  BY Types DEF PResync, PSync, StateType
<1>3. /\ q \in ReqType /\ q.op = r.op /\ q.sched = r.sched /\ q.rd = r.rd /\ q.done = r.done
      /\ q.avoid = r.avoid /\ q.data = r.data /\ q.st = "disk"
  <2>1. r.st = "disk"
    BY DEF PResync, PSync
  <2> HIDE DEF r, bad
  <2> QED BY <1>2, <2>1 DEF ReqType
<1>4. d = PartSet(c, t, c.stale, syncerr, c.sync_trk, c.sync_msk, c.rip, q)
  BY DEF PartSet, StateType
<1> HIDE DEF q, d
<1>a. c.syncerr \subseteq syncerr /\ Hold(V, t, r.done \ syncerr, r.data)
  BY DEF PResync, Hold
<1>b. c.sync_trk = t
  BY DEF PResync
<1> HIDE DEF syncerr
<1>5. /\ d \in StateType /\ Beside(c, d, t) /\ d.req[t] = q /\ d.stale = c.stale /\ d.syncerr = syncerr
      /\ d.sync_trk = c.sync_trk /\ d.sync_msk = c.sync_msk /\ d.rip = c.rip
  <2>1. PartIs(c, d, t, c.stale, syncerr, c.sync_trk, c.sync_msk, c.rip, q)
    BY <1>2, <1>3, <1>4, PartUpd
  <2> QED BY <2>1 DEF PartIs
<1>6. c.vg # "opening"
  BY DEF PResync, IGlobal
<1>7. Good(c, t) = Mirror \ c.stale
  BY <1>b DEF Good, Trk
<1>8. CASE c.sync_msk # {}
  <2>1. next \in c.sync_msk /\ next \in Mirror
    BY <1>2, <1>8, MirrorType
  <2> HIDE DEF next
  <2> DEFINE done == r.done \cup {next}
             p == [q EXCEPT !.done = done]
  <2>2. done \in SUBSET Mirror
    BY <1>2, <2>1
  <2>3. g = PartSet(c, t, c.stale, syncerr, c.sync_trk, c.sync_msk \ {next}, c.rip, p)
    <3>1. g = [d EXCEPT !.sync_msk = c.sync_msk \ {next}, !.req[t] = p]
      BY <1>3, <1>5
    <3> HIDE DEF p
    <3> DEFINE req == [c.req EXCEPT ![t] = p]
    <3>2. c.req \in [Trk -> ReqType] /\ d.req \in [Trk -> ReqType]
      BY <1>5 DEF StateType
    <3>3. [d.req EXCEPT ![t] = p] = req
      BY <1>5, <3>2 DEF Beside
    <3>4. g = [d EXCEPT !.sync_msk = c.sync_msk \ {next}, !.req = req]
      BY <3>1, <3>3
    <3>5. PartSet(c, t, c.stale, syncerr, c.sync_trk, c.sync_msk \ {next}, c.rip, p)
            = [c EXCEPT !.stale = c.stale, !.syncerr = syncerr, !.sync_trk = c.sync_trk,
                        !.sync_msk = c.sync_msk \ {next}, !.rip = c.rip, !.req = req]
      BY DEF PartSet
    <3> HIDE DEF req, g
    <3> QED BY <1>4, <3>4, <3>5 DEF PartSet, StateType
  <2> HIDE DEF done
  <2>4. /\ p \in ReqType /\ p.op = r.op /\ p.sched = r.sched /\ p.rd = r.rd /\ p.done = done
        /\ p.avoid = r.avoid /\ p.data = r.data /\ p.st = "disk"
    BY <1>3, <2>2 DEF ReqType
  <2> HIDE DEF p, g
  <2>5. /\ g \in StateType /\ Beside(c, g, t) /\ g.req[t] = p /\ g.stale = c.stale /\ g.syncerr = syncerr
        /\ g.sync_trk = c.sync_trk /\ g.sync_msk = c.sync_msk \ {next} /\ g.rip = c.rip
    <3>1. c.sync_msk \ {next} \in SUBSET Mirror
      BY <1>2
    <3>2. PartIs(c, g, t, c.stale, syncerr, c.sync_trk, c.sync_msk \ {next}, c.rip, p)
      BY <1>2, <2>3, <2>4, <3>1, PartUpd
    <3> QED BY <3>2 DEF PartIs
  <2>6. \A s \in Trk : Good(g, s) \subseteq Good(c, s)
    BY <1>a, <2>5 DEF Good
  <2>7. Frame(c, g, t) /\ Kept(c, g, t) /\ IGlobal(g)
    <3>1. g.rip => g.sync_trk # NO_SYNCTRK
      BY <2>5 DEF IGlobal
    <3> QED BY <1>a, <1>6, <2>4, <2>5, <2>6, <3>1, SyncFrame DEF PResync, SyncOp
  <2>8. Good(g, t) = Good(c, t)
    BY <1>7, <1>b, <2>5 DEF Good, Trk
  <2> DEFINE f == hd_begin(g, t, next)
             s == f.req[t]
  <2>9. /\ s.st = "disk" /\ s.mirror = next /\ s.on = {next} /\ s.op = r.op /\ s.sched = r.sched
        /\ s.rd = r.rd /\ s.done = done /\ s.avoid = r.avoid /\ s.data = r.data
        /\ f.stale = c.stale /\ f.syncerr = syncerr /\ f.sync_trk = c.sync_trk
        /\ f.sync_msk = c.sync_msk \ {next} /\ f.vg = c.vg /\ f.acked = c.acked /\ f.torn = c.torn
        /\ Good(f, t) = Good(c, t)
    <3>1. Begun(g, f, t, next)
      BY <2>1, <2>5, BeginFields
    <3> HIDE DEF f
    <3> QED BY <2>4, <2>5, <2>8, <3>1 DEF Beside, Begun
  <2> HIDE DEF f
  <2>10. Source(f, t) = Source(c, t)
    BY <2>9 DEF Source
  <2>11. IReads(f, V, t)
    BY <2>1, <2>9, <2>10 DEF IReads, PResync, PSync, Current
  <2>12. /\ f.sync_msk \cup s.done = c.sync_msk \cup r.done
         /\ c.stale \ syncerr \subseteq c.sync_msk \cup r.done
         /\ Hold(V, t, s.done \ (syncerr \cup {next}), r.data)
         /\ next \in s.done
    BY <1>a, <2>1, <2>9 DEF done, PResync, Hold
  <2>13. IResync(f, V, t)
    BY <2>9, <2>11, <2>12 DEF IResync, PResync, PSync
  <2>14. IReq(f, V, t)
    BY <2>9, <2>13 DEF IReq, IDisk, PResync, Op, SyncOp
  <2>15. Ends(c, f, V, t)
    BY <2>1, <2>4, <2>5, <2>7, <2>14, SyncBegins DEF f
  <2> QED BY <1>1, <1>8, <2>15 DEF f
<1>9. CASE c.sync_msk = {} /\ bad = r.done
  <2>1. e = PartSet(c, t, c.stale, syncerr, NO_SYNCTRK, c.sync_msk, FALSE, q)
    BY <1>4, <1>5 DEF PartSet, StateType
  <2> HIDE DEF e
  <2>2. /\ e \in StateType /\ Beside(c, e, t) /\ e.req[t] = q /\ e.stale = c.stale /\ e.syncerr = syncerr
        /\ e.sync_trk = NO_SYNCTRK /\ e.rip = FALSE
    <3>1. NO_SYNCTRK \in Trk \cup {NO_SYNCTRK} /\ FALSE \in BOOLEAN
      OBVIOUS
    <3>2. PartIs(c, e, t, c.stale, syncerr, NO_SYNCTRK, c.sync_msk, FALSE, q)
      BY <1>2, <1>3, <2>1, <3>1, PartUpd
    <3> QED BY <3>2 DEF PartIs
  <2>3. \A s \in Trk : Good(e, s) \subseteq Good(c, s)
    BY <2>2 DEF Good, Trk, NO_SYNCTRK
  <2>4. Frame(c, e, t) /\ Kept(c, e, t) /\ IGlobal(e)
    BY <1>a, <1>3, <2>2, <2>3, SyncFrame DEF PResync, SyncOp
  <2>5. Clean(e, V, t)
    BY <2>2, <2>3, SyncClean DEF PResync, Beside
  <2>6. Ends(e, Failed(e, t), V, t)
    BY <1>3, <2>2, <2>4, <2>5, ResyncFails DEF PResync
  <2>7. Ends(c, Failed(e, t), V, t)
    BY <1>3, <2>2, <2>4, <2>6, FromFrame
  <2> QED BY <1>1, <1>9, <2>7
<1>10. CASE c.sync_msk = {} /\ bad # r.done /\ c.sync_trk = TRKPPART - 1
  <2>1. \A s \in Trk : Good(d, s) \subseteq Good(c, s)
    BY <1>a, <1>5 DEF Good
  <2>2. Frame(c, d, t) /\ Kept(c, d, t) /\ IGlobal(d)
    <3>1. d.rip => d.sync_trk # NO_SYNCTRK
      BY <1>5 DEF IGlobal
    <3> QED BY <1>a, <1>3, <1>5, <1>6, <2>1, <3>1, SyncFrame DEF PResync, SyncOp
  <2>3. Good(d, t) = Good(c, t)
    BY <1>7, <1>b, <1>5 DEF Good, Trk
  <2>4. Source(d, t) = Source(c, t)
    BY <1>3, <1>5, <2>3 DEF Source
  <2>5. PFresh(d, V, t)
    BY <1>3, <1>5, <1>10, <1>a, <1>b, <2>4 DEF PFresh, PResync, PSync, Current, Beside
  <2>6. Ends(d, hd_freshpp(d, t), V, t)
    BY <1>5, <2>2, <2>5, FreshppEnds
  <2>7. Ends(c, hd_freshpp(d, t), V, t)
    BY <1>3, <1>5, <2>2, <2>6, FromFrame
  <2> QED BY <1>1, <1>10, <2>7
<1>11. CASE c.sync_msk = {} /\ bad # r.done /\ c.sync_trk # TRKPPART - 1
  <2>1. h = PartSet(c, t, c.stale, syncerr, t + 1, c.sync_msk, FALSE, q)
    BY <1>4, <1>5, <1>b DEF PartSet, StateType
  <2> HIDE DEF h
  <2>2. /\ h \in StateType /\ Beside(c, h, t) /\ h.req[t] = q /\ h.stale = c.stale /\ h.syncerr = syncerr
        /\ h.sync_trk = t + 1 /\ h.rip = FALSE
    <3>1. t + 1 \in Trk \cup {NO_SYNCTRK} /\ FALSE \in BOOLEAN
      BY <1>11, <1>b DEF Trk
    <3>2. PartIs(c, h, t, c.stale, syncerr, t + 1, c.sync_msk, FALSE, q)
      BY <1>2, <1>3, <2>1, <3>1, PartUpd
    <3> QED BY <3>2 DEF PartIs
  <2>3. \A s \in Trk \ {t} : Good(h, s) \subseteq Good(c, s)
    BY <1>a, <1>b, <2>2 DEF Good, Trk
  <2>4. Frame(c, h, t) /\ Kept(c, h, t) /\ IGlobal(h)
    <3>1. ASSUME Chg(c, Trk \ {t}), NEW x \in c.chging
          PROVE  x \in c.syncerr \/ \E s \in Trk : s >= t + 1 /\ Waits(h, x, s)
      <4>1. t # NO_SYNCTRK
        BY DEF Trk, NO_SYNCTRK
      <4>2. x \in c.syncerr \/ \E s \in Trk \ {t} : s >= t /\ Waits(c, x, s)
        BY <1>b, <3>1, <4>1 DEF Chg
      <4>3. \A s \in Trk \ {t} : s >= t => s >= t + 1
        BY DEF Trk
      <4> QED BY <2>2, <4>2, <4>3 DEF Waits, Beside
    <3>2. Chg(c, Trk \ {t}) => Chg(h, Trk)
      <4> SUFFICES ASSUME Chg(c, Trk \ {t}), NEW x \in c.chging
                   PROVE  /\ x \in h.stale
                          /\ h.off \/ \E s \in Trk : Waits(h, x, s)
                          /\ x \in h.syncerr \/ \E s \in Trk : s >= h.sync_trk /\ Waits(h, x, s)
        BY <2>2 DEF Chg, Beside
      <4>1. x \in c.stale /\ (c.off \/ \E s \in Trk \ {t} : Waits(c, x, s))
        BY DEF Chg
      <4> QED BY <1>a, <2>2, <3>1, <4>1 DEF Waits, Beside
    <3> QED BY <1>3, <1>6, <2>2, <2>3, <3>2, SyncFrame DEF PResync, SyncOp
  <2>5. Good(h, t) \subseteq Good(c, t) \cup (r.done \ syncerr)
    BY <1>7, <1>11, <1>a, <2>2 DEF Good, PResync
  <2>6. Clean(h, V, t)
    <3> SUFFICES ASSUME t \notin c.torn PROVE Current(h, V, t, Good(h, t))
      BY <2>2 DEF Clean, Beside
    <3>1. Hold(V, t, Good(h, t), r.data)
      BY <1>a, <2>5 DEF PResync, PSync, Hold, Source
    <3>2. c.acked[t] # Unknown => r.data = c.acked[t]
      <4>1. PICK x \in Mirror : x \notin r.avoid
        BY Types DEF PResync, PSync
      <4>2. x \in Source(c, t)
        BY <4>1 DEF Source
      <4> QED BY <4>2 DEF PResync, PSync, Current, Hold
    <3> QED BY <2>2, <3>1, <3>2 DEF Current, Alike, Hold, Beside
  <2>7. IDone(h, V, t)
    BY <1>3, <2>2, <2>6 DEF IDone, PResync, Op, SyncOp
  <2>8. Ends(c, hd_finished(h, t), V, t)
    BY <1>3, <2>2, <2>4, <2>7, FinishEnds, FromFrame
  <2> QED BY <1>1, <1>11, <2>8
<1> QED BY <1>8, <1>9, <1>10, <1>11

LEMMA RecoverWritten ==
  ASSUME NEW c \in StateType, NEW V, NEW t \in Trk, IGlobal(c), PRecover(c, V, t), ~c.req[t].rd,
         missing \subseteq Mirror
  PROVE  Ends(c, SyncWritten(c, t), V, t)
<1> DEFINE r == c.req[t]
           bad == Bad(r, r.mirror)
           next == Min(c.sync_msk)
           q == [r EXCEPT !.bad = bad, !.err = FALSE]
           d == [c EXCEPT !.syncerr = c.syncerr, !.req[t] = q]
           done == r.done \cup {next}
           p == [q EXCEPT !.done = done]
           g == [d EXCEPT !.sync_msk = @ \ {next}, !.req[t].done = @ \cup {next}]
<1>1. SyncWritten(c, t) =
        IF c.sync_msk # {} THEN hd_begin(g, t, next)
        ELSE IF bad # {} THEN hd_stalepp(d, t) ELSE hd_finished(d, t)
  BY DEF SyncWritten, PRecover, Bad
<1>2. /\ r \in ReqType /\ bad \in SUBSET Mirror /\ c.syncerr \in SUBSET Mirror /\ c.sync_msk \in SUBSET Mirror
      /\ c.stale \in SUBSET Mirror /\ r.done \in SUBSET Mirror /\ c.sync_trk \in Trk \cup {NO_SYNCTRK} /\ c.rip \in BOOLEAN
  BY Types DEF PRecover, PSync, StateType, Bad
<1> HIDE DEF bad
<1>3. /\ q \in ReqType /\ q.op = r.op /\ q.sched = r.sched /\ q.rd = r.rd /\ q.done = r.done /\ q.bad = bad
      /\ q.avoid = r.avoid /\ q.data = r.data /\ q.st = "disk" /\ q.err = FALSE
  <2>1. r.st = "disk"
    BY DEF PRecover, PSync
  <2> HIDE DEF r
  <2> QED BY <1>2, <2>1 DEF ReqType
<1>4. d = PartSet(c, t, c.stale, c.syncerr, c.sync_trk, c.sync_msk, c.rip, q)
  BY DEF PartSet, StateType
<1> HIDE DEF q, d
<1>5. /\ d \in StateType /\ Beside(c, d, t) /\ d.req[t] = q /\ d.stale = c.stale /\ d.syncerr = c.syncerr
      /\ d.sync_trk = c.sync_trk /\ d.sync_msk = c.sync_msk /\ d.rip = c.rip
  <2>1. PartIs(c, d, t, c.stale, c.syncerr, c.sync_trk, c.sync_msk, c.rip, q)
    BY <1>2, <1>3, <1>4, PartUpd
  <2> QED BY <2>1 DEF PartIs
<1>6. \A s \in Trk : Good(d, s) = Good(c, s)
  BY <1>5 DEF Good
<1>7. Frame(c, d, t) /\ Kept(c, d, t) /\ IGlobal(d)
  <2>1. (c.vg = "opening" => d.sync_trk = NO_SYNCTRK) /\ (d.rip => d.sync_trk # NO_SYNCTRK)
    BY <1>5 DEF IGlobal
  <2> QED BY <1>3, <1>5, <1>6, <2>1, SyncFrame DEF PRecover, SyncOp
<1>8. Clean(d, V, t)
  BY <1>5, <1>6, SyncClean DEF PRecover, Beside
<1>9. c.vg = "opening" => r.avoid \subseteq bad /\ Hold(V, t, Mirror \ (bad \cup c.sync_msk), r.data)
  BY DEF PRecover, bad, Bad
<1>10. CASE c.sync_msk # {}
  <2>1. next \in c.sync_msk /\ next \in Mirror
    BY <1>2, <1>10, MirrorType
  <2> HIDE DEF next
  <2>2. done \in SUBSET Mirror
    BY <1>2, <2>1
  <2>3. g = PartSet(c, t, c.stale, c.syncerr, c.sync_trk, c.sync_msk \ {next}, c.rip, p)
    <3>1. g = [d EXCEPT !.sync_msk = c.sync_msk \ {next}, !.req[t] = p]
      BY <1>3, <1>5
    <3> HIDE DEF p
    <3> DEFINE req == [c.req EXCEPT ![t] = p]
    <3>2. c.req \in [Trk -> ReqType] /\ d.req \in [Trk -> ReqType]
      BY <1>5 DEF StateType
    <3>3. [d.req EXCEPT ![t] = p] = req
      BY <1>5, <3>2 DEF Beside
    <3>4. g = [d EXCEPT !.sync_msk = c.sync_msk \ {next}, !.req = req]
      BY <3>1, <3>3
    <3>5. PartSet(c, t, c.stale, c.syncerr, c.sync_trk, c.sync_msk \ {next}, c.rip, p)
            = [c EXCEPT !.stale = c.stale, !.syncerr = c.syncerr, !.sync_trk = c.sync_trk,
                        !.sync_msk = c.sync_msk \ {next}, !.rip = c.rip, !.req = req]
      BY DEF PartSet
    <3> HIDE DEF req, g
    <3> QED BY <1>4, <3>4, <3>5 DEF PartSet, StateType
  <2> HIDE DEF done
  <2>4. /\ p \in ReqType /\ p.op = r.op /\ p.sched = r.sched /\ p.rd = r.rd /\ p.bad = bad
        /\ p.avoid = r.avoid /\ p.data = r.data /\ p.st = "disk"
    BY <1>3, <2>2 DEF ReqType
  <2> HIDE DEF p, g
  <2>5. /\ g \in StateType /\ Beside(c, g, t) /\ g.req[t] = p /\ g.stale = c.stale /\ g.syncerr = c.syncerr
        /\ g.sync_trk = c.sync_trk /\ g.sync_msk = c.sync_msk \ {next} /\ g.rip = c.rip
    <3>1. c.sync_msk \ {next} \in SUBSET Mirror
      BY <1>2
    <3>2. PartIs(c, g, t, c.stale, c.syncerr, c.sync_trk, c.sync_msk \ {next}, c.rip, p)
      BY <1>2, <2>3, <2>4, <3>1, PartUpd
    <3> QED BY <3>2 DEF PartIs
  <2>6. \A s \in Trk : Good(g, s) = Good(c, s)
    BY <2>5 DEF Good
  <2>7. Frame(c, g, t) /\ Kept(c, g, t) /\ IGlobal(g)
    <3>1. (c.vg = "opening" => g.sync_trk = NO_SYNCTRK) /\ (g.rip => g.sync_trk # NO_SYNCTRK)
      BY <2>5 DEF IGlobal
    <3> QED BY <2>4, <2>5, <2>6, <3>1, SyncFrame DEF PRecover, SyncOp
  <2> DEFINE f == hd_begin(g, t, next)
             s == f.req[t]
  <2>8. /\ s.st = "disk" /\ s.mirror = next /\ s.on = {next} /\ s.op = r.op /\ s.sched = r.sched
        /\ s.rd = r.rd /\ s.bad = bad /\ s.avoid = r.avoid /\ s.data = r.data
        /\ f.stale = c.stale /\ f.sync_msk = c.sync_msk \ {next} /\ f.vg = c.vg /\ f.acked = c.acked
        /\ f.torn = c.torn /\ Good(f, t) = Good(c, t)
    <3>1. Begun(g, f, t, next)
      BY <2>1, <2>5, BeginFields
    <3> HIDE DEF f
    <3> QED BY <2>4, <2>5, <2>6, <3>1 DEF Beside, Begun
  <2> HIDE DEF f
  <2>9. Source(f, t) = Source(c, t)
    BY <2>8 DEF Source
  <2>10. IReads(f, V, t)
    BY <2>1, <2>8, <2>9 DEF IReads, PRecover, PSync, Current
  <2>11. next \notin r.avoid /\ (c.sync_msk \ {next}) \cap r.avoid = {}
    BY <2>1 DEF PRecover
  <2>12. c.vg = "opening" => Hold(V, t, Mirror \ (bad \cup (c.sync_msk \ {next}) \cup {next}), r.data)
    BY <1>9, <2>1 DEF Hold
  <2>13. IRecover(f, V, t)
    BY <1>9, <2>8, <2>10, <2>11, <2>12 DEF IRecover, PRecover, PSync
  <2>14. IReq(f, V, t)
    BY <2>8, <2>13 DEF IReq, IDisk, PRecover, Op, SyncOp
  <2>15. Ends(c, f, V, t)
    BY <2>1, <2>4, <2>5, <2>7, <2>14, SyncBegins DEF f
  <2> QED BY <1>1, <1>10, <2>15 DEF f
<1>11. CASE c.sync_msk = {} /\ bad # {}
  <2>1. c.vg = "opening" => Alike(V, t, Mirror \ bad)
    BY <1>9, <1>11 DEF Hold, Alike
  <2>2. PStale(d, V, t)
    BY <1>3, <1>5, <1>8, <1>9, <2>1 DEF PStale, PRecover, PSync, Beside
  <2>3. Ends(d, hd_stalepp(d, t), V, t)
    BY <1>5, <1>7, <2>2, StaleppEnds
  <2>4. Ends(c, hd_stalepp(d, t), V, t)
    BY <1>3, <1>5, <1>7, <2>3, FromFrame
  <2> QED BY <1>1, <1>11, <2>4
<1>12. CASE c.sync_msk = {} /\ bad = {}
  <2>1. Alike(V, t, Good(d, t))
    <3>1. CASE c.vg = "opening"
      <4>1. Hold(V, t, Mirror, r.data)
        BY <1>9, <1>12, <3>1 DEF Hold
      <4> QED BY <4>1 DEF Good, Hold, Alike
    <3>2. CASE c.vg = "forced_sync"
      <4>1. t \notin d.torn
        BY <1>5, <3>2 DEF IGlobal, Beside
      <4> QED BY <1>8, <4>1 DEF Clean, Current
    <3>3. c.vg # "open" /\ c.vg \in {"opening", "open", "forced_sync"}
      BY DEF IGlobal, StateType, PRecover
    <3> QED BY <3>1, <3>2, <3>3
  <2>2. IDone(d, V, t)
    BY <1>3, <1>5, <1>8, <2>1 DEF IDone, PRecover, Op, SyncOp
  <2>3. Ends(c, hd_finished(d, t), V, t)
    BY <1>3, <1>5, <1>7, <2>2, FinishEnds, FromFrame
  <2> QED BY <1>1, <1>12, <2>3
<1> QED BY <1>10, <1>11, <1>12

-----------------------------------------------------------------------------
(* The transfer to a mirror has ended.                                      *)
PEnded(c, V, t, mirror) ==
  LET r == c.req[t] IN
  /\ r.op \in Op
  /\ r.op = "write" => PWrite(c, V, t, mirror)
  /\ r.op = "read" => PRead(c, V, t)
  /\ r.op = "RESYNC_OP" => PResync(c, V, t)
  /\ r.op = "MWC_RCV_OP" => PRecover(c, V, t)

LEMMA SchedEnds ==
  ASSUME NEW c \in StateType, NEW V, NEW t \in Trk, NEW mirror \in Mirror, NEW media \in BOOLEAN,
         IGlobal(c), PEnded(c, V, t, mirror), missing \subseteq Mirror
  PROVE  Ends(c, HD_SCHED(c, t, mirror, media), V, t)
<1> DEFINE r == c.req[t]
<1>1. CASE r.op = "write" /\ r.sched = "hd_seqwrite"
  <2>1. Ends(c, hd_seqwrite(c, t), V, t)
    BY <1>1, SeqwriteEnds DEF PEnded
  <2> QED BY <1>1, <2>1 DEF HD_SCHED
<1>2. CASE r.op = "write" /\ r.sched = "hd_parwrite"
  <2>1. Ends(c, hd_parwrite(c, t, mirror), V, t)
    BY <1>2, ParwriteEnds DEF PEnded
  <2> QED BY <1>2, <2>1 DEF HD_SCHED
<1>3. CASE r.op = "read" /\ r.rd
  <2>1. Ends(c, hd_mirread(c, t, media), V, t) /\ r.sched = "hd_mirread"
    BY <1>3, MirreadEnds DEF PEnded, PRead
  <2> QED BY <2>1 DEF HD_SCHED
<1>4. CASE r.op = "read" /\ ~r.rd
  <2>1. Ends(c, hd_fixup(c, t), V, t) /\ r.sched = "hd_fixup"
    BY <1>4, FixupEnds DEF PEnded, PRead
  <2> QED BY <2>1 DEF HD_SCHED
<1>5. CASE r.op = "RESYNC_OP"
  <2>1. r.rd => Ends(c, SyncRead(c, t), V, t)
    BY <1>5, ResyncRead DEF PEnded
  <2>2. ~r.rd => Ends(c, SyncWritten(c, t), V, t)
    BY <1>5, ResyncWritten DEF PEnded
  <2>3. r.sched = "hd_resyncpp"
    BY <1>5 DEF PEnded, PResync, PSync
  <2> QED BY <2>1, <2>2, <2>3 DEF HD_SCHED, hd_resyncpp
<1>6. CASE r.op = "MWC_RCV_OP"
  <2>1. r.rd => Ends(c, SyncRead(c, t), V, t)
    BY <1>6, RecoverRead DEF PEnded
  <2>2. ~r.rd => Ends(c, SyncWritten(c, t), V, t)
    BY <1>6, RecoverWritten DEF PEnded
  <2>3. r.sched = "hd_resyncpp"
    BY <1>6 DEF PEnded, PRecover, PSync
  <2> QED BY <2>1, <2>2, <2>3 DEF HD_SCHED, hd_resyncpp
<1> QED BY <1>1, <1>2, <1>3, <1>4, <1>5, <1>6 DEF PEnded, PWrite, Op, SyncOp

(* A block that is refused ends the transfer with an error.                  *)
LEMMA RefusedEnds ==
  ASSUME NEW c \in StateType, NEW V, NEW t \in Trk, IGlobal(c), IReq(c, V, t), c.req[t].st = "disk",
         c.req[t].refused, missing \subseteq Mirror
  PROVE  Ends(c, Refused(c, t), V, t) /\ c.req[t].op \in Op
<1> DEFINE r == c.req[t]
           tried == r.tried \cup r.on
           q == [r EXCEPT !.refused = FALSE, !.err = TRUE, !.tried = tried]
           d == [c EXCEPT !.req[t] = q]
<1>1. Refused(c, t) = HD_SCHED(d, t, r.mirror, TRUE)
  BY DEF Refused
<1>2. IDisk(c, V, t)
  BY DEF IReq
<1>3. r \in ReqType /\ tried \in SUBSET Mirror
  BY Types
<1> HIDE DEF tried
<1>4. /\ q \in ReqType /\ q.refused = FALSE /\ q.err = TRUE /\ q.tried = tried
      /\ q.op = r.op /\ q.st = r.st /\ q.on = r.on /\ q.sched = r.sched /\ q.rd = r.rd /\ q.mirror = r.mirror
      /\ q.done = r.done /\ q.bad = r.bad /\ q.avoid = r.avoid /\ q.data = r.data
  <2> HIDE DEF r
  <2> QED BY <1>3 DEF ReqType
<1> HIDE DEF q
<1>5. d \in StateType /\ SameBut(c, d, t) /\ d.req[t] = q
  BY <1>4, ReqUpd
<1> HIDE DEF d
<1>6. Good(d, t) = Good(c, t)
  BY <1>5 DEF Good, SameBut
<1>7. Source(d, t) = Source(c, t)
  BY <1>4, <1>5, <1>6 DEF Source
<1>8. r.op = "write" => PWrite(d, V, t, r.mirror) /\ r.mirror \in Mirror
  <2> SUFFICES ASSUME r.op = "write" PROVE PWrite(d, V, t, r.mirror) /\ r.mirror \in Mirror
    OBVIOUS
  <2>1. IWrite(c, V, t) /\ r.sched = "hd_seqwrite"
    BY <1>2 DEF IDisk, IWrite
  <2>2. r.mirror \in Mirror
    BY <1>3, <2>1 DEF IWrite, ReqType
  <2>3. Hold(V, t, Good(d, t) \ (Bad(q, r.mirror) \cup (Todo(q) \ {r.mirror})), q.data)
    BY <1>4, <1>6, <2>1 DEF IWrite, Hold, Bad, Todo
  <2> QED BY <1>4, <1>5, <1>6, <2>1, <2>2, <2>3 DEF PWrite, IWrite
<1>9. r.op = "read" => PRead(d, V, t) /\ r.mirror \in Mirror
  <2> SUFFICES ASSUME r.op = "read" PROVE PRead(d, V, t) /\ r.mirror \in Mirror
    OBVIOUS
  <2>1. IRead(c, V, t) /\ IReads(c, V, t)
    BY <1>2 DEF IDisk, IRead
  <2>2. r.mirror \in Mirror
    BY <2>1 DEF IReads
  <2>3. PRead(d, V, t)
    BY <1>4, <1>5, <1>7, <2>1 DEF PRead, IRead, IReads, tried, SameBut, Current
  <2> QED BY <2>2, <2>3
<1>10. r.op \in SyncOp => PSync(d, V, t) /\ r.mirror \in Mirror
  <2> SUFFICES ASSUME r.op \in SyncOp PROVE PSync(d, V, t) /\ r.mirror \in Mirror
    OBVIOUS
  <2>1. IReads(c, V, t) /\ r.sched = "hd_resyncpp"
    BY <1>2 DEF IDisk, IResync, IRecover, SyncOp
  <2> QED BY <1>4, <1>5, <1>7, <2>1 DEF PSync, IReads, SameBut, Current
<1>11. r.op = "RESYNC_OP" => PResync(d, V, t)
  BY <1>2, <1>4, <1>5, <1>10 DEF IDisk, IResync, PResync, SameBut, SyncOp
<1>12. r.op = "MWC_RCV_OP" => PRecover(d, V, t)
  <2> SUFFICES ASSUME r.op = "MWC_RCV_OP" PROVE PRecover(d, V, t)
    OBVIOUS
  <2>1. IRecover(c, V, t)
    BY <1>2 DEF IDisk
  <2>2. c.vg = "opening" /\ ~r.rd => Hold(V, t, Mirror \ (Bad(q, q.mirror) \cup c.sync_msk), r.data)
    BY <1>4, <2>1 DEF IRecover, Hold, Bad
  <2> QED BY <1>4, <1>5, <1>10, <2>1, <2>2 DEF IRecover, PRecover, SameBut, SyncOp
<1>13. PEnded(d, V, t, r.mirror) /\ r.mirror \in Mirror /\ r.op \in Op
  BY <1>2, <1>4, <1>5, <1>8, <1>9, <1>10, <1>11, <1>12 DEF PEnded, IDisk, Op, SyncOp
<1>14. IGlobal(d)
  BY <1>4, <1>5, GlobalSame
<1>15. Ends(d, HD_SCHED(d, t, r.mirror, TRUE), V, t)
  BY <1>5, <1>13, <1>14, SchedEnds
<1> QED BY <1>1, <1>4, <1>5, <1>13, <1>15, FromSame

(* However often blocks are refused: each state that Settled passes through   *)
(* ends the handler well.                                                   *)
LEMMA SettledEnds ==
  ASSUME NEW b \in StateType, NEW c, NEW V, NEW t \in Trk, IGlobal(b), Ends(b, c, V, t), missing \subseteq Mirror
  PROVE  \A d \in Settled(c, t) : Ends(b, d, V, t)
<1> DEFINE A == 2 * NMir
           Next1(d) == IF d.req[t].st = "disk" /\ d.req[t].refused THEN Refused(d, t) ELSE d
           step(S) == {Next1(d) : d \in S}
           IsAfter(g, n) == g = [i \in 0..n |-> IF i = 0 THEN {c} ELSE step(g[i - 1])]
           T == {n \in 0..A : \E g : IsAfter(g, n)}
           f == CHOOSE g : IsAfter(g, A)
<1>1. ASSUME NEW d, Ends(b, d, V, t) PROVE Ends(b, Next1(d), V, t)
  <2>1. CASE d.req[t].st = "disk" /\ d.req[t].refused
    <3>1. d \in StateType /\ Frame(b, d, t) /\ Kept(b, d, t) /\ IReq(d, V, t)
      BY <1>1 DEF Ends
    <3>2. IGlobal(d)
      BY <3>1, FrameGlobal DEF Frame
    <3>3. Ends(d, Refused(d, t), V, t) /\ d.req[t].op \in Op
      BY <2>1, <3>1, <3>2, RefusedEnds
    <3>4. d.req[t].op = b.req[t].op
      BY <3>1, <3>3 DEF Frame, Outside, Op, SyncOp
    <3>5. Ends(b, Refused(d, t), V, t)
      BY <2>1, <3>1, <3>3, <3>4, FromFrame
    <3> QED BY <2>1, <3>5
  <2>2. CASE ~(d.req[t].st = "disk" /\ d.req[t].refused)
    BY <1>1, <2>2
  <2> QED BY <2>1, <2>2
<1>2. A \in Nat
  OBVIOUS
<1>3. Settled(c, t) = f[A]
  BY Zenon DEF Settled
<1> HIDE DEF A, Next1, step
<1>4. T = 0..A
  <2>1. 0 \in T
    <3>1. IsAfter([i \in 0..0 |-> {c}], 0)
      OBVIOUS
    <3>2. 0 \in 0..A /\ \E g : IsAfter(g, 0)
      <4> HIDE DEF IsAfter
      <4> QED BY <1>2, <3>1
    <3> QED BY <3>2, Zenon
  <2>2. ASSUME NEW n \in 1..A, n - 1 \in T PROVE n \in T
    <3>1. PICK g : IsAfter(g, n - 1)
      BY <2>2, Zenon
    <3>2. n - 1 \in Nat /\ n \in 0..A
      BY <1>2
    <3> DEFINE h == [i \in 0..n |-> IF i = 0 THEN {c} ELSE step(g[i - 1])]
    <3>3. ASSUME NEW i \in 0..(n - 1) PROVE h[i] = g[i]
      <4>1. g[i] = IF i = 0 THEN {c} ELSE step(g[i - 1])
        BY <3>1
      <4>2. h[i] = IF i = 0 THEN {c} ELSE step(g[i - 1])
        BY <3>2
      <4> QED BY <4>1, <4>2
    <3>4. ASSUME NEW i \in 0..n, i # 0 PROVE g[i - 1] = h[i - 1]
      <4>1. i - 1 \in 0..(n - 1)
        BY <3>4
      <4> HIDE DEF h
      <4> QED BY <3>3, <4>1
    <3>5. IsAfter(h, n)
      BY <3>4
    <3> HIDE DEF h, IsAfter
    <3> QED BY <3>2, <3>5
  <2> HIDE DEF T
  <2>3. T \in SUBSET (0..A)
    BY DEF T
  <2> QED BY <1>2, <2>1, <2>2, <2>3, IntervalInduction
<1>5. IsAfter(f, A)
  <2>1. A \in T
    <3> HIDE DEF T
    <3> QED BY <1>2, <1>4
  <2>2. \E g : IsAfter(g, A)
    BY <2>1, Zenon
  <2> QED BY <2>2, Zenon
<1> HIDE DEF f
<1> DEFINE K == {i \in 0..A : \A d \in f[i] : Ends(b, d, V, t)}
<1>6. K = 0..A
  <2>1. 0 \in K
    <3>1. 0 \in 0..A /\ f[0] = {c}
      BY <1>2, <1>5
    <3> QED BY <3>1
  <2>2. ASSUME NEW n \in 1..A, n - 1 \in K PROVE n \in K
    <3>1. n \in 0..A /\ n # 0
      BY <1>2
    <3>2. f[n] = step(f[n - 1])
      BY <1>5, <3>1
    <3>3. \A d \in f[n - 1] : Ends(b, Next1(d), V, t)
      <4>1. \A d \in f[n - 1] : Ends(b, d, V, t)
        BY <2>2
      <4> QED BY <1>1, <4>1
    <3>4. \A d \in f[n] : Ends(b, d, V, t)
      BY <3>2, <3>3 DEF step
    <3> QED BY <3>1, <3>4
  <2>3. K \in SUBSET (0..A)
    OBVIOUS
  <2> HIDE DEF K
  <2> QED BY <1>2, <2>1, <2>2, <2>3, IntervalInduction
<1>7. A \in K
  <2> HIDE DEF K
  <2> QED BY <1>2, <1>6
<1> QED BY <1>3, <1>7

-----------------------------------------------------------------------------
(* Of the data only that of its own track group matters to a request.       *)
LEMMA ValSame ==
  ASSUME NEW c \in StateType, NEW V, NEW W, NEW t \in Trk, \A x \in Mirror : W[x][t] = V[x][t], IReq(c, V, t)
  PROVE  IReq(c, W, t)
<1>1. \A S \in SUBSET Mirror : Alike(V, t, S) => Alike(W, t, S)
  BY DEF Alike
<1>2. \A S \in SUBSET Mirror : \A data : Hold(V, t, S, data) => Hold(W, t, S, data)
  BY DEF Hold
<1>3. /\ Good(c, t) \in SUBSET Mirror /\ Source(c, t) \in SUBSET Mirror /\ c.req[t].done \in SUBSET Mirror
      /\ \A S : Good(c, t) \ S \in SUBSET Mirror /\ Mirror \ S \in SUBSET Mirror /\ c.req[t].done \ S \in SUBSET Mirror
  BY Types DEF Good, Source
<1>4. \A S \in SUBSET Mirror : Current(c, V, t, S) => Current(c, W, t, S)
  BY <1>1, <1>2 DEF Current
<1>5. Clean(c, V, t) => Clean(c, W, t)
  BY <1>3, <1>4 DEF Clean
<1>6. IReturned(c, V, t) => IReturned(c, W, t)
  BY <1>5 DEF IReturned
<1>7. IPending(c, V, t) => IPending(c, W, t)
  BY <1>5 DEF IPending
<1>8. IWheel(c, V, t) => IWheel(c, W, t)
  BY <1>1, <1>2, <1>3, <1>5 DEF IWheel
<1>9. IWrite(c, V, t) => IWrite(c, W, t)
  BY <1>2, <1>3 DEF IWrite
<1>10. IReads(c, V, t) => IReads(c, W, t)
  BY <1>2, <1>3, <1>4 DEF IReads
<1>11. IRead(c, V, t) => IRead(c, W, t)
  BY <1>10 DEF IRead
<1>12. IResync(c, V, t) => IResync(c, W, t)
  BY <1>2, <1>3, <1>10 DEF IResync
<1>13. IRecover(c, V, t) => IRecover(c, W, t)
  BY <1>2, <1>3, <1>10 DEF IRecover
<1> QED BY <1>6, <1>7, <1>8, <1>9, <1>11, <1>12, <1>13 DEF IReq, IDisk

(* A transfer of c to or from a mirror ends: d is what the driver knows then, *)
(* W the data.                                                              *)
EndedReq(c, V, t, mirror, err) ==
  LET r == c.req[t] IN
  [r EXCEPT !.err = err, !.tried = IF r.op = "read" THEN @ \cup {mirror} ELSE @,
            !.data = IF r.rd /\ ~err THEN V[mirror][t] ELSE @]

EndedVal(c, V, t, mirror, err) ==
  LET r == c.req[t] IN
  IF r.rd \/ V[mirror][t] = r.data THEN V
  ELSE [V EXCEPT ![mirror][t] = IF err THEN -mirror ELSE r.data]

LEMMA EndedValIs ==
  ASSUME NEW c \in StateType, NEW V \in ValType, NEW t \in Trk, NEW mirror \in Mirror, NEW err \in BOOLEAN
  PROVE  LET W == EndedVal(c, V, t, mirror, err)
             r == c.req[t]
         IN  /\ W \in ValType
             /\ \A s \in Trk \ {t} : \A x \in Mirror : W[x][s] = V[x][s]
             /\ \A x \in Mirror \ {mirror} : W[x][t] = V[x][t]
             /\ r.rd \/ V[mirror][t] = r.data => W = V
             /\ ~r.rd /\ ~err => W[mirror][t] = r.data
<1> DEFINE r == c.req[t]
           new == IF err THEN -mirror ELSE r.data
           row == [V[mirror] EXCEPT ![t] = new]
           U == [V EXCEPT ![mirror] = row]
<1>1. V \in [Mirror -> [Trk -> Int]] /\ V[mirror] \in [Trk -> Int] /\ r.data \in Int
  BY Types DEF ValType
<1>2. new \in Int
  <2>1. mirror \in Int
    BY MirrorType
  <2> QED BY <1>1, <2>1
<1>3. EndedVal(c, V, t, mirror, err) = IF r.rd \/ V[mirror][t] = r.data THEN V ELSE U
  BY DEF EndedVal
<1>4. ~err => new = r.data
  OBVIOUS
<1> HIDE DEF new
<1>5. row \in [Trk -> Int] /\ row[t] = new /\ \A s \in Trk \ {t} : row[s] = V[mirror][s]
  BY <1>1, <1>2
<1> HIDE DEF row
<1>6. U \in ValType /\ U[mirror] = row /\ \A x \in Mirror \ {mirror} : U[x] = V[x]
  BY <1>1, <1>5 DEF ValType
<1> HIDE DEF U, r
<1> DEFINE W == EndedVal(c, V, t, mirror, err)
<1>7. CASE r.rd \/ V[mirror][t] = r.data
  <2>1. W = V
    BY <1>3, <1>7
  <2> QED BY <1>7, <2>1 DEF r
<1>8. CASE ~(r.rd \/ V[mirror][t] = r.data)
  <2>1. W = U
    BY <1>3, <1>8
  <2> HIDE DEF W
  <2>2. \A s \in Trk \ {t} : \A x \in Mirror : W[x][s] = V[x][s]
    BY <1>5, <1>6, <2>1
  <2>3. \A x \in Mirror \ {mirror} : W[x][t] = V[x][t]
    BY <1>6, <2>1
  <2>4. ~err => W[mirror][t] = r.data
    BY <1>4, <1>5, <1>6, <2>1
  <2>5. W \in ValType
    BY <1>6, <2>1
  <2> QED BY <1>8, <2>2, <2>3, <2>4, <2>5 DEF r, W
<1> QED BY <1>7, <1>8

LEMMA EndedIs ==
  ASSUME NEW c \in StateType, NEW V \in ValType, NEW t \in Trk, NEW mirror \in c.req[t].on, NEW err \in BOOLEAN,
         IGlobal(c), IReq(c, V, t)
  PROVE  LET d == [c EXCEPT !.req[t] = EndedReq(c, V, t, mirror, err)]
             W == EndedVal(c, V, t, mirror, err)
         IN  /\ d \in StateType /\ SameBut(c, d, t) /\ d.req[t].op = c.req[t].op /\ c.req[t].op \in Op
             /\ PEnded(d, W, t, mirror) /\ mirror \in Mirror
<1> DEFINE r == c.req[t]
           q == EndedReq(c, V, t, mirror, err)
           d == [c EXCEPT !.req[t] = q]
           W == EndedVal(c, V, t, mirror, err)
           tried == IF r.op = "read" THEN r.tried \cup {mirror} ELSE r.tried
           data == IF r.rd /\ ~err THEN V[mirror][t] ELSE r.data
<1>1. r \in ReqType /\ mirror \in Mirror /\ r.on \subseteq Mirror
  BY Types
<1>2. r.st = "disk" /\ IDisk(c, V, t) /\ r.op \in Op
  BY DEF IReq, IDisk
<1>3. /\ \A x \in Mirror \ {mirror} : W[x][t] = V[x][t]
      /\ r.rd \/ V[mirror][t] = r.data => W = V
      /\ ~r.rd /\ ~err => W[mirror][t] = r.data
  BY <1>1, EndedValIs
<1>4. tried \in SUBSET Mirror /\ data \in Int
  BY <1>1, Types DEF ValType
<1>5. q = [r EXCEPT !.err = err, !.tried = tried, !.data = data]
  BY DEF EndedReq
<1>6. (r.rd /\ ~err => data = V[mirror][t]) /\ (~r.rd => data = r.data)
  OBVIOUS
<1>7. r.op = "read" => tried = r.tried \cup {mirror}
  OBVIOUS
<1> HIDE DEF tried, data, q, W
<1>8. /\ q \in ReqType /\ q.err = err /\ q.tried = tried /\ q.data = data
      /\ q.op = r.op /\ q.st = r.st /\ q.on = r.on /\ q.sched = r.sched /\ q.rd = r.rd /\ q.mirror = r.mirror
      /\ q.done = r.done /\ q.bad = r.bad /\ q.avoid = r.avoid /\ q.refused = r.refused
  <2> HIDE DEF r
  <2> QED BY <1>1, <1>4, <1>5 DEF ReqType
<1>9. d \in StateType /\ SameBut(c, d, t) /\ d.req[t] = q
  BY <1>8, ReqUpd
<1> HIDE DEF d
<1>10. Good(d, t) = Good(c, t) /\ Good(c, t) \subseteq Mirror
  BY <1>9 DEF Good, SameBut
<1>11. Source(d, t) = Source(c, t) /\ Source(c, t) \subseteq Mirror
  BY <1>8, <1>9, <1>10 DEF Source
<1>12. r.op = "write" => PWrite(d, W, t, mirror)
  <2> SUFFICES ASSUME r.op = "write" PROVE PWrite(d, W, t, mirror)
    OBVIOUS
  <2>1. IWrite(c, V, t)
    BY <1>2 DEF IDisk
  <2>2. Hold(W, t, Good(c, t) \ (Bad(q, mirror) \cup (Todo(r) \ {mirror})), r.data)
    <3> SUFFICES ASSUME NEW x \in Good(c, t), x \notin Bad(q, mirror), x \notin Todo(r) \ {mirror}
                 PROVE  W[x][t] = r.data
      BY DEF Hold
    <3>1. CASE x = mirror
      BY <1>3, <1>8, <2>1, <3>1 DEF Bad, IWrite
    <3>2. CASE x # mirror
      BY <1>3, <1>8, <1>10, <2>1, <3>2 DEF Bad, IWrite, Hold
    <3> QED BY <3>1, <3>2
  <2>3. Todo(q) = Todo(r)
    BY <1>8 DEF Todo
  <2> QED BY <1>2, <1>6, <1>8, <1>9, <1>10, <2>1, <2>2, <2>3 DEF PWrite, IWrite
<1>13. r.op # "write" /\ (mirror \in Source(c, t) \/ r.rd) =>
         (t \notin c.torn => Current(c, W, t, Source(c, t)) /\ (~r.rd \/ ~err => Hold(W, t, Source(c, t), data)))
  <2> SUFFICES ASSUME r.op # "write", mirror \in Source(c, t) \/ r.rd, t \notin c.torn
               PROVE  Current(c, W, t, Source(c, t)) /\ (~r.rd \/ ~err => Hold(W, t, Source(c, t), data))
    OBVIOUS
  <2>1. IReads(c, V, t)
    BY <1>2 DEF IDisk, IRead, IResync, IRecover, Op, SyncOp
  <2>2. CASE r.rd
    <3>1. W = V /\ mirror \in Source(c, t)
      BY <1>1, <1>3, <2>1, <2>2 DEF IReads, Source
    <3> QED BY <1>6, <2>1, <2>2, <3>1 DEF IReads, Current, Alike, Hold
  <2>3. CASE ~r.rd
    <3>1. V[mirror][t] = r.data
      BY <2>1, <2>3 DEF IReads, Hold
    <3>2. W = V
      BY <1>3, <3>1
    <3> QED BY <1>6, <2>1, <2>3, <3>2 DEF IReads
  <2> QED BY <2>2, <2>3
<1>14. r.op = "read" => PRead(d, W, t)
  <2> SUFFICES ASSUME r.op = "read" PROVE PRead(d, W, t)
    OBVIOUS
  <2>1. IRead(c, V, t) /\ IReads(c, V, t)
    BY <1>2 DEF IDisk, IRead
  <2>2. mirror \in Source(c, t) /\ r.on = {mirror}
    BY <1>1, <2>1 DEF IRead, IReads, Source
  <2>3. r.rd /\ c.i_sched \notin NearbyReads => r.done \subseteq tried
    BY <1>7, <2>1, <2>2 DEF IRead
  <2> QED BY <1>2, <1>8, <1>9, <1>11, <1>13, <2>1, <2>2, <2>3 DEF PRead, IRead, IReads, Current, SameBut
<1>15. r.op = "RESYNC_OP" => PResync(d, W, t)
  <2> SUFFICES ASSUME r.op = "RESYNC_OP" PROVE PResync(d, W, t)
    OBVIOUS
  <2>1. IResync(c, V, t) /\ IReads(c, V, t)
    BY <1>2 DEF IDisk, IResync
  <2>2. t \notin c.torn => Current(c, W, t, Source(c, t)) /\ (~r.rd \/ ~err => Hold(W, t, Source(c, t), data))
    <3>1. CASE r.rd
      BY <1>13, <3>1
    <3>2. CASE ~r.rd
      <4>1. mirror \in c.stale \cap r.avoid
        BY <2>1, <3>2 DEF IResync
      <4>2. mirror \notin Source(c, t)
        BY <2>1, <4>1 DEF Source, Good, IResync, Trk
      <4> QED BY <1>3, <1>6, <1>11, <2>1, <3>2, <4>2 DEF IReads, Current, Alike, Hold
    <3> QED BY <3>1, <3>2
  <2>3. PSync(d, W, t)
    BY <1>2, <1>8, <1>9, <1>11, <2>1, <2>2 DEF PSync, IReads, IResync, Current, SameBut
  <2>4. ~r.rd => Hold(W, t, r.done \ (c.syncerr \cup (IF err THEN {r.mirror} ELSE {})), data)
    <3> SUFFICES ASSUME ~r.rd, NEW x \in r.done, x \notin c.syncerr, ~(err /\ x = r.mirror)
                 PROVE  W[x][t] = r.data
      BY <1>6 DEF Hold
    <3>1. x \in Mirror /\ mirror = r.mirror
      BY <2>1, Types DEF IResync
    <3>2. CASE x = mirror
      BY <1>3, <3>1, <3>2
    <3>3. CASE x # mirror
      BY <1>3, <2>1, <3>1, <3>3 DEF IResync, Hold
    <3> QED BY <3>2, <3>3
  <2> QED BY <1>8, <1>9, <2>1, <2>3, <2>4 DEF PResync, IResync, SameBut
<1>16. r.op = "MWC_RCV_OP" => PRecover(d, W, t)
  <2> SUFFICES ASSUME r.op = "MWC_RCV_OP" PROVE PRecover(d, W, t)
    OBVIOUS
  <2>1. IRecover(c, V, t) /\ IReads(c, V, t)
    BY <1>2 DEF IDisk, IRecover
  <2>2. mirror \in Source(c, t) /\ (c.vg = "opening" => mirror = r.mirror)
    BY <1>1, <2>1 DEF IRecover, Source
  <2>3. PSync(d, W, t)
    BY <1>2, <1>8, <1>9, <1>11, <1>13, <2>1, <2>2 DEF PSync, IReads, IRecover, Current, SameBut
  <2>4. c.vg = "opening" /\ r.rd /\ ~err => W[r.mirror][t] = data
    BY <1>3, <1>6, <2>2
  <2>5. c.vg = "opening" /\ ~r.rd => Hold(W, t, Mirror \ (Bad(q, r.mirror) \cup c.sync_msk), data)
    <3> SUFFICES ASSUME c.vg = "opening", ~r.rd, NEW x \in Mirror, x \notin Bad(q, r.mirror), x \notin c.sync_msk
                 PROVE  W[x][t] = r.data
      BY <1>6 DEF Hold
    <3>1. CASE x = mirror
      BY <1>3, <1>8, <2>2, <3>1 DEF Bad
    <3>2. CASE x # mirror
      <4>1. x \notin r.bad /\ x \notin r.on
        BY <1>8, <2>1, <2>2, <3>2 DEF Bad, IRecover
      <4> QED BY <1>3, <2>1, <3>2, <4>1 DEF IRecover, Hold
    <3> QED BY <3>1, <3>2
  <2>6. r.done \subseteq r.bad \cup {r.mirror} \/ ~(c.vg = "opening" /\ r.rd)
    BY <2>1 DEF IRecover
  <2> QED BY <1>8, <1>9, <2>1, <2>3, <2>4, <2>5, <2>6 DEF PRecover, IRecover, SameBut
<1> QED BY <1>1, <1>2, <1>8, <1>9, <1>12, <1>14, <1>15, <1>16 DEF PEnded, d, W, q

-----------------------------------------------------------------------------
(* A handler that ends well keeps the invariant.                            *)
LEMMA EndsInv ==
  ASSUME NEW c \in StateType, NEW t \in Trk, IGlobal(c), \A s \in Trk \ {t} : IReq(c, val, s), Chg(c, Trk \ {t}),
         c.req[t].op # "none", Ends(c, m', val', t), val' \in ValType,
         \A s \in Trk \ {t} : \A x \in Mirror : val'[x][s] = val[x][s], missing' \subseteq Mirror
  PROVE  IInv'
<1>1. m' \in StateType /\ Frame(c, m', t) /\ Kept(c, m', t) /\ IReq(m', val', t)
  BY DEF Ends
<1>2. IGlobal(m')
  BY <1>1, FrameGlobal DEF Frame
<1>3. ASSUME NEW s \in Trk \ {t} PROVE IReq(m', val', s)
  <2>1. IReq(c, val', s)
    BY ValSame
  <2> QED BY <2>1, OtherKept
<1>4. Chg(m', Trk)
  BY <1>1 DEF Frame
<1> QED BY <1>1, <1>2, <1>3, <1>4 DEF IInv

LEMMA EndInv ==
  ASSUME IInv, NEW t \in Trk, NEW mirror \in m.req[t].on, NEW err \in BOOLEAN, NEW media \in BOOLEAN,
         hd_end(t, mirror, err, media)
  PROVE  IInv'
<1> DEFINE d == [m EXCEPT !.req[t] = EndedReq(m, val, t, mirror, err)]
           W == EndedVal(m, val, t, mirror, err)
           c == HD_SCHED(d, t, mirror, media)
<1>1. m' \in Settled(c, t) /\ val' = W /\ missing' = missing
  BY DEF hd_end, EndedReq, EndedVal
<1>2. m \in StateType /\ val \in ValType /\ IGlobal(m) /\ IReq(m, val, t) /\ missing \subseteq Mirror
  BY DEF IInv
<1>3. /\ d \in StateType /\ SameBut(m, d, t) /\ d.req[t].op = m.req[t].op /\ m.req[t].op \in Op
      /\ PEnded(d, W, t, mirror) /\ mirror \in Mirror
  BY <1>2, EndedIs
<1>4. W \in ValType /\ \A s \in Trk \ {t} : \A x \in Mirror : W[x][s] = val[x][s]
  BY <1>2, <1>3, EndedValIs
<1> HIDE DEF d, W, c
<1>5. IGlobal(d)
  BY <1>2, <1>3, GlobalSame
<1>6. Ends(d, c, W, t)
  BY <1>2, <1>3, <1>5, SchedEnds DEF c
<1>7. Ends(m, c, W, t)
  BY <1>2, <1>3, <1>6, FromSame
<1>8. Ends(m, m', W, t)
  BY <1>1, <1>2, <1>7, SettledEnds
<1>9. m.req[t].op # "none"
  BY <1>3 DEF Op, SyncOp
<1>10. Chg(m, Trk \ {t})
  <2>1. m.req[t].st # "wheel"
    BY <1>2 DEF IReq
  <2> QED BY <1>2, <2>1, ChgAll DEF IInv
<1>11. \A s \in Trk \ {t} : IReq(m, val, s)
  BY DEF IInv
<1> QED BY <1>1, <1>2, <1>4, <1>8, <1>9, <1>10, <1>11, EndsInv

-----------------------------------------------------------------------------
(* The wheel returns a request.                                             *)
LEMMA SaRtnInv ==
  ASSUME IInv, NEW t \in Trk, hd_sa_rtn(t)
  PROVE  IInv'
<1> DEFINE r == m.req[t]
           q == [r EXCEPT !.err = @ \/ m.off]
           d == [m EXCEPT !.req[t] = q]
           chging == d.chging \ d.req[t].bad
           e == [d EXCEPT !.chging = chging]
           f == IF r.sched = "hd_staleppe" THEN e ELSE d
<1>1. m \in StateType /\ val \in ValType /\ IGlobal(m) /\ IReq(m, val, t) /\ missing \subseteq Mirror
  BY DEF IInv
<1>2. r \in ReqType /\ m.off \in BOOLEAN
  BY <1>1, Types DEF StateType
<1>3. /\ q \in ReqType /\ q.op = r.op /\ q.sched = r.sched /\ q.data = r.data /\ q.bad = r.bad /\ r.bad \subseteq Mirror
      /\ ~q.err => ~r.err
  <2> HIDE DEF r
  <2>1. (r.err \/ m.off) \in BOOLEAN
    OBVIOUS
  <2>2. r.bad \subseteq Mirror
    BY <1>2 DEF ReqType
  <2> QED BY <1>2, <2>1, <2>2 DEF ReqType
<1> HIDE DEF q
<1>4. d \in StateType /\ SameBut(m, d, t) /\ d.req[t] = q
  BY <1>1, <1>3, ReqUpd
<1>5. m' = hd_finished(f, t) /\ val' = val /\ missing' = missing /\ r.st = "wheel"
  <2>1. [m EXCEPT !.req[t].err = @ \/ m.off] = d
    BY DEF q
  <2>2. d.req[t].sched = r.sched
    BY <1>3, <1>4
  <2> QED BY <2>1, <2>2 DEF hd_sa_rtn, hd_staleppe
<1> HIDE DEF d
<1>6. /\ f \in StateType /\ \A s \in Trk \ {t} : f.req[s] = m.req[s]
      /\ f.req[t] = q /\ f.stale = m.stale /\ f.syncerr = m.syncerr /\ f.sync_trk = m.sync_trk
      /\ f.sync_msk = m.sync_msk /\ f.rip = m.rip /\ f.i_sched = m.i_sched /\ f.refuse = m.refuse
      /\ f.vg = m.vg /\ f.acked = m.acked /\ f.torn = m.torn /\ f.off = m.off
      /\ f.chging = IF r.sched = "hd_staleppe" THEN m.chging \ r.bad ELSE m.chging
  <2>1. chging \in SUBSET Mirror /\ chging = m.chging \ r.bad
    BY <1>3, <1>4 DEF StateType, SameBut
  <2> HIDE DEF chging
  <2>2. e \in StateType /\ e.chging = chging /\ e.req = d.req
    BY <1>4, <2>1 DEF StateType
  <2>3. /\ e.stale = d.stale /\ e.syncerr = d.syncerr /\ e.sync_trk = d.sync_trk
        /\ e.sync_msk = d.sync_msk /\ e.rip = d.rip /\ e.i_sched = d.i_sched /\ e.refuse = d.refuse
        /\ e.vg = d.vg /\ e.acked = d.acked /\ e.torn = d.torn /\ e.off = d.off
    BY <1>4 DEF StateType
  <2> HIDE DEF e
  <2> QED BY <1>4, <2>1, <2>2, <2>3 DEF SameBut
<1> HIDE DEF f
<1>7. IGlobal(f)
  <2>1. IGlobal(d)
    BY <1>1, <1>3, <1>4, GlobalSame
  <2>2. \A s \in Trk : f.req[s].op = m.req[s].op
    BY <1>3, <1>6
  <2> QED BY <1>1, <1>6, <2>2 DEF IGlobal
<1>8. Good(f, t) = Good(m, t) /\ \A s \in Trk : Good(f, s) = Good(m, s)
  BY <1>6 DEF Good
<1>9. IWheel(m, val, t)
  BY <1>1, <1>5 DEF IReq
<1>10. IDone(f, val, t)
  <2>1. Clean(m, val, t) => Clean(f, val, t)
    BY <1>6, <1>8 DEF Clean, Current
  <2> QED BY <1>3, <1>6, <1>8, <1>9, <2>1 DEF IDone, IWheel, Op, SyncOp
<1>11. Ends(f, m', val, t)
  BY <1>5, <1>6, <1>7, <1>10, FinishEnds
<1>12. q.op # "none"
  BY <1>3, <1>9 DEF IWheel, SyncOp
<1>13. ASSUME NEW s \in Trk \ {t} PROVE IReq(f, val, s)
  <2>1. Seen(m, f, s)
    BY <1>6, <1>8 DEF Seen
  <2> QED BY <1>1, <2>1, SeenKept DEF IInv
<1>14. Chg(f, Trk \ {t})
  <2> SUFFICES ASSUME NEW x \in f.chging
               PROVE  /\ x \in f.stale
                      /\ f.off \/ \E s \in Trk \ {t} : Waits(f, x, s)
                      /\ f.sync_trk # NO_SYNCTRK =>
                           x \in f.syncerr \/ \E s \in Trk \ {t} : s >= f.sync_trk /\ Waits(f, x, s)
    BY DEF Chg
  <2>1. x \in m.chging /\ ~Waits(m, x, t)
    BY <1>6 DEF Waits
  <2>2. \A s \in Trk : Waits(m, x, s) => s \in Trk \ {t} /\ Waits(f, x, s)
    BY <1>6, <2>1 DEF Waits
  <2>3. /\ x \in m.stale
        /\ m.off \/ \E s \in Trk : Waits(m, x, s)
        /\ m.sync_trk # NO_SYNCTRK => x \in m.syncerr \/ \E s \in Trk : s >= m.sync_trk /\ Waits(m, x, s)
    BY <2>1 DEF IInv, Chg
  <2> QED BY <1>6, <2>2, <2>3
<1> QED BY <1>1, <1>5, <1>6, <1>7, <1>11, <1>12, <1>13, <1>14, EndsInv

LEMMA ForceOffInv ==
  ASSUME IInv, ForceOff
  PROVE  IInv'
<1>1. m \in StateType /\ m' = [m EXCEPT !.off = TRUE] /\ val' = val /\ missing' = missing
  BY DEF IInv, ForceOff
<1>2. m' \in StateType
  BY <1>1 DEF StateType
<1> DEFINE d == [m EXCEPT !.off = TRUE]
<1>d. /\ d.stale = m.stale /\ d.syncerr = m.syncerr /\ d.sync_trk = m.sync_trk
      /\ d.sync_msk = m.sync_msk /\ d.rip = m.rip /\ d.i_sched = m.i_sched /\ d.nobbrel = m.nobbrel
      /\ d.refuse = m.refuse /\ d.vg = m.vg /\ d.acked = m.acked /\ d.torn = m.torn
      /\ d.next = m.next /\ d.req = m.req /\ d.chging = m.chging /\ d.off = TRUE
  BY <1>1 DEF StateType
<1>3. ASSUME NEW t \in Trk PROVE Seen(m, m', t)
  BY <1>1, <1>d DEF Seen, Good
<1>4. ASSUME NEW t \in Trk PROVE IReq(m', val', t)
  BY <1>1, <1>3, SeenKept DEF IInv
<1>5. IGlobal(m')
  BY <1>1, <1>d DEF IGlobal, IInv
<1>6. Chg(m', Trk)
  BY <1>1, <1>d DEF Chg, Waits, IInv
<1> QED BY <1>1, <1>2, <1>4, <1>5, <1>6 DEF IInv

(* Nothing runs when the group is opened.                                   *)
LEMMA SetupInv ==
  ASSUME IInv, hd_ksetupvg
  PROVE  IInv'
<1>1. /\ m \in StateType /\ m' = [m EXCEPT !.vg = "open"] /\ val' = val /\ missing' = missing /\ m.vg = "opening"
      /\ \A t \in Trk : m.req[t].st = "returned"
  BY DEF IInv, hd_ksetupvg
<1>2. m' \in StateType
  BY <1>1 DEF StateType
<1>3. /\ m'.req = m.req /\ m'.acked = m.acked /\ m'.torn = m.torn /\ m'.stale = m.stale /\ m'.vg = "open"
      /\ m'.syncerr = m.syncerr /\ m'.sync_trk = m.sync_trk /\ m'.i_sched = m.i_sched /\ m'.refuse = m.refuse /\ m'.rip = m.rip
      /\ m'.chging = m.chging /\ m'.off = m.off
  BY <1>1 DEF StateType
<1>4. \A t \in Trk : m.req[t].op \in {"none", "read"}
  BY <1>1 DEF IInv, IReq, IReturned
<1>5. ASSUME NEW t \in Trk PROVE IReq(m', val', t)
  <2>1. Good(m', t) = Good(m, t)
    BY <1>3 DEF Good
  <2>2. IReturned(m', val', t)
    BY <1>1, <1>3, <2>1 DEF IInv, IReq, IReturned, Clean, Current
  <2>3. m'.req[t].st = "returned" /\ m'.req[t].on = {}
    BY <1>1, <1>3 DEF IInv, IReq
  <2> QED BY <2>2, <2>3 DEF IReq
<1>6. IGlobal(m')
  BY <1>1, <1>3, <1>4 DEF IGlobal, IInv, SyncOp
<1>7. Chg(m', Trk)
  BY <1>3 DEF Chg, Waits, IInv
<1> QED BY <1>1, <1>2, <1>5, <1>6, <1>7 DEF IInv

LEMMA DisksInv ==
  ASSUME IInv, NEW mirror \in Mirror, SETSA_PVMISS(mirror) \/ hd_kaddpv(mirror)
  PROVE  IInv'
<1>1. m' = m /\ val' = val /\ missing' \subseteq Mirror
  BY DEF SETSA_PVMISS, hd_kaddpv, IInv
<1> QED BY <1>1 DEF IInv

(* A request comes in.                                                      *)
LEMMA DataType ==
  ASSUME m \in StateType, val \in ValType, NEW t \in Trk
  PROVE  Max({m.acked[t]} \cup {val[x][t] : x \in Mirror}) + 1 \in Int
<1> DEFINE f == [x \in 1..NMir |-> val[x][t]]
           S == {val[x][t] : x \in Mirror}
           max == Max({m.acked[t]} \cup S)
<1>1. m.acked[t] \in Int /\ f \in [1..NMir -> Int] /\ NMir \in Nat
  <2>1. m.acked \in [Trk -> Int]
    BY DEF StateType
  <2>2. \A x \in 1..NMir : val[x] \in [Trk -> Int]
    BY DEF ValType, Mirror
  <2> QED BY <2>1, <2>2
<1>2. S = {f[x] : x \in 1..NMir}
  BY DEF Mirror
<1> HIDE DEF f, S
<1>3. max \in Int
  BY <1>1, <1>2, MaxOfValues
<1> HIDE DEF max
<1>4. max + 1 \in Int
  BY <1>3
<1> QED BY <1>4 DEF max, S

(* The flags of the partition as a request that comes in leaves them.       *)
Comes(e, t, q) ==
  /\ e \in StateType /\ e.req[t] = q /\ \A s \in Trk \ {t} : e.req[s] = m.req[s]
  /\ e.stale = m.stale /\ e.vg = m.vg /\ e.i_sched = m.i_sched /\ e.refuse = m.refuse /\ e.acked = m.acked /\ e.torn = m.torn
  /\ \/ e.syncerr = m.syncerr /\ e.sync_trk = m.sync_trk /\ e.sync_msk = m.sync_msk
     \/ q.op = "RESYNC_OP" /\ e.syncerr = {} /\ e.sync_trk = 0
  /\ q.op = "RESYNC_OP" => e.sync_trk = t
  /\ e.chging = m.chging /\ e.off = m.off
  /\ e.rip = m.rip \/ q.op = "RESYNC_OP"

LEMMA ComesIs ==
  ASSUME IInv, NEW t \in Trk, NEW op \in Op, NEW q \in ReqType, q.op = op, m.req[t].st = "returned",
         op \in {"read", "write"} => m' = [m EXCEPT !.req[t] = q],
         op = "MWC_RCV_OP" => m' = [[m EXCEPT !.req[t] = q] EXCEPT !.next = 0],
         op = "RESYNC_OP" =>
                m' = IF t = m.sync_trk THEN [[m EXCEPT !.req[t] = q] EXCEPT !.rip = TRUE]
                     ELSE IF t = 0 THEN [[m EXCEPT !.req[t] = q] EXCEPT !.rip = TRUE, !.syncerr = {}, !.sync_trk = 0]
                     ELSE [m EXCEPT !.next = 0]
  PROVE  Comes(m', t, q) \/ m' = [m EXCEPT !.next = 0]
<1> DEFINE d == [m EXCEPT !.req[t] = q]
<1>1. d \in StateType /\ SameBut(m, d, t) /\ d.req[t] = q
  BY ReqUpd DEF IInv
<1>2. 0 \in Trk
  BY DEF Trk
<1> HIDE DEF d
<1>3. CASE op \in {"read", "write"}
  <2>1. m' = d
    BY <1>3 DEF d
  <2> QED BY <1>1, <1>3, <2>1 DEF Comes, SameBut
<1>4. CASE op = "MWC_RCV_OP"
  <2>1. m' = [d EXCEPT !.next = 0]
    BY <1>4 DEF d
  <2>2. m' \in StateType
    BY <1>1, <1>2, <2>1 DEF StateType
  <2>3. /\ m'.req = d.req /\ m'.stale = d.stale /\ m'.vg = d.vg /\ m'.i_sched = d.i_sched /\ m'.refuse = d.refuse /\ m'.acked = d.acked
        /\ m'.torn = d.torn /\ m'.syncerr = d.syncerr /\ m'.sync_trk = d.sync_trk /\ m'.sync_msk = d.sync_msk
        /\ m'.chging = d.chging /\ m'.off = d.off
        /\ m'.rip = d.rip
    BY <1>1, <2>1 DEF StateType
  <2> QED BY <1>1, <1>4, <2>2, <2>3 DEF Comes, SameBut
<1>5. CASE op = "RESYNC_OP" /\ t = m.sync_trk
  <2>1. m' = [d EXCEPT !.rip = TRUE]
    BY <1>5 DEF d
  <2>2. m' \in StateType
    BY <1>1, <2>1 DEF StateType
  <2>3. /\ m'.req = d.req /\ m'.stale = d.stale /\ m'.vg = d.vg /\ m'.i_sched = d.i_sched /\ m'.refuse = d.refuse /\ m'.acked = d.acked
        /\ m'.torn = d.torn /\ m'.syncerr = d.syncerr /\ m'.sync_trk = d.sync_trk /\ m'.sync_msk = d.sync_msk
        /\ m'.chging = d.chging /\ m'.off = d.off
    BY <1>1, <2>1 DEF StateType
  <2> QED BY <1>1, <1>5, <2>2, <2>3 DEF Comes, SameBut
<1>6. CASE op = "RESYNC_OP" /\ t # m.sync_trk /\ t = 0
  <2>1. m' = [d EXCEPT !.rip = TRUE, !.syncerr = {}, !.sync_trk = 0]
    BY <1>6 DEF d
  <2>2. m' \in StateType
    BY <1>1, <1>2, <2>1 DEF StateType
  <2>3. /\ m'.req = d.req /\ m'.stale = d.stale /\ m'.vg = d.vg /\ m'.i_sched = d.i_sched /\ m'.refuse = d.refuse /\ m'.acked = d.acked
        /\ m'.torn = d.torn /\ m'.syncerr = {} /\ m'.sync_trk = 0 /\ m'.chging = d.chging /\ m'.off = d.off
    BY <1>1, <2>1 DEF StateType
  <2> QED BY <1>1, <1>6, <2>2, <2>3 DEF Comes, SameBut
<1>7. CASE op = "RESYNC_OP" /\ t # m.sync_trk /\ t # 0
  BY <1>7
<1> QED BY <1>3, <1>4, <1>5, <1>6, <1>7 DEF Op, SyncOp

LEMMA StrategyInv ==
  ASSUME IInv, NEW t \in Trk, NEW op \in Op, hd_strategy(t, op)
  PROVE  IInv'
<1> DEFINE new == Max({m.acked[t]} \cup {val[x][t] : x \in Mirror}) + 1
           data == IF op = "write" THEN new ELSE 0
           q == [NoReq EXCEPT !.op = op, !.st = "pending", !.data = data]
<1>1. m \in StateType /\ val \in ValType /\ IGlobal(m) /\ missing \subseteq Mirror
  BY DEF IInv
<1>2. data \in Int
  BY <1>1, DataType
<1> HIDE DEF data
<1>3. /\ q \in ReqType /\ q.op = op /\ q.st = "pending" /\ q.on = {} /\ q.done = {} /\ q.bad = {}
      /\ q.err = FALSE /\ q.refused = FALSE
  BY <1>2 DEF NoReq, ReqType
<1>4. val' = val /\ missing' = missing /\ m.req[t].st = "returned"
  BY DEF hd_strategy
<1>5. Comes(m', t, q) \/ m' = [m EXCEPT !.next = 0]
  <2> HIDE DEF new
  <2>1. op \in {"read", "write"} => m' = [m EXCEPT !.req[t] = q]
    BY DEF hd_strategy, data, new
  <2>2. op = "MWC_RCV_OP" => m' = [[m EXCEPT !.req[t] = q] EXCEPT !.next = 0]
    BY DEF hd_strategy, data, new
  <2>3. op = "RESYNC_OP" =>
          m' = IF t = m.sync_trk THEN [[m EXCEPT !.req[t] = q] EXCEPT !.rip = TRUE]
               ELSE IF t = 0 THEN [[m EXCEPT !.req[t] = q] EXCEPT !.rip = TRUE, !.syncerr = {}, !.sync_trk = 0]
               ELSE [m EXCEPT !.next = 0]
    BY DEF hd_strategy, data, new
  <2> HIDE DEF q
  <2> QED BY <1>3, <1>4, <2>1, <2>2, <2>3, ComesIs
<1> HIDE DEF q
<1>6. \A s \in Trk : m.req[s].st = "returned" => m.req[s].op \in {"none", "read"}
  BY DEF IInv, IReq, IReturned
<1>7. CASE m' = [m EXCEPT !.next = 0]
  <2>1. m' \in StateType
    BY <1>1, <1>7, NextTrk DEF StateType
  <2>2. /\ m'.req = m.req /\ m'.stale = m.stale /\ m'.vg = m.vg /\ m'.i_sched = m.i_sched /\ m'.refuse = m.refuse /\ m'.acked = m.acked
        /\ m'.torn = m.torn /\ m'.syncerr = m.syncerr /\ m'.sync_trk = m.sync_trk /\ m'.sync_msk = m.sync_msk
        /\ m'.rip = m.rip /\ m'.chging = m.chging /\ m'.off = m.off
    BY <1>1, <1>7 DEF StateType
  <2>3. ASSUME NEW s \in Trk PROVE IReq(m', val, s)
    <3>1. Seen(m, m', s)
      BY <2>2 DEF Seen, Good
    <3> QED BY <1>1, <3>1, SeenKept DEF IInv
  <2>4. IGlobal(m')
    BY <1>1, <2>2 DEF IGlobal
  <2>5. Chg(m', Trk)
    BY <2>2 DEF Chg, Waits, IInv
  <2> QED BY <1>1, <1>4, <2>1, <2>3, <2>4, <2>5 DEF IInv
<1>8. CASE Comes(m', t, q)
  <2>1. op \in SyncOp => \A s \in Trk : m.req[s].op \notin SyncOp
    <3>1. op \in SyncOp => ~Syncing(m)
      BY DEF hd_strategy, SyncOp
    <3> QED BY <1>6, <3>1 DEF Syncing, SyncOp
  <2>2. \A s \in Trk : Good(m', s) \subseteq Good(m, s)
    BY <1>8 DEF Comes, Good, Trk
  <2>3. ASSUME NEW s \in Trk \ {t} PROVE IReq(m', val, s)
    <3>1. Seen(m, m', s)
      BY <1>3, <1>8, <2>1, <2>2 DEF Comes, Seen, SyncOp
    <3> QED BY <1>1, <3>1, SeenKept DEF IInv
  <2>4. IReq(m', val, t)
    <3>1. Clean(m, val, t)
      BY <1>4 DEF IInv, IReq, IReturned
    <3>2. Clean(m', val, t)
      BY <1>8, <2>2, <3>1 DEF Clean, Current, Alike, Hold, Comes
    <3>3. IPending(m', val, t)
      BY <1>3, <1>8, <3>2 DEF IPending, Comes
    <3> QED BY <1>3, <1>8, <3>3 DEF IReq, Comes
  <2>5. IGlobal(m')
    <3>1. \A u, s \in Trk : m'.req[u].op \in SyncOp /\ m'.req[s].op \in SyncOp => u = s
      <4>1. \A s \in Trk \ {t} : m'.req[s].op = m.req[s].op
        BY <1>8 DEF Comes
      <4>2. m'.req[t].op = op
        BY <1>3, <1>8 DEF Comes
      <4>3. \A u, s \in Trk : m.req[u].op \in SyncOp /\ m.req[s].op \in SyncOp => u = s
        BY <1>1 DEF IGlobal
      <4> QED BY <2>1, <4>1, <4>2, <4>3
    <3>2. m.vg \in IF op = "MWC_RCV_OP" THEN {"opening", "forced_sync"} ELSE {"open", "forced_sync"}
      BY DEF hd_strategy
    <3>3. \A s \in Trk : m'.req[s].op \in {m.req[s].op, op}
      BY <1>3, <1>8 DEF Comes
    <3>4. m'.vg = "opening" => m'.sync_trk = NO_SYNCTRK /\ \A s \in Trk : m'.req[s].op \in {"none", "MWC_RCV_OP"}
      BY <1>1, <1>3, <1>8, <3>2, <3>3 DEF Comes, IGlobal
    <3>5. m'.vg = "open" => \A s \in Trk : m'.req[s].op # "MWC_RCV_OP"
      BY <1>1, <1>8, <3>2, <3>3 DEF Comes, IGlobal
    <3>6. m'.rip => m'.sync_trk # NO_SYNCTRK
      <4>1. CASE op = "RESYNC_OP"
        BY <1>3, <1>8, <4>1 DEF Comes, Trk, NO_SYNCTRK
      <4>2. CASE op # "RESYNC_OP"
        BY <1>1, <1>3, <1>8, <4>2 DEF Comes, IGlobal
      <4> QED BY <4>1, <4>2
    <3> QED BY <1>1, <1>8, <3>1, <3>4, <3>5, <3>6 DEF Comes, IGlobal
  <2>6. ASSUME NEW x \in m.chging PROVE x \in m.stale /\ \E s \in Trk : Waits(m', x, s)
    <3>1. x \in m.stale /\ \E s \in Trk : Waits(m, x, s)
      BY DEF IInv, Chg, hd_strategy
    <3>2. \A s \in Trk : Waits(m, x, s) => Waits(m', x, s)
      BY <1>4, <1>8 DEF Comes, Waits
    <3> QED BY <3>1, <3>2
  <2>7. ASSUME NEW x \in m.chging, m'.sync_trk # NO_SYNCTRK
        PROVE  x \in m'.syncerr \/ \E s \in Trk : s >= m'.sync_trk /\ Waits(m', x, s)
    <3>1. CASE m'.sync_trk = 0
      <4>1. \A s \in Trk : s >= 0
        BY DEF Trk
      <4> QED BY <2>6, <3>1, <4>1
    <3>2. CASE m'.sync_trk = m.sync_trk /\ m'.syncerr = m.syncerr
      <4>1. x \in m.syncerr \/ \E s \in Trk : s >= m.sync_trk /\ Waits(m, x, s)
        BY <2>7, <3>2 DEF IInv, Chg
      <4>2. \A s \in Trk : Waits(m, x, s) => Waits(m', x, s)
        BY <1>4, <1>8 DEF Comes, Waits
      <4> QED BY <3>2, <4>1, <4>2
    <3> QED BY <1>8, <3>1, <3>2 DEF Comes
  <2>8. Chg(m', Trk)
    BY <1>8, <2>6, <2>7 DEF Chg, Comes
  <2> QED BY <1>1, <1>4, <1>8, <2>3, <2>4, <2>5, <2>8 DEF IInv, Comes
<1> QED BY <1>5, <1>7, <1>8

-----------------------------------------------------------------------------
(* A request whose mirrors to avoid have been chosen.                       *)
PChosen(c, V, t) ==
  LET r == c.req[t] IN
  /\ r.op \in Op /\ r.on = {} /\ r.done = {} /\ r.bad = {} /\ ~r.err /\ ~r.refused
  /\ Clean(c, V, t)
  /\ r.op = "write" => Good(c, t) \cap r.avoid = {}
  /\ r.op # "write" => c.stale \subseteq r.avoid
  /\ r.op = "MWC_RCV_OP" => c.sync_msk = Mirror \ r.avoid
  /\ r.op = "RESYNC_OP" /\ r.avoid # Mirror =>
       c.sync_trk = t /\ c.sync_msk # {} /\ c.sync_msk \subseteq c.stale /\ c.stale \ c.syncerr \subseteq c.sync_msk

LEMMA AvoidType ==
  ASSUME NEW r \in ReqType, NEW A \in SUBSET Mirror
  PROVE  LET q == [r EXCEPT !.avoid = A]
         IN  /\ q \in ReqType /\ q.avoid = A /\ q.op = r.op /\ q.st = r.st /\ q.on = r.on /\ q.done = r.done
             /\ q.bad = r.bad /\ q.err = r.err /\ q.refused = r.refused
BY DEF ReqType

LEMMA AvoidIs ==
  ASSUME NEW c \in StateType, NEW V, NEW t \in Trk, IGlobal(c), IPending(c, V, t), missing \subseteq Mirror
  PROVE  LET d == hd_avoid(c, t)
         IN  d \in StateType /\ Frame(c, d, t) /\ Kept(c, d, t) /\ d.req[t].op = c.req[t].op
             /\ d.req[t].st = c.req[t].st /\ PChosen(d, V, t)
<1> DEFINE r == c.req[t]
           read == c.stale \cup missing
           recorded == c.stale \ c.chging
           behind == c.sync_trk # NO_SYNCTRK /\ t < c.sync_trk
           want == c.stale \ c.syncerr
           d == hd_avoid(c, t)
<1>1. /\ r \in ReqType /\ c.stale \subseteq Mirror /\ c.syncerr \subseteq Mirror /\ c.sync_msk \subseteq Mirror
      /\ c.sync_trk \in Trk \cup {NO_SYNCTRK} /\ c.rip \in BOOLEAN /\ read \subseteq Mirror
  BY Types DEF StateType
<1>2. r.op \in Op /\ r.on = {} /\ r.done = {} /\ r.bad = {} /\ ~r.err /\ ~r.refused /\ Clean(c, V, t)
  BY DEF IPending
<1>3. CASE r.op = "write"
  <2> DEFINE A == IF behind THEN recorded \cap c.syncerr ELSE recorded
             q == [r EXCEPT !.avoid = A]
  <2>1. A \in SUBSET Mirror /\ Good(c, t) \cap A = {}
    BY <1>1 DEF Good, Trk, NO_SYNCTRK
  <2>2. d = [c EXCEPT !.req[t] = q]
    BY <1>3 DEF hd_avoid
  <2> HIDE DEF A, d, r
  <2>3. /\ q \in ReqType /\ q.avoid = A /\ q.op = r.op /\ q.st = r.st /\ q.on = r.on /\ q.done = r.done
        /\ q.bad = r.bad /\ q.err = r.err /\ q.refused = r.refused
    BY <1>1, <2>1, AvoidType
  <2> HIDE DEF q
  <2>4. d \in StateType /\ SameBut(c, d, t) /\ d.req[t] = q
    BY <2>2, <2>3, ReqUpd
  <2>5. Good(d, t) = Good(c, t)
    BY <2>4 DEF Good, SameBut
  <2>6. Clean(d, V, t)
    BY <1>2, <2>4, <2>5 DEF Clean, Current, SameBut
  <2>7. PChosen(d, V, t)
    BY <1>2, <1>3, <2>1, <2>3, <2>4, <2>5, <2>6 DEF PChosen, Op, SyncOp
  <2>8. Frame(c, d, t) /\ Kept(c, d, t)
    BY <2>3, <2>4, FrameSame DEF r
  <2> QED BY <2>3, <2>4, <2>7, <2>8 DEF d, r
<1>4. CASE r.op = "read"
  <2> DEFINE q == [r EXCEPT !.avoid = read]
  <2>2. d = [c EXCEPT !.req[t] = q]
    BY <1>4 DEF hd_avoid
  <2>a. c.stale \subseteq read
    OBVIOUS
  <2> HIDE DEF read, d, r
  <2>3. /\ q \in ReqType /\ q.avoid = read /\ q.op = r.op /\ q.st = r.st /\ q.on = r.on /\ q.done = r.done
        /\ q.bad = r.bad /\ q.err = r.err /\ q.refused = r.refused
    BY <1>1, AvoidType
  <2> HIDE DEF q
  <2>4. d \in StateType /\ SameBut(c, d, t) /\ d.req[t] = q
    BY <2>2, <2>3, ReqUpd
  <2>5. Good(d, t) = Good(c, t)
    BY <2>4 DEF Good, SameBut
  <2>6. Clean(d, V, t)
    BY <1>2, <2>4, <2>5 DEF Clean, Current, SameBut
  <2>7. PChosen(d, V, t)
    BY <1>2, <1>4, <2>a, <2>3, <2>4, <2>6 DEF PChosen, Op, SyncOp, SameBut
  <2>8. Frame(c, d, t) /\ Kept(c, d, t)
    BY <2>3, <2>4, FrameSame DEF r
  <2> QED BY <2>3, <2>4, <2>7, <2>8 DEF d, r
<1>5. CASE r.op \in SyncOp
  <2> DEFINE none == r.op = "RESYNC_OP" /\ ~(want \ missing # {} /\ read # Mirror)
             A == IF none THEN Mirror ELSE read
             q == [r EXCEPT !.avoid = A]
             msk == IF r.op = "RESYNC_OP" THEN want \ missing ELSE Mirror \ read
             syncerr == IF r.op = "RESYNC_OP" THEN c.syncerr \cup (want \cap missing) ELSE c.syncerr
             trk == IF none THEN NO_SYNCTRK ELSE c.sync_trk
             rip == IF none THEN FALSE ELSE c.rip
  <2>1. /\ A \in SUBSET Mirror /\ msk \in SUBSET Mirror /\ syncerr \in SUBSET Mirror
        /\ trk \in Trk \cup {NO_SYNCTRK} /\ rip \in BOOLEAN
    BY <1>1
  <2>2. d = PartSet(c, t, c.stale, syncerr, trk, msk, rip, q)
    <3>1. CASE r.op = "MWC_RCV_OP"
      BY <1>5, <3>1 DEF hd_avoid, PartSet, StateType
    <3>2. CASE r.op = "RESYNC_OP" /\ ~none
      BY <1>5, <3>2 DEF hd_avoid, PartSet, StateType
    <3>3. CASE none
      <4> DEFINE p == [r EXCEPT !.avoid = read]
                 e == [[c EXCEPT !.req[t].avoid = read] EXCEPT
                         !.sync_msk = want \ missing, !.syncerr = @ \cup (want \cap missing)]
                 f == [e EXCEPT !.req[t].avoid = Mirror, !.sync_trk = NO_SYNCTRK, !.rip = FALSE]
      <4>1. d = f
        BY <3>3 DEF hd_avoid
      <4>2. c.req \in [Trk -> ReqType]
        BY DEF StateType
      <4>3. [p EXCEPT !.avoid = Mirror] = q
        <5> HIDE DEF r, read
        <5>1. [[r EXCEPT !.avoid = read] EXCEPT !.avoid = Mirror] = [r EXCEPT !.avoid = Mirror]
          BY <1>1 DEF ReqType
        <5> QED BY <3>3, <5>1
      <4>4. e.req = [c.req EXCEPT ![t] = p]
        BY <4>2 DEF StateType
      <4> HIDE DEF p
      <4>5. [e.req EXCEPT ![t].avoid = Mirror] = [c.req EXCEPT ![t] = q]
        <5> HIDE DEF e, q
        <5> QED BY <4>2, <4>3, <4>4
      <4>6. f = [c EXCEPT !.req = [c.req EXCEPT ![t] = q], !.sync_msk = want \ missing, !.syncerr = c.syncerr \cup (want \cap missing),
                          !.sync_trk = NO_SYNCTRK, !.rip = FALSE]
        BY <4>5 DEF StateType
      <4> HIDE DEF f, q
      <4> QED BY <3>3, <4>1, <4>6 DEF PartSet, StateType
    <3> QED BY <1>5, <3>1, <3>2, <3>3 DEF SyncOp
  <2>3. c.stale \subseteq A
    BY <1>1
  <2>4. r.op = "MWC_RCV_OP" => msk = Mirror \ A /\ syncerr = c.syncerr /\ trk = c.sync_trk /\ rip = c.rip
    OBVIOUS
  <2>5. r.op = "RESYNC_OP" /\ A # Mirror =>
          trk = t /\ msk # {} /\ msk \subseteq c.stale /\ c.stale \ syncerr \subseteq msk
    BY <1>1 DEF IPending
  <2>6. (rip => trk # NO_SYNCTRK) /\ (trk = c.sync_trk \/ trk = NO_SYNCTRK) /\ c.syncerr \subseteq syncerr
    BY DEF IGlobal
  <2> HIDE DEF none, A, msk, syncerr, trk, rip, d, r
  <2>7. /\ q \in ReqType /\ q.avoid = A /\ q.op = r.op /\ q.st = r.st /\ q.on = r.on /\ q.done = r.done
        /\ q.bad = r.bad /\ q.err = r.err /\ q.refused = r.refused
    BY <1>1, <2>1, AvoidType
  <2> HIDE DEF q
  <2>8. PartIs(c, d, t, c.stale, syncerr, trk, msk, rip, q)
    BY <1>1, <2>1, <2>2, <2>7, PartUpd
  <2>9. /\ d \in StateType /\ Beside(c, d, t) /\ d.req[t] = q /\ d.stale = c.stale /\ d.syncerr = syncerr
        /\ d.sync_trk = trk /\ d.sync_msk = msk /\ d.rip = rip
    BY <2>8 DEF PartIs
  <2>10. \A s \in Trk : Good(d, s) \subseteq Good(c, s)
    BY <1>1, <2>6, <2>9 DEF Good, Trk, NO_SYNCTRK
  <2>11. Frame(c, d, t) /\ Kept(c, d, t)
    <3>1. c.vg = "opening" => d.sync_trk = NO_SYNCTRK
      BY <2>6, <2>9 DEF IGlobal
    <3> QED BY <1>5, <2>6, <2>7, <2>9, <2>10, <3>1, SyncFrame DEF r
  <2>12. Clean(d, V, t)
    BY <1>2, <2>9, <2>10 DEF Clean, Current, Alike, Hold, Beside
  <2>13. PChosen(d, V, t)
    BY <1>2, <1>5, <2>3, <2>4, <2>5, <2>7, <2>9, <2>12 DEF PChosen, SyncOp
  <2> QED BY <2>7, <2>9, <2>11, <2>13 DEF d, r
<1> QED BY <1>2, <1>3, <1>4, <1>5 DEF Op

(* A request that has no copy to go to.                                     *)
LEMMA ChosenFails ==
  ASSUME NEW c \in StateType, NEW V, NEW t \in Trk, IGlobal(c), PChosen(c, V, t),
         c.req[t].avoid = Mirror \/ c.req[t].op = "write"
  PROVE  Ends(c, Failed(c, t), V, t)
<1> DEFINE q == c.req[t]
           p == [q EXCEPT !.err = TRUE]
           g == [c EXCEPT !.req[t] = p]
<1>1. q \in ReqType
  BY Types
<1>2. p \in ReqType /\ p.op = q.op /\ p.err = TRUE /\ p.avoid = q.avoid /\ p.tried = q.tried
  BY <1>1, ErrType
<1>3. [c EXCEPT !.req[t].err = TRUE] = g
  OBVIOUS
<1> HIDE DEF p
<1>4. g \in StateType /\ SameBut(c, g, t) /\ g.req[t] = p
  BY <1>2, ReqUpd
<1> HIDE DEF g
<1>5. Good(g, t) = Good(c, t) /\ g.torn = c.torn /\ g.acked = c.acked
  BY <1>4 DEF Good, SameBut
<1>6. t \notin c.torn => Alike(V, t, Good(c, t))
  BY DEF PChosen, Clean, Current
<1>7. IDone(g, V, t)
  BY <1>2, <1>4, <1>5, <1>6 DEF PChosen, IDone, Op, SyncOp, Clean, Current
<1> QED BY <1>3, <1>7, FailedEnds

(* The request is with mirror y, and mirror x has been selected.            *)
Near(c, d, t, x, y) ==
  LET r == c.req[t]
      q == d.req[t]
  IN  /\ d \in StateType /\ SameBut(c, d, t)
      /\ q.st = "disk" /\ q.mirror = x /\ q.on = {y} /\ q.done = {x} /\ q.bad = r.bad
      /\ q.op = r.op /\ q.sched = r.sched /\ q.rd = r.rd /\ q.avoid = r.avoid

LEMMA NearbyIs ==
  ASSUME NEW c \in StateType, NEW t \in Trk, NEW x \in Mirror, NEW y \in Mirror
  PROVE  Near(c, hd_nearby(c, t, <<x, y>>), t, x, y)
<1> DEFINE r == c.req[t]
           p == [r EXCEPT !.done = {x}]
           e == [c EXCEPT !.req[t] = p]
           f == hd_begin(e, t, y)
           u == f.req[t]
           q == [u EXCEPT !.mirror = x]
           d == [f EXCEPT !.req[t] = q]
<1>1. hd_nearby(c, t, <<x, y>>) = d
  BY DEF hd_nearby
<1>2. r \in ReqType
  BY Types
<1>3. p \in ReqType /\ p.done = {x} /\ p.bad = r.bad /\ p.op = r.op /\ p.sched = r.sched /\ p.rd = r.rd /\ p.avoid = r.avoid
  <2> HIDE DEF r
  <2> QED BY <1>2 DEF ReqType
<1> HIDE DEF p
<1>4. e \in StateType /\ SameBut(c, e, t) /\ e.req[t] = p
  BY <1>3, ReqUpd
<1> HIDE DEF e
<1>5. /\ f \in StateType /\ SameBut(e, f, t)
      /\ u = [p EXCEPT !.st = "disk", !.mirror = y, !.on = {y}, !.err = FALSE, !.refused = (<<y, t>> \in e.refuse)]
  BY <1>4, BeginIs
<1>6. u \in ReqType
  BY <1>5, Types
<1>7. /\ u.st = "disk" /\ u.on = {y} /\ u.done = p.done /\ u.bad = p.bad /\ u.op = p.op /\ u.sched = p.sched
      /\ u.rd = p.rd /\ u.avoid = p.avoid
  <2> HIDE DEF u
  <2> QED BY <1>3, <1>5 DEF ReqType
<1> HIDE DEF u, f
<1>8. /\ q \in ReqType /\ q.mirror = x /\ q.st = u.st /\ q.on = u.on /\ q.done = u.done /\ q.bad = u.bad
      /\ q.op = u.op /\ q.sched = u.sched /\ q.rd = u.rd /\ q.avoid = u.avoid
  BY <1>6 DEF ReqType
<1> HIDE DEF q
<1>9. d \in StateType /\ SameBut(f, d, t) /\ d.req[t] = q
  BY <1>5, <1>8, ReqUpd
<1> HIDE DEF d
<1>10. SameBut(c, d, t)
  BY <1>4, <1>5, <1>9 DEF SameBut
<1> QED BY <1>1, <1>3, <1>7, <1>8, <1>9, <1>10 DEF r, Near

(* The request begins to read from a mirror.                                *)
LEMMA ReadsBegin ==
  ASSUME NEW c \in StateType, NEW d \in StateType, NEW V, NEW t \in Trk, NEW x \in Mirror, NEW y \in Mirror,
         IGlobal(c), PChosen(c, V, t), c.req[t].op # "write",
         c.req[t].sched = IF c.req[t].op = "read" THEN "hd_mirread" ELSE "hd_resyncpp", c.req[t].rd,
         SameBut(c, d, t), d.req[t].st = "disk", d.req[t].mirror = x, d.req[t].on = {y}, d.req[t].done = {x},
         d.req[t].bad = {}, d.req[t].op = c.req[t].op, d.req[t].sched = c.req[t].sched, d.req[t].rd = c.req[t].rd,
         d.req[t].avoid = c.req[t].avoid,
         x \notin c.req[t].avoid, y \notin c.req[t].avoid,
         x = y \/ (c.i_sched \in NearbyReads /\ c.vg # "opening")
  PROVE  Ends(c, d, V, t)
<1> DEFINE r == c.req[t]
           q == d.req[t]
<1>1. Good(d, t) = Good(c, t)
  BY DEF Good, SameBut
<1>2. Source(d, t) = Good(c, t)
  BY <1>1 DEF Source, Good, PChosen
<1>3. t \notin d.torn => Current(d, V, t, Source(d, t))
  BY <1>2 DEF PChosen, Clean, Current, SameBut
<1>4. IReads(d, V, t)
  BY <1>3 DEF IReads
<1>5. r.op = "read" => IRead(d, V, t)
  BY <1>4 DEF IRead, SameBut
<1>6. r.op = "RESYNC_OP" => IResync(d, V, t)
  <2> SUFFICES ASSUME r.op = "RESYNC_OP" PROVE IResync(d, V, t)
    OBVIOUS
  <2>1. r.avoid # Mirror
    OBVIOUS
  <2> QED BY <1>4, <2>1 DEF IResync, PChosen, SameBut
<1>7. r.op = "MWC_RCV_OP" => IRecover(d, V, t)
  BY <1>4 DEF IRecover, PChosen, SameBut
<1>8. IReq(d, V, t)
  BY <1>5, <1>6, <1>7 DEF IReq, IDisk, PChosen
<1> QED BY <1>8, FrameSame DEF Ends

(* It goes to the mirrors one after the other.                              *)
LEMMA SeqBegins ==
  ASSUME NEW c \in StateType, NEW V, NEW t \in Trk, IGlobal(c), PChosen(c, V, t), Usable(c, t) # {},
         c.req[t].op # "write" =>
           c.req[t].rd /\ c.req[t].sched = IF c.req[t].op = "read" THEN "hd_mirread" ELSE "hd_resyncpp",
         c.req[t].op = "write" => ~c.req[t].rd /\ c.req[t].sched = "hd_seqwrite"
  PROVE  Ends(c, hd_seqnext(c, t), V, t)
<1> DEFINE r == c.req[t]
           d == hd_seqnext(c, t)
           q == d.req[t]
<1>1. PICK next \in Usable(c, t), P \in SUBSET (Left(c, t) \ Usable(c, t)) :
        /\ d \in StateType /\ SameBut(c, d, t)
        /\ q.st = "disk" /\ q.mirror = next /\ q.on = {next} /\ q.err = FALSE
        /\ q.done = r.done \cup P \cup {next} /\ q.bad = r.bad \cup P
        /\ q.op = r.op /\ q.sched = r.sched /\ q.rd = r.rd /\ q.avoid = r.avoid
  BY SeqNextIs
<1> HIDE DEF d
<1>2. Left(c, t) = Mirror \ r.avoid /\ Usable(c, t) \subseteq Left(c, t)
  BY DEF Left, Usable, PChosen
<1>3. next \in Mirror /\ next \notin r.avoid
  BY <1>2
<1>4. CASE r.op # "write"
  <2>1. P = {}
    BY <1>4 DEF Usable
  <2>2. q.done = {next} /\ q.bad = {}
    BY <1>1, <2>1 DEF PChosen
  <2>3. Ends(c, d, V, t)
    BY <1>1, <1>3, <1>4, <2>2, ReadsBegin
  <2> QED BY <2>3 DEF d
<1>5. CASE r.op = "write"
  <2>1. q.done = P \cup {next} /\ q.bad = P /\ P \subseteq Mirror \ r.avoid /\ next \notin P
    BY <1>1, <1>2 DEF PChosen
  <2>2. Good(d, t) = Good(c, t) /\ Good(c, t) \subseteq Mirror
    BY <1>1 DEF Good, SameBut
  <2>3. Good(d, t) \ (q.bad \cup Todo(q)) = {}
    BY <1>1, <1>5, <2>1, <2>2 DEF Todo
  <2>4. IWrite(d, V, t)
    BY <1>1, <1>3, <1>5, <2>1, <2>2, <2>3 DEF IWrite, PChosen, Hold
  <2>5. IReq(d, V, t)
    BY <1>1, <1>5, <2>4 DEF IReq, IDisk, Op, SyncOp
  <2>6. Ends(c, d, V, t)
    BY <1>1, <2>5, FrameSame DEF Ends
  <2> QED BY <2>6 DEF d
<1> QED BY <1>4, <1>5

(* It goes to all mirrors at the same time.                                 *)
LEMMA ParBegins ==
  ASSUME NEW c \in StateType, NEW V, NEW t \in Trk, IGlobal(c), PChosen(c, V, t), missing \subseteq Mirror,
         c.req[t].op = "write", ~c.req[t].rd, c.req[t].sched = "hd_parwrite", c.i_sched \in ParallelWrites
  PROVE  Ends(c, ParallelWrite(c, t), V, t)
<1> DEFINE r == c.req[t]
           W == Mirror \ r.avoid
           B == W \cap Broken(c)
           R == {x \in W \ B : <<x, t>> \in c.refuse}
           bad == B \cup R
           on == W \ bad
           q == [r EXCEPT !.st = "disk", !.on = on, !.bad = bad]
           d == [c EXCEPT !.req[t] = q]
           p == [q EXCEPT !.err = TRUE]
           e == [d EXCEPT !.req[t].err = TRUE]
<1>1. ParallelWrite(c, t) = IF W = B THEN Failed(c, t) ELSE IF W # bad \/ Max(W) \in B THEN d ELSE Written(e, t)
  BY DEF ParallelWrite
<1>a. ASSUME Spared(c), W # B, W # bad \/ Max(W) \in B PROVE on # {}
  <2>1. SUFFICES ASSUME W = bad PROVE FALSE
    OBVIOUS
  <2>2. PICK x \in W \ B : <<x, t>> \in c.refuse
    BY <1>a, <2>1
  <2>3. x = NMir
    BY <1>a, <2>2 DEF Spared
  <2>4. W \in SUBSET (1..NMir) /\ W # {} /\ NMir \in Nat
    BY <2>2 DEF Mirror
  <2> HIDE DEF W, B
  <2>5. Max(W) \in W /\ Max(W) >= x
    BY <2>2, <2>4, MaxIn
  <2>6. Max(W) = x
    <3> DEFINE max == Max(W)
    <3>1. max \in 1..NMir
      BY <2>4, <2>5
    <3>2. max >= NMir
      BY <2>3, <2>5
    <3> HIDE DEF max
    <3>3. max = NMir
      BY <2>4, <3>1, <3>2
    <3> QED BY <2>3, <3>3 DEF max
  <2> QED BY <1>a, <2>1, <2>2, <2>6
<1>2. r \in ReqType
  BY Types
<1>3. bad \in SUBSET Mirror /\ on \in SUBSET Mirror /\ bad \cup on = Mirror \ r.avoid /\ bad \cap on = {}
  OBVIOUS
<1>4. bad # W => on # {}
  OBVIOUS
<1>5. Good(c, t) \subseteq bad \cup on
  BY <1>3 DEF PChosen, Good
<1> HIDE DEF bad, on
<1>6. /\ q \in ReqType /\ q.st = "disk" /\ q.on = on /\ q.bad = bad /\ q.op = r.op /\ q.sched = r.sched
      /\ q.rd = r.rd /\ q.avoid = r.avoid /\ q.refused = r.refused
  <2> HIDE DEF r
  <2> QED BY <1>2, <1>3 DEF ReqType
<1> HIDE DEF q
<1>7. d \in StateType /\ SameBut(c, d, t) /\ d.req[t] = q
  BY <1>6, ReqUpd
<1> HIDE DEF d
<1>8. Good(d, t) = Good(c, t)
  BY <1>7 DEF Good, SameBut
<1>9. Ends(c, Failed(c, t), V, t)
  BY ChosenFails
<1>10. ASSUME W # B, W # bad \/ Max(W) \in B PROVE Ends(c, d, V, t)
  <2>1. Good(d, t) \ (q.bad \cup Todo(q)) = {}
    BY <1>5, <1>6, <1>8 DEF Todo
  <2>a. Spared(d) => on # {}
    BY <1>a, <1>7, <1>10 DEF SameBut, Spared
  <2> HIDE DEF W, B
  <2>2. IWrite(d, V, t)
    BY <1>3, <1>6, <1>7, <1>8, <2>1, <2>a DEF IWrite, PChosen, Hold
  <2>3. IReq(d, V, t)
    BY <1>6, <1>7, <2>2 DEF IReq, IDisk, Op, SyncOp
  <2> QED BY <1>6, <1>7, <2>3, FrameSame DEF Ends
<1>11. CASE W = bad
  <2>1. p \in ReqType /\ p.op = q.op /\ p.err = TRUE /\ p.avoid = q.avoid /\ p.bad = q.bad
    BY <1>6 DEF ReqType
  <2>a. e = [d EXCEPT !.req[t] = p]
    BY <1>7
  <2> HIDE DEF p, e
  <2>2. e \in StateType /\ SameBut(d, e, t) /\ e.req[t] = p
    BY <1>7, <2>1, <2>a, ReqUpd
  <2>3. Good(e, t) = Good(d, t)
    BY <2>2 DEF Good, SameBut
  <2>4. Good(e, t) \ p.bad = {}
    BY <1>3, <1>5, <1>6, <1>8, <1>11, <2>1, <2>3
  <2>5. PWritten(e, V, t)
    BY <1>3, <1>6, <1>8, <2>1, <2>2, <2>3, <2>4 DEF PWritten, PChosen, Hold
  <2>6. SameBut(c, e, t) /\ e.req[t].op = r.op
    BY <1>6, <1>7, <2>1, <2>2 DEF SameBut
  <2>7. IGlobal(e)
    BY <2>2, <2>6, GlobalSame
  <2>8. Ends(e, Written(e, t), V, t)
    BY <2>2, <2>5, <2>7, WrittenEnds
  <2>9. Ends(c, Written(e, t), V, t)
    BY <2>2, <2>6, <2>8, FromSame
  <2> QED BY <1>1, <1>9, <1>10, <2>9
<1>12. CASE W # bad
  BY <1>1, <1>9, <1>10, <1>12
<1> QED BY <1>11, <1>12

LEMMA NearbyEnds ==
  ASSUME NEW c \in StateType, NEW V, NEW t \in Trk, IGlobal(c), PChosen(c, V, t), c.req[t].op # "write",
         c.req[t].sched = IF c.req[t].op = "read" THEN "hd_mirread" ELSE "hd_resyncpp", c.req[t].rd,
         c.req[t].avoid # Mirror, c.i_sched \in NearbyReads, NEW near \in Nearby(c, t)
  PROVE  Ends(c, hd_nearby(c, t, near), V, t)
<1> DEFINE r == c.req[t]
           W == Mirror \ r.avoid
<1>1. W # {} /\ W \in SUBSET Mirror
  BY Types
<1>2. Min(W) \in W /\ Max(W) \in W
  BY <1>1, MirrorType
<1> HIDE DEF W
<1>3. near \in IF c.vg = "opening" THEN {<<Min(W), Min(W)>>} ELSE {<<x, x>> : x \in W} \cup {<<x, Max(W)>> : x \in W}
  BY DEF Nearby, W
<1>4. \E x, y \in W : near = <<x, y>> /\ (x = y \/ c.vg # "opening")
  <2>1. CASE c.vg = "opening"
    BY <1>2, <1>3, <2>1
  <2>2. CASE c.vg # "opening"
    BY <1>2, <1>3, <2>2
  <2> QED BY <2>1, <2>2
<1>5. PICK x, y \in W : near = <<x, y>> /\ (x = y \/ c.vg # "opening")
  BY <1>4
<1>6. x \in Mirror /\ y \in Mirror /\ x \notin r.avoid /\ y \notin r.avoid
  BY DEF W
<1> DEFINE d == hd_nearby(c, t, <<x, y>>)
           q == d.req[t]
<1>7. /\ d \in StateType /\ SameBut(c, d, t)
      /\ q.st = "disk" /\ q.mirror = x /\ q.on = {y} /\ q.done = {x} /\ q.bad = r.bad
      /\ q.op = r.op /\ q.sched = r.sched /\ q.rd = r.rd /\ q.avoid = r.avoid
  <2>1. Near(c, d, t, x, y)
    BY <1>6, NearbyIs
  <2> QED BY <2>1 DEF Near
<1> HIDE DEF d
<1>8. q.bad = {}
  BY <1>7 DEF PChosen
<1>9. Ends(c, d, V, t)
  BY <1>5, <1>6, <1>7, <1>8, ReadsBegin
<1> QED BY <1>5, <1>9 DEF d

(* A pending request is scheduled.                                          *)
LEMMA ScheduleInv ==
  ASSUME IInv, NEW t \in Trk, NEW near, hd_schedule(t, near)
  PROVE  IInv'
<1> DEFINE r == m.req[t]
           c == hd_avoid(m, t)
           write == r.op = "write"
           nearby == ~write /\ m.i_sched \in NearbyReads
           parallel == write /\ m.i_sched \in ParallelWrites
           sched == IF r.op = "read" THEN "hd_mirread" ELSE IF ~write THEN "hd_resyncpp"
                    ELSE IF parallel THEN "hd_parwrite" ELSE "hd_seqwrite"
           q == [c.req[t] EXCEPT !.sched = sched, !.rd = ~write]
           d == [c EXCEPT !.req[t] = q]
<1>1. /\ r.st = "pending" /\ val' = val /\ missing' = missing
      /\ \/ c.req[t].avoid = Mirror /\ m' = Failed(c, t)
         \/ c.req[t].avoid # Mirror /\ nearby /\ near \in Nearby(c, t) /\ m' \in Settled(hd_nearby(d, t, near), t)
         \/ c.req[t].avoid # Mirror /\ ~nearby /\ parallel /\ m' = ParallelWrite(d, t)
         \/ c.req[t].avoid # Mirror /\ ~nearby /\ ~parallel /\ Usable(d, t) = {} /\ m' = Failed(d, t)
         \/ ~nearby /\ ~parallel /\ Usable(d, t) # {} /\ m' \in Settled(hd_seqnext(d, t), t)
  BY DEF hd_schedule
<1>2. m \in StateType /\ val \in ValType /\ IGlobal(m) /\ missing \subseteq Mirror /\ IPending(m, val, t)
  BY <1>1 DEF IInv, IReq
<1>3. c \in StateType /\ Frame(m, c, t) /\ Kept(m, c, t) /\ c.req[t].op = r.op /\ c.req[t].st = r.st /\ PChosen(c, val, t)
  BY <1>2, AvoidIs
<1> HIDE DEF c
<1>4. IGlobal(c) /\ c.i_sched = m.i_sched /\ c.vg = m.vg
  BY <1>2, <1>3, FrameGlobal DEF Frame, Outside
<1>5. c.req[t] \in ReqType /\ r.op \in Op
  BY <1>3, Types DEF PChosen
<1>6. sched \in Sched /\ (~write) \in BOOLEAN
  BY DEF Sched
<1>7. write => sched = IF parallel THEN "hd_parwrite" ELSE "hd_seqwrite"
  OBVIOUS
<1>8. ~write => sched = IF r.op = "read" THEN "hd_mirread" ELSE "hd_resyncpp"
  OBVIOUS
<1> HIDE DEF sched
<1>9. /\ q \in ReqType /\ q.sched = sched /\ q.rd = ~write /\ q.op = c.req[t].op /\ q.avoid = c.req[t].avoid
      /\ q.on = c.req[t].on /\ q.done = c.req[t].done /\ q.bad = c.req[t].bad /\ q.err = c.req[t].err
      /\ q.refused = c.req[t].refused
  <2> HIDE DEF write
  <2> QED BY <1>5, <1>6 DEF ReqType
<1> HIDE DEF q
<1>10. d \in StateType /\ SameBut(c, d, t) /\ d.req[t] = q
  BY <1>3, <1>9, ReqUpd
<1> HIDE DEF d
<1>11. Good(d, t) = Good(c, t)
  BY <1>10 DEF Good, SameBut
<1>12. PChosen(d, val, t)
  <2>1. Clean(d, val, t)
    BY <1>3, <1>10, <1>11 DEF PChosen, Clean, Current, SameBut
  <2> QED BY <1>3, <1>9, <1>10, <1>11, <2>1 DEF PChosen, SameBut
<1>13. IGlobal(d) /\ d.i_sched = m.i_sched /\ d.vg = m.vg
  BY <1>3, <1>4, <1>9, <1>10, GlobalSame DEF SameBut
<1>14. ASSUME NEW e, Ends(d, e, val, t) PROVE Ends(m, e, val, t)
  <2>1. Ends(c, e, val, t)
    BY <1>3, <1>9, <1>10, <1>14, FromSame
  <2> QED BY <1>1, <1>2, <1>3, <2>1, FromFrame
<1>15. Ends(m, m', val, t)
  <2>1. CASE c.req[t].avoid = Mirror /\ m' = Failed(c, t)
    <3>1. Ends(c, m', val, t)
      BY <1>3, <1>4, <2>1, ChosenFails
    <3> QED BY <1>1, <1>2, <1>3, <3>1, FromFrame
  <2>2. CASE c.req[t].avoid # Mirror /\ nearby /\ near \in Nearby(c, t) /\ m' \in Settled(hd_nearby(d, t, near), t)
    <3>1. Nearby(d, t) = Nearby(c, t)
      BY <1>4, <1>9, <1>10, <1>13 DEF Nearby
    <3>2. Ends(d, hd_nearby(d, t, near), val, t)
      BY <1>3, <1>8, <1>9, <1>10, <1>12, <1>13, <2>2, <3>1, NearbyEnds
    <3>3. Ends(m, hd_nearby(d, t, near), val, t)
      BY <1>14, <3>2
    <3> QED BY <1>2, <2>2, <3>3, SettledEnds
  <2>3. CASE parallel /\ m' = ParallelWrite(d, t)
    <3>1. Ends(d, ParallelWrite(d, t), val, t)
      BY <1>2, <1>3, <1>7, <1>9, <1>10, <1>12, <1>13, <2>3, ParBegins
    <3> QED BY <1>14, <2>3, <3>1
  <2>4. CASE c.req[t].avoid # Mirror /\ Usable(d, t) = {} /\ m' = Failed(d, t)
    <3>1. d.req[t].op = "write"
      <4>1. SUFFICES ASSUME d.req[t].op # "write" PROVE FALSE
        OBVIOUS
      <4>2. Left(d, t) = {}
        BY <2>4, <4>1 DEF Usable
      <4>3. q.done = {} /\ q.avoid \subseteq Mirror
        BY <1>10, <1>12, Types DEF PChosen
      <4> QED BY <1>9, <1>10, <2>4, <4>2, <4>3 DEF Left
    <3>2. Ends(d, Failed(d, t), val, t)
      BY <1>10, <1>12, <1>13, <3>1, ChosenFails
    <3> QED BY <1>14, <2>4, <3>2
  <2>5. CASE ~nearby /\ ~parallel /\ Usable(d, t) # {} /\ m' \in Settled(hd_seqnext(d, t), t)
    <3>1. Ends(d, hd_seqnext(d, t), val, t)
      BY <1>3, <1>7, <1>8, <1>9, <1>10, <1>12, <1>13, <2>5, SeqBegins
    <3>2. Ends(m, hd_seqnext(d, t), val, t)
      BY <1>14, <3>1
    <3> QED BY <1>2, <2>5, <3>2, SettledEnds
  <2> QED BY <1>1, <2>1, <2>2, <2>3, <2>4, <2>5
<1>16. r.op # "none"
  BY <1>5 DEF Op, SyncOp
<1>17. Chg(m, Trk \ {t}) /\ \A s \in Trk \ {t} : IReq(m, val, s)
  BY <1>1, <1>2, ChgAll DEF IInv
<1> QED BY <1>1, <1>2, <1>15, <1>16, <1>17, EndsInv

-----------------------------------------------------------------------------
Starts(vg, stale, lv, torn) ==
  /\ m \in [stale : {stale}, chging : {{}}, syncerr : {{}}, sync_trk : {NO_SYNCTRK}, sync_msk : {{}},
            rip : {FALSE}, req : {[t \in Trk |-> NoReq]}, i_sched : {lv[1]},
            nobbrel : {lv[2] # {}}, refuse : {lv[2]}, vg : {vg}, off : {FALSE},
            acked : {[t \in Trk |-> IF t \in torn THEN Unknown ELSE 0]}, torn : {torn}, next : {0}]
  /\ val = [x \in Mirror |-> [t \in Trk |-> IF x \in stale \/ t \in torn THEN -x ELSE 0]]
  /\ missing = {}

LEMMA StartInv ==
  ASSUME NEW vg \in {"opening", "forced_sync"}, NEW stale \in SUBSET Mirror, NEW lv \in Volumes, NEW torn \in SUBSET Trk,
         Mirror \ stale # {}, vg = "forced_sync" => torn = {}, Starts(vg, stale, lv, torn)
  PROVE  IInv
<1>3. 0 \in Trk
  BY DEF Trk
<1>f. Mirror \subseteq Int
  BY MirrorType
<1>a. Unknown \in Int
  BY DEF Unknown
<1> DEFINE acked == [t \in Trk |-> IF t \in torn THEN Unknown ELSE 0]
           reqs == [t \in Trk |-> NoReq]
           nobbrel == lv[2] # {}
<1>5. acked \in [Trk -> Int]
  <2>1. \A t \in Trk : (IF t \in torn THEN Unknown ELSE 0) \in Int
    BY <1>a
  <2> QED BY <2>1
<1>6. reqs \in [Trk -> ReqType]
  BY NoReqType
<1>b. acked \in {acked} /\ reqs \in {reqs}
  OBVIOUS
<1>8. val \in ValType
  <2> DEFINE v(x, t) == IF x \in stale \/ t \in torn THEN -x ELSE 0
  <2>1. \A x \in Mirror, t \in Trk : v(x, t) \in Int
    BY <1>f DEF v
  <2>2. val = [x \in Mirror |-> [t \in Trk |-> v(x, t)]]
    BY DEF v, Starts
  <2> HIDE DEF v
  <2> QED BY <2>1, <2>2 DEF ValType
<1>c. m \in [stale : {stale}, chging : {{}}, syncerr : {{}}, sync_trk : {NO_SYNCTRK}, sync_msk : {{}},
                rip : {FALSE}, req : {reqs}, i_sched : {lv[1]},
                nobbrel : {nobbrel}, refuse : {lv[2]}, vg : {vg}, off : {FALSE},
                acked : {acked}, torn : {torn}, next : {0}]
  BY Zenon DEF acked, reqs, nobbrel, Starts
<1>d. \A t \in Trk : acked[t] = (IF t \in torn THEN Unknown ELSE 0) /\ reqs[t] = NoReq
  OBVIOUS
<1>e. nobbrel \in BOOLEAN
  OBVIOUS
<1> HIDE DEF acked, reqs, nobbrel
<1>7. m \in StateType
  <2>1. lv[1] \in {u[1] : u \in Volumes} /\ lv[2] \in {u[2] : u \in Volumes}
    OBVIOUS
  <2> QED BY <1>c, <1>3, <1>e, <1>5, <1>6, <2>1 DEF StateType
<1>9. /\ m.stale = stale /\ m.syncerr = {} /\ m.sync_trk = NO_SYNCTRK /\ m.rip = FALSE /\ m.vg = vg /\ m.torn = torn
      /\ m.req = reqs /\ m.acked = acked /\ m.chging = {}
  BY <1>c
<1>10. \A t \in Trk : m.req[t].op = "none" /\ m.req[t].st = "returned" /\ m.req[t].on = {}
  BY <1>9, <1>d DEF NoReq
<1>11. IGlobal(m)
  <2>1. \A t \in torn : m.acked[t] = Unknown
    BY <1>9, <1>d
  <2>2. "none" \notin SyncOp
    BY DEF SyncOp
  <2>3. m.vg = "opening" => m.sync_trk = NO_SYNCTRK /\ \A t \in Trk : m.req[t].op \in {"none", "MWC_RCV_OP"}
    BY <1>9, <1>10
  <2>4. m.vg = "open" => \A t \in Trk : m.req[t].op # "MWC_RCV_OP"
    BY <1>10
  <2> QED BY <1>9, <1>10, <2>1, <2>2, <2>3, <2>4 DEF IGlobal
<1>12. ASSUME NEW t \in Trk PROVE IReq(m, val, t)
  <2>1. Good(m, t) = Mirror \ stale
    BY <1>9 DEF Good, Trk, NO_SYNCTRK, Mirror
  <2>2. t \notin torn => m.acked[t] = 0 /\ \A x \in Mirror \ stale : val[x][t] = 0
    BY <1>9, <1>d DEF Starts
  <2>3. Clean(m, val, t)
    BY <1>9, <2>1, <2>2 DEF Clean, Current, Alike, Hold
  <2> QED BY <1>10, <2>3 DEF IReq, IReturned
<1>13. Chg(m, Trk)
  BY <1>9 DEF Chg
<1> QED BY <1>3, <1>7, <1>8, <1>11, <1>12, <1>13 DEF IInv, Starts

LEMMA InitInv ==
  ASSUME Init
  PROVE  IInv
<1>1. 0 \in Trk /\ NMir \in Mirror
  BY DEF Trk, Mirror
<1>2. PICK vg \in {"opening", "forced_sync"}, stale \in {{}, {NMir}} \ {Mirror}, lv \in Volumes :
        \E torn \in {{}} \cup (IF vg = "opening" THEN {{0}} ELSE {}) :
          /\ m \in [stale : {stale}, chging : {{}}, syncerr : {{}}, sync_trk : {NO_SYNCTRK}, sync_msk : {{}},
                  rip : {FALSE}, req : {[t \in Trk |-> NoReq]}, i_sched : {lv[1]},
                  nobbrel : {lv[2] # {}}, refuse : {lv[2]}, vg : {vg}, off : {FALSE},
                  acked : {[t \in Trk |-> IF t \in torn THEN Unknown ELSE 0]}, torn : {torn}, next : {0}]
          /\ val = [x \in Mirror |-> [t \in Trk |-> IF x \in stale \/ t \in torn THEN -x ELSE 0]]
  BY DEF Init
<1>3. PICK torn \in {{}} \cup (IF vg = "opening" THEN {{0}} ELSE {}) :
        /\ m \in [stale : {stale}, chging : {{}}, syncerr : {{}}, sync_trk : {NO_SYNCTRK}, sync_msk : {{}},
                rip : {FALSE}, req : {[t \in Trk |-> NoReq]}, i_sched : {lv[1]},
                nobbrel : {lv[2] # {}}, refuse : {lv[2]}, vg : {vg}, off : {FALSE},
                acked : {[t \in Trk |-> IF t \in torn THEN Unknown ELSE 0]}, torn : {torn}, next : {0}]
        /\ val = [x \in Mirror |-> [t \in Trk |-> IF x \in stale \/ t \in torn THEN -x ELSE 0]]
  BY <1>2
<1>4. torn \in SUBSET Trk /\ stale \in SUBSET Mirror /\ Mirror \ stale # {} /\ (vg = "forced_sync" => torn = {})
  BY <1>1
<1>5. Starts(vg, stale, lv, torn)
  BY <1>3 DEF Init, Starts
<1> QED BY <1>4, <1>5, StartInv

LEMMA NextInv ==
  ASSUME IInv, [Next]_vars
  PROVE  IInv'
<1>1. ASSUME NEW t \in Trk, NEW op \in {"read", "write", "RESYNC_OP", "MWC_RCV_OP"}, hd_strategy(t, op) PROVE IInv'
  BY <1>1, StrategyInv DEF Op, SyncOp
<1>2. ASSUME NEW t \in Trk, Served(t) PROVE IInv'
  <2>1. CASE Scheduled(t)
    BY <2>1, ScheduleInv DEF Scheduled
  <2>2. CASE TransferEnds(t)
    BY <2>2, EndInv DEF TransferEnds
  <2>3. CASE hd_sa_rtn(t)
    BY <2>3, SaRtnInv
  <2> QED BY <1>2, <2>1, <2>2, <2>3 DEF Served
<1>3. ASSUME NEW mirror \in Mirror, SETSA_PVMISS(mirror) \/ hd_kaddpv(mirror) PROVE IInv'
  BY <1>3, DisksInv
<1>4. CASE UNCHANGED vars
  BY <1>4 DEF vars, IInv
<1> QED BY <1>1, <1>2, <1>3, <1>4, ForceOffInv, SetupInv DEF Next

(* The invariant of the mirrored policies: whatever fails, goes missing or    *)
(* is refused, and wherever a crash has left off, every request knows where   *)
(* the good data of its track group is (hd_stalepp, hd_freshpp, hd_finished). *)
THEOREM HdSchedIInv == Spec => []IInv
<1>1. Init => IInv
  BY InitInv
<1>2. IInv /\ [Next]_vars => IInv'
  BY NextInv
<1> QED BY <1>1, <1>2, PTL DEF Spec

(* hd_stalepp leaves a copy of the partition active.                        *)
THEOREM HdSchedOneStaysFresh == Spec => []OneStaysFresh
<1>1. IInv => OneStaysFresh
  BY DEF IInv, IGlobal, OneStaysFresh, Fresh
<1> QED BY <1>1, HdSchedIInv, PTL

(* A read that hd_mirread or hd_fixup ends well returns what has been        *)
(* acknowledged last.                                                       *)
THEOREM HdSchedReadsCurrent == Spec => []ReadsCurrent
<1>1. IInv => ReadsCurrent
  BY DEF IInv, IReq, IReturned, ReadsCurrent, Returned
<1> QED BY <1>1, HdSchedIInv, PTL

(* The copies without PP_STALE agree wherever no request is under way, also   *)
(* those that hd_freshpp has just made active.                              *)
THEOREM HdSchedFreshAgree == Spec => []FreshAgree
<1>1. IInv => FreshAgree
  <2> SUFFICES ASSUME IInv, NEW t \in Trk \ m.torn, m.req[t].st = "returned"
               PROVE  /\ \A x, y \in Fresh : val[x][t] = val[y][t]
                      /\ m.acked[t] # Unknown => \A x \in Fresh : val[x][t] = m.acked[t]
    BY DEF FreshAgree
  <2>1. Current(m, val, t, Good(m, t))
    BY DEF IInv, IReq, IReturned, Clean
  <2>2. Fresh \subseteq Good(m, t)
    BY DEF Fresh, Good
  <2> QED BY <2>1, <2>2 DEF Current, Alike, Hold
<1> QED BY <1>1, HdSchedIInv, PTL

(* hd_mirread gives a read up when no copy is left to be tried.              *)
THEOREM HdSchedReadTriesAll == Spec => []ReadTriesAll
<1>1. IInv => ReadTriesAll
  BY DEF IInv, IReq, IReturned, ReadTriesAll, TriesAll, Returned
<1> QED BY <1>1, HdSchedIInv, PTL

(* Whoever ends the last transfer of a request continues or returns it        *)
(* (hd_begin, HD_SCHED, hd_parallel), also when hd_chkblk refuses the block.  *)
THEOREM HdSchedNobodyForgotten == Spec => []NobodyForgotten
<1>1. IInv => NobodyForgotten
  <2> SUFFICES ASSUME IInv, Spared(m), NEW t \in Trk, m.req[t].st = "disk" PROVE m.req[t].on # {}
    BY DEF NobodyForgotten, Spared
  <2>1. IDisk(m, val, t)
    BY DEF IInv, IReq
  <2>2. m.req[t].op = "write" => m.req[t].on # {}
    BY <2>1 DEF IDisk, IWrite
  <2>3. m.req[t].op # "write" => IReads(m, val, t)
    BY <2>1 DEF IDisk, IRead, IResync, IRecover, Op, SyncOp
  <2> QED BY <2>2, <2>3 DEF IReads
<1> QED BY <1>1, HdSchedIInv, PTL

(* The flags of the partition fit together: only a stale copy is changing     *)
(* (hd_stalepp, hd_staleppe, hd_freshpp), and PP_RIP is on only as long as    *)
(* sync_trk says where the resynchronisation is.                             *)
THEOREM HdSchedTypeOK == Spec => []TypeOK
<1>1. IInv => TypeOK
  <2> SUFFICES ASSUME IInv PROVE TypeOK
    OBVIOUS
  <2>1. m.stale \subseteq Mirror /\ m.syncerr \subseteq Mirror /\ m.sync_trk \in Trk \cup {NO_SYNCTRK}
    BY DEF IInv, StateType
  <2>2. m.chging \subseteq m.stale
    BY DEF IInv, Chg
  <2>3. \A t \in Trk : m.req[t].st \in {"returned", "pending", "disk", "wheel"}
    <3>1. \A t \in Trk : m.req[t] \in ReqType
      BY DEF IInv, StateType
    <3> QED BY <3>1 DEF ReqType
  <2> QED BY <2>1, <2>2, <2>3 DEF TypeOK, IInv, IGlobal
<1> QED BY <1>1, HdSchedIInv, PTL


=============================================================================
