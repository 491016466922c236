---------------------------- MODULE HdVgsaProofs ----------------------------
(***************************************************************************)
(* Proofs about the VGSA wheel, HdVgsa.                                     *)
(*                                                                         *)
(* The difficulty is in the place where the wheel stops.  hd_sa_cont()      *)
(* looks at one SA and one number; that no request is left when it finds    *)
(* the newest number there is a fact about the whole revolution.  The       *)
(* inductive invariant measures it with the distance Ahead from the SA that *)
(* is being written:                                                        *)
(*   - the active requests are in the order in which the wheel gets to the  *)
(*     SAs where they stop;                                                 *)
(*   - no SA that is nearer than the stop of the last of them has the       *)
(*     newest number;                                                       *)
(*   - the number of an SA is behind the newest by less than twice its      *)
(*     distance behind the wheel: the number is raised at most twice        *)
(*     between two advances (once when a write fails and once when the      *)
(*     wheel, held meanwhile, is restarted).  So a new number is the number *)
(*     of no SA, although the field wraps;                                  *)
(*   - an SA farther from the wheel than one with the newest number has it  *)
(*     too: the wheel has passed both, in this order (Level).               *)
(* The third needs a field wide enough for two revolutions, and no disk     *)
(* that is entered with the sequence number 0.                              *)
(*                                                                         *)
(* The second part is about what is on the disks (Recording):               *)
(*   - an SA that the wheel has passed since a request became active        *)
(*     carries what it asks for (Written), one that hangs on another too;   *)
(*   - a stale copy is marked in the memory image, or will be by a request  *)
(*     on hold, and a request on hold that clears the mark comes before     *)
(*     those that set it (Bound).  So what an SA carries is not lost when   *)
(*     it is written again;                                                 *)
(*   - the wheel stands at an SA that is there, or at the first (Site):     *)
(*     otherwise a new request, told to stop where the wheel lands, may be  *)
(*     returned by the very advance that begins it.                         *)
(***************************************************************************)
EXTENDS HdVgsa, DataLemmas

(* What the theorems about the wheel suppose of the constants: 2^16 numbers *)
(* for 64 SAs, and a volume group whose disks do not come back.             *)
Wide == SEQNUMS > 2 * NSa + 2
NoNewDisk == ConfigOps \cap {"HD_KADDPV", "HD_KADDPV_again"} = {}
-----------------------------------------------------------------------------
(* The shape of the volume group and of a working copy of it.               *)
Group == [whl: {"stopped", "active", "held"}, forcedoff: BOOLEAN,
          wheel_idx: Sa, whl_seq_num: 0..SEQNUMS - 1, hld: Seq(Pbuf),
          act: Seq(Seq(Pbuf)), stop: [Pbuf -> Sa], vgsa: Image,
          quorum_cnt: Quorums, sa_lbuf: Sa \cup {NULL},
          pvstate: [Pv -> {"NULL", "PV_DEFINED", "PV_MISSING"}],
          lsn: SUBSET Sa, nukesa: SUBSET Sa, seq: [Sa -> 0..SEQNUMS - 1]]
Asked == [Pbuf -> Request \cup {NULL}]
Copy == [vg: Group, pb: Asked, ok: SUBSET Pbuf, err: SUBSET Pbuf,
         fresh: SUBSET Pbuf, updated: BOOLEAN, woken: BOOLEAN]

(* A request is on one list, once, and is still asked for.                  *)
Placed(g, q) ==
  /\ IsInjective(g.hld)
  /\ \A j \in DOMAIN g.act : g.act[j] # <<>> /\ Range(g.act[j]) \cap Range(g.hld) = {}
  /\ \A j, k \in DOMAIN g.act : j # k => Range(g.act[j]) \cap Range(g.act[k]) = {}
  /\ \A r \in Listed(g) : q[r] # NULL

(* The requests that a working copy returns are on no list any more.        *)
Sane(w) ==
  /\ w \in Copy
  /\ Placed(w.vg, w.pb)
  /\ \A r \in w.ok \cup w.err : w.pb[r] # NULL /\ r \notin Listed(w.vg)

(* The process whose request the wheel has is in hd_sa_config's last phase; *)
(* the others are on their way to the control of the wheel.                 *)
Asking == {"started", "gosleep2", "waiting2"}
Taking == {"gosleep", "waiting", "woken", "control"}
CfgPlace(q, c) ==
  /\ q[Cfg] # NULL => c.pc \in Asking /\ c.rtn = "none"
  /\ c.pc # "idle" => c.qrm \in Quorums
  /\ c.pc \in Taking =>
       /\ c.rtn = "none"
       /\ c.op \in {"HD_KADDPV", "HD_KADDPV_again", "HD_KADDVGSA", "HD_MWC_REC",
                    "HD_KDELVGSA", "HD_KEXTEND", "HD_KREDUCE"}

(* The flags of the wheel, the write under way and the process with control.*)
Steady(g) ==
  /\ g.whl = "active" <=> g.sa_lbuf # NULL
  /\ g.sa_lbuf \in {NULL, g.wheel_idx}
  /\ g.whl = "stopped" => g.hld = <<>>
Flags(g, c) ==
  /\ Steady(g)
  /\ c.pc = "control" => g.whl # "active"
  /\ c.pc = "woken" => g.whl = "held"

Base == TypeOK /\ Placed(vg, pb) /\ CfgPlace(pb, config) /\ Flags(vg, config)
-----------------------------------------------------------------------------
(* How far the wheel is from an SA, or all the way round from the one where *)
(* it is; and when it has got there and not yet written.                    *)
Ahead(g, s) == IF s > g.wheel_idx THEN s - g.wheel_idx ELSE s - g.wheel_idx + NSa
Landing(g, s) == IF s = g.wheel_idx THEN 0 ELSE Ahead(g, s)

(* By how much the number of an SA is behind the newest.                    *)
Age(g, s) == IF g.whl_seq_num >= g.seq[s] THEN g.whl_seq_num - g.seq[s]
                                          ELSE g.whl_seq_num - g.seq[s] + SEQNUMS

Near(g) == Active(g) \cup {g.wheel_idx}
First(l) == l[1]
StopAt(g, j) == Ahead(g, g.stop[First(g.act[j])])

(* The active requests are in the order of their stops, those that have a   *)
(* stop already.                                                            *)
Ordered(g, F) ==
  \A i, j \in DOMAIN g.act : i <= j =>
    /\ First(g.act[i]) \in F => First(g.act[j]) \in F
    /\ First(g.act[j]) \notin F => StopAt(g, i) <= StopAt(g, j)

(* No SA before the stop of the last of them has the newest number.         *)
Outdated(g, Dist(_, _)) ==
  g.act # <<>> =>
    \A s \in Active(g) : Dist(g, s) < StopAt(g, Len(g.act)) => g.seq[s] # g.whl_seq_num

Aged(g, Dist(_, _), n) == \A s \in Near(g) : Age(g, s) <= 2 * (NSa - Dist(g, s)) + n

AllOld(g) == \A s \in Near(g) : g.seq[s] # g.whl_seq_num

(* The wheel while an SA is written, and when it has got to one.            *)
Spinning(g) ==
  /\ Ordered(g, {})
  /\ ~g.forcedoff => IF g.sa_lbuf = NULL THEN Outdated(g, Landing) /\ Aged(g, Landing, 0)
                                         ELSE Outdated(g, Ahead) /\ Aged(g, Ahead, 1)
Turning(g) == Spinning(g) /\ (g.whl = "stopped" => g.act = <<>>)

(* An SA with the newest number holds the memory image.                     *)
Current(g, D) ==
  ~g.forcedoff =>
    \A s \in Active(g) : g.seq[s] = g.whl_seq_num /\ g.sa_lbuf # s => D[s] = g.vgsa

(* If one SA has the newest number then so has every one that the wheel has *)
(* left since, but for SAs that are not in the wheel's turn yet.            *)
Even(g, Dist(_, _), X) ==
  \A s \in Active(g), t \in Active(g) \ X :
    g.seq[s] = g.whl_seq_num /\ Dist(g, s) < Dist(g, t) => g.seq[t] = g.whl_seq_num
Levelled(g, X) ==
  ~g.forcedoff => IF g.sa_lbuf = NULL THEN Even(g, Landing, X) ELSE Even(g, Ahead, X)
Level(g, X) ==
  /\ Levelled(g, X)
  /\ g.whl = "stopped" /\ ~g.forcedoff => \A t \in Active(g) \ X : g.seq[t] = g.whl_seq_num

(* The SAs that a process on its way to the wheel's control has entered.    *)
Outside(c) == IF c.op = "HD_KADDVGSA" /\ c.pc \in Taking THEN c.sas ELSE {}

Turn == Turning(vg) /\ Current(vg, disk) /\ Level(vg, Outside(config))
-----------------------------------------------------------------------------
LEMMA Sizes ==
  /\ NSa \in Nat \ {0} /\ NSa = 2 * MAXPVS /\ SEQNUMS \in Nat /\ SEQNUMS > NSa + 2
  /\ Sa = 0..NSa - 1 /\ MAXPVS \in Nat \ {0} /\ NULL \notin Sa
BY SizeAssumption, PbufAssumption DEF NSa, Sa

LEMMA ModPlus ==
  ASSUME NEW n \in Nat \ {0}, NEW x \in 0..n - 1, NEW k \in 1..n
  PROVE  (x + k) % n = IF x + k < n THEN x + k ELSE x + k - n
<1>1. CASE x + k < n
  BY <1>1
<1>2. CASE x + k >= n
  BY <1>2
<1> QED BY <1>1, <1>2

LEMMA ModMinus ==
  ASSUME NEW n \in Nat \ {0}, NEW x \in 0..n - 1
  PROVE  (x - 1) % n = IF x = 0 THEN n - 1 ELSE x - 1
OBVIOUS

LEMMA PvOfIn == \A s \in Sa : PvOf(s) \in Pv
<1> SUFFICES ASSUME NEW s \in Sa PROVE PvOf(s) \in Pv
  OBVIOUS
<1>1. MAXPVS \in Nat \ {0} /\ s \in 0..2 * MAXPVS - 1
  BY Sizes
<1>2. s \div 2 \in 0..MAXPVS - 1
  BY <1>1
<1> QED BY <1>2 DEF PvOf, Pv

LEMMA GroupFields ==
  ASSUME NEW g \in Group
  PROVE  /\ g.whl \in {"stopped", "active", "held"} /\ g.forcedoff \in BOOLEAN
         /\ g.wheel_idx \in Sa /\ g.whl_seq_num \in 0..SEQNUMS - 1
         /\ g.hld \in Seq(Pbuf) /\ g.act \in Seq(Seq(Pbuf)) /\ g.stop \in [Pbuf -> Sa]
         /\ g.vgsa \in Image /\ g.quorum_cnt \in Quorums /\ g.sa_lbuf \in Sa \cup {NULL}
         /\ g.pvstate \in [Pv -> {"NULL", "PV_DEFINED", "PV_MISSING"}]
         /\ g.lsn \in SUBSET Sa /\ g.nukesa \in SUBSET Sa
         /\ g.seq \in [Sa -> 0..SEQNUMS - 1]
BY DEF Group

LEMMA CopyFields ==
  ASSUME NEW w \in Copy
  PROVE  /\ w.vg \in Group /\ w.pb \in Asked
         /\ w.ok \in SUBSET Pbuf /\ w.err \in SUBSET Pbuf /\ w.fresh \in SUBSET Pbuf
         /\ w.updated \in BOOLEAN /\ w.woken \in BOOLEAN
BY DEF Copy

LEMMA RangeIn == ASSUME NEW T, NEW s \in Seq(T) PROVE Range(s) \subseteq T
<1>1. \A i \in DOMAIN s : s[i] \in T
  OBVIOUS
<1> QED BY <1>1 DEF Range

LEMMA Heads ==
  ASSUME NEW g \in Group, NEW q, Placed(g, q)
  PROVE  /\ \A j \in DOMAIN g.act : g.act[j] \in Seq(Pbuf) /\ Len(g.act[j]) > 0
                                    /\ First(g.act[j]) \in Pbuf /\ First(g.act[j]) \in Range(g.act[j])
         /\ \A r : r \in Listed(g) <=> r \in Range(g.hld) \/ \E j \in DOMAIN g.act : r \in Range(g.act[j])
         /\ Listed(g) \subseteq Pbuf
<1>1. g.act \in Seq(Seq(Pbuf)) /\ g.hld \in Seq(Pbuf)
  BY GroupFields
<1>2. ASSUME NEW j \in DOMAIN g.act
      PROVE g.act[j] \in Seq(Pbuf) /\ Len(g.act[j]) > 0 /\ First(g.act[j]) \in Pbuf /\ First(g.act[j]) \in Range(g.act[j])
  <2>1. g.act[j] \in Seq(Pbuf) /\ g.act[j] # <<>>
    BY <1>1 DEF Placed
  <2>2. Len(g.act[j]) > 0 /\ 1 \in DOMAIN g.act[j]
    BY <2>1
  <2> QED BY <2>1, <2>2 DEF Range, First
<1>3. \A r : r \in Listed(g) <=> r \in Range(g.hld) \/ \E j \in DOMAIN g.act : r \in Range(g.act[j])
  <2>1. \A l : l \in Range(g.act) <=> \E j \in DOMAIN g.act : l = g.act[j]
    BY DEF Range
  <2> QED BY <2>1 DEF Listed
<1>4. Range(g.hld) \subseteq Pbuf
  BY <1>1, RangeIn
<1>5. \A j \in DOMAIN g.act : Range(g.act[j]) \subseteq Pbuf
  BY <1>2, RangeIn
<1> QED BY <1>2, <1>3, <1>4, <1>5

LEMMA AheadIn ==
  ASSUME NEW g \in Group, NEW s \in Sa
  PROVE  /\ Ahead(g, s) \in 1..NSa /\ Ahead(g, g.wheel_idx) = NSa
         /\ s # g.wheel_idx => Ahead(g, s) < NSa /\ Landing(g, s) = Ahead(g, s)
         /\ Landing(g, s) \in 0..NSa - 1 /\ Landing(g, g.wheel_idx) = 0
         /\ Age(g, s) \in 0..SEQNUMS - 1 /\ (Age(g, s) = 0 <=> g.seq[s] = g.whl_seq_num)
<1>1. g.wheel_idx \in 0..NSa - 1 /\ s \in 0..NSa - 1
  BY GroupFields, Sizes
<1>2. g.whl_seq_num \in 0..SEQNUMS - 1 /\ g.seq[s] \in 0..SEQNUMS - 1
  BY GroupFields
<1>3. /\ Ahead(g, s) \in 1..NSa /\ Ahead(g, g.wheel_idx) = NSa
      /\ s # g.wheel_idx => Ahead(g, s) < NSa
  BY <1>1, Sizes DEF Ahead
<1>4. Landing(g, s) \in 0..NSa - 1 /\ Landing(g, g.wheel_idx) = 0
  BY <1>3, Sizes DEF Landing
<1>5. Age(g, s) \in 0..SEQNUMS - 1 /\ (Age(g, s) = 0 <=> g.seq[s] = g.whl_seq_num)
  BY <1>2, Sizes DEF Age
<1> QED BY <1>3, <1>4, <1>5 DEF Landing

-----------------------------------------------------------------------------
(* What a change of the memory image leaves alone.                          *)
Marked(w, d) ==
  /\ d \in Copy /\ d.pb = w.pb /\ d.ok = w.ok /\ d.err = w.err /\ d.fresh = w.fresh
  /\ d.woken = w.woken /\ d.updated = w.updated
  /\ d.vg.whl = w.vg.whl /\ d.vg.wheel_idx = w.vg.wheel_idx
  /\ d.vg.whl_seq_num = w.vg.whl_seq_num /\ d.vg.hld = w.vg.hld /\ d.vg.act = w.vg.act
  /\ d.vg.stop = w.vg.stop /\ d.vg.sa_lbuf = w.vg.sa_lbuf /\ d.vg.lsn = w.vg.lsn
  /\ d.vg.nukesa = w.vg.nukesa /\ d.vg.seq = w.vg.seq
  /\ Active(d.vg) \subseteq Active(w.vg)
  /\ w.vg.forcedoff => d.vg.forcedoff

LEMMA MarkedTwice ==
  ASSUME NEW w, NEW d, NEW e, Marked(w, d), Marked(d, e)
  PROVE  Marked(w, e)
BY DEF Marked

LEMMA PvMissOK ==
  ASSUME NEW w \in Copy, NEW p \in Pv
  PROVE  /\ Marked(w, SETSA_PVMISS(w, p))
         /\ \A x : PvOf(x) = p => x \notin Active(SETSA_PVMISS(w, p).vg)
<1> DEFINE g == w.vg
           v == IF g.pvstate[p] = "NULL" THEN g.pvstate[p] ELSE "PV_MISSING"
           s == [g.pvstate EXCEPT ![p] = v]
           m == [g.vgsa EXCEPT !.pvmissing = @ \cup {p}]
           h == [g EXCEPT !.pvstate = s, !.vgsa = m]
           d == [w EXCEPT !.vg = h]
<1>1. g \in Group
  BY CopyFields
<1>2. s \in [Pv -> {"NULL", "PV_DEFINED", "PV_MISSING"}] /\ m \in Image
  <2>1. g.pvstate \in [Pv -> {"NULL", "PV_DEFINED", "PV_MISSING"}] /\ g.vgsa \in Image
    BY <1>1, GroupFields
  <2> QED BY <2>1 DEF Image
<1>3. SETSA_PVMISS(w, p) = d
  BY DEF SETSA_PVMISS, Copy, Group
<1>4. s[p] # "PV_DEFINED" /\ \A x \in Pv : s[x] = "PV_DEFINED" => g.pvstate[x] = "PV_DEFINED"
  <2>1. g.pvstate \in [Pv -> {"NULL", "PV_DEFINED", "PV_MISSING"}]
    BY <1>1, GroupFields
  <2> QED BY <2>1
<1> HIDE DEF s, m
<1>5. h \in Group
  BY <1>1, <1>2 DEF Group
<1>6. /\ h.whl = g.whl /\ h.wheel_idx = g.wheel_idx /\ h.whl_seq_num = g.whl_seq_num
      /\ h.hld = g.hld /\ h.act = g.act /\ h.stop = g.stop /\ h.sa_lbuf = g.sa_lbuf
      /\ h.lsn = g.lsn /\ h.nukesa = g.nukesa /\ h.seq = g.seq /\ h.pvstate = s
      /\ h.forcedoff = g.forcedoff
  BY <1>1 DEF Group
<1>7. Active(h) \subseteq Active(g)
  <2>1. \A x \in g.lsn : PvOf(x) \in Pv
    BY <1>1, GroupFields, PvOfIn
  <2> QED BY <2>1, <1>4, <1>6 DEF Active
<1>9. \A x : PvOf(x) = p => x \notin Active(h)
  BY <1>4, <1>6 DEF Active
<1> HIDE DEF h
<1>8. /\ d \in Copy /\ d.vg = h /\ d.pb = w.pb /\ d.ok = w.ok /\ d.err = w.err /\ d.fresh = w.fresh
      /\ d.woken = w.woken /\ d.updated = w.updated
  BY <1>5 DEF Copy
<1> QED BY <1>3, <1>6, <1>7, <1>8, <1>9 DEF Marked

(* A change of the flags and numbers of the volume group only.              *)
LEMMA FieldsOK ==
  ASSUME NEW w \in Copy, NEW f \in BOOLEAN, NEW n \in Quorums, NEW i \in Image,
         w.vg.forcedoff => f
  PROVE  /\ Marked(w, [w EXCEPT !.vg.forcedoff = f])
         /\ Marked(w, [w EXCEPT !.vg.quorum_cnt = n])
         /\ Marked(w, [w EXCEPT !.vg.vgsa = i])
<1> DEFINE g == w.vg
           h1 == [g EXCEPT !.forcedoff = f]
           h2 == [g EXCEPT !.quorum_cnt = n]
           h3 == [g EXCEPT !.vgsa = i]
<1>1. g \in Group
  BY CopyFields
<1>2. h1 \in Group /\ h2 \in Group /\ h3 \in Group
  BY <1>1 DEF Group
<1>3. ASSUME NEW h \in {h1, h2, h3}
      PROVE  Marked(w, [w EXCEPT !.vg = h])
  <2> DEFINE d == [w EXCEPT !.vg = h]
  <2>1. /\ h.whl = g.whl /\ h.wheel_idx = g.wheel_idx /\ h.whl_seq_num = g.whl_seq_num
        /\ h.hld = g.hld /\ h.act = g.act /\ h.stop = g.stop /\ h.sa_lbuf = g.sa_lbuf
        /\ h.lsn = g.lsn /\ h.nukesa = g.nukesa /\ h.seq = g.seq /\ h.pvstate = g.pvstate
        /\ g.forcedoff => h.forcedoff
    BY <1>1 DEF Group
  <2>2. h \in Group
    BY <1>2
  <2>3. Active(h) = Active(g)
    BY <2>1 DEF Active
  <2> HIDE DEF h1, h2, h3
  <2>4. /\ d \in Copy /\ d.vg = h /\ d.pb = w.pb /\ d.ok = w.ok /\ d.err = w.err
        /\ d.fresh = w.fresh /\ d.woken = w.woken /\ d.updated = w.updated
    BY <2>2 DEF Copy
  <2> QED BY <2>1, <2>3, <2>4 DEF Marked
<1>4. Marked(w, [w EXCEPT !.vg = h1]) /\ Marked(w, [w EXCEPT !.vg = h2]) /\ Marked(w, [w EXCEPT !.vg = h3])
  <2> HIDE DEF h1, h2, h3
  <2> QED BY <1>3
<1> QED BY <1>4

LEMMA QrmchkOK == ASSUME NEW w \in Copy PROVE Marked(w, hd_sa_qrmchk(w))
<1> DEFINE f == w.vg.forcedoff \/ Cardinality(Active(w.vg)) < w.vg.quorum_cnt
<1>1. hd_sa_qrmchk(w) = [w EXCEPT !.vg.forcedoff = f]
  BY DEF hd_sa_qrmchk
<1>2. w.vg.quorum_cnt \in Quorums
  BY CopyFields, GroupFields
<1>3. PICK i \in Image : TRUE
  BY CopyFields, GroupFields
<1>4. f \in BOOLEAN /\ (w.vg.forcedoff => f)
  OBVIOUS
<1> HIDE DEF f
<1> QED BY <1>1, <1>2, <1>3, <1>4, FieldsOK

LEMMA ApplyOK ==
  ASSUME NEW w \in Copy, NEW q \in Request
  PROVE  Marked(w, Apply(w, q))
<1>1. w.vg.quorum_cnt \in Quorums /\ w.vg.vgsa \in Image /\ w.vg.forcedoff \in BOOLEAN
  BY CopyFields, GroupFields
<1>2. CASE q.type \in {"SA_PVMISSING", "SA_PVREMOVED"}
  <2> DEFINE m == SETSA_PVMISS(w, q.pv)
             e == IF q.type = "SA_PVREMOVED" THEN [m EXCEPT !.vg.quorum_cnt = q.b_work] ELSE m
  <2>1. q.pv \in Pv /\ (q.type = "SA_PVREMOVED" => q.b_work \in Quorums)
    BY <1>2 DEF Request
  <2>2. Marked(w, m) /\ m \in Copy
    BY <2>1, PvMissOK DEF Marked
  <2>3. Apply(w, q) = hd_sa_qrmchk(e)
    BY <1>2 DEF Apply
  <2> HIDE DEF m
  <2>4. m.vg.vgsa \in Image /\ m.vg.forcedoff \in BOOLEAN /\ m.vg.quorum_cnt \in Quorums
    BY <2>2, CopyFields, GroupFields
  <2>5. q.type = "SA_PVREMOVED" => Marked(m, [m EXCEPT !.vg.quorum_cnt = q.b_work])
    BY <2>1, <2>2, <2>4, FieldsOK
  <2>6. Marked(w, e) /\ e \in Copy
    <3>1. CASE q.type = "SA_PVREMOVED"
      <4>1. Marked(w, [m EXCEPT !.vg.quorum_cnt = q.b_work])
        BY <2>2, <2>5, <3>1, MarkedTwice
      <4> QED BY <4>1, <3>1 DEF Marked
    <3> QED BY <3>1, <2>2
  <2> HIDE DEF e
  <2>7. Marked(e, hd_sa_qrmchk(e))
    BY <2>6, QrmchkOK
  <2> QED BY <2>3, <2>6, <2>7, MarkedTwice
<1>3. CASE q.type = "SA_STALEPP"
  <2> DEFINE i == [w.vg.vgsa EXCEPT !.stalepp = @ \cup ({q.lp} \X q.mir)]
  <2>1. {q.lp} \X q.mir \subseteq Pp
    BY <1>3 DEF Request, Pp
  <2>2. i \in Image
    BY <1>1, <2>1 DEF Image
  <2>3. Apply(w, q) = [w EXCEPT !.vg.vgsa = i]
    BY <1>3 DEF Apply
  <2> HIDE DEF i
  <2> QED BY <1>1, <2>2, <2>3, FieldsOK
<1>4. CASE q.type = "SA_FRESHPP"
  <2> DEFINE i == [w.vg.vgsa EXCEPT !.stalepp = @ \ ({q.lp} \X q.mir)]
  <2>2. i \in Image
    BY <1>1 DEF Image
  <2>3. Apply(w, q) = [w EXCEPT !.vg.vgsa = i]
    BY <1>4 DEF Apply
  <2> HIDE DEF i
  <2> QED BY <1>1, <2>2, <2>3, FieldsOK
<1>5. CASE q.type = "SA_CONFIGOP"
  <2>1. Apply(w, q) = w
    BY <1>5 DEF Apply
  <2> QED BY <2>1 DEF Marked
<1>6. q.type \in {"SA_PVMISSING", "SA_PVREMOVED", "SA_STALEPP", "SA_FRESHPP", "SA_CONFIGOP"}
  BY DEF Request
<1> QED BY <1>2, <1>3, <1>4, <1>5, <1>6

-----------------------------------------------------------------------------
(* A number that is behind by less than the field holds stays behind.       *)
LEMMA AgeNext ==
  ASSUME NEW g \in Group, NEW h \in Group, h.seq = g.seq,
         h.whl_seq_num = (g.whl_seq_num + 1) % SEQNUMS,
         NEW s \in Sa, Age(g, s) < SEQNUMS - 1
  PROVE  Age(h, s) = Age(g, s) + 1
<1>1. g.whl_seq_num \in 0..SEQNUMS - 1 /\ g.seq[s] \in 0..SEQNUMS - 1 /\ SEQNUMS \in Nat \ {0}
  BY GroupFields, Sizes
<1>2. h.whl_seq_num = IF g.whl_seq_num + 1 < SEQNUMS THEN g.whl_seq_num + 1 ELSE 0
  <2>1. 1 \in 1..SEQNUMS
    BY <1>1
  <2>2. h.whl_seq_num = IF g.whl_seq_num + 1 < SEQNUMS THEN g.whl_seq_num + 1
                        ELSE g.whl_seq_num + 1 - SEQNUMS
    BY <1>1, <2>1, ModPlus
  <2> QED BY <1>1, <2>2
<1> QED BY <1>1, <1>2 DEF Age

LEMMA UpdateOK ==
  ASSUME NEW w \in Copy
  PROVE  LET d == hd_sa_update(w)
         IN  /\ d \in Copy /\ d.updated /\ d.pb = w.pb /\ d.ok = w.ok /\ d.err = w.err
             /\ d.fresh = w.fresh /\ d.woken = w.woken
             /\ d.vg = [w.vg EXCEPT !.whl_seq_num = d.vg.whl_seq_num]
             /\ d.vg.whl_seq_num = IF w.updated THEN w.vg.whl_seq_num
                                   ELSE (w.vg.whl_seq_num + 1) % SEQNUMS
<1>1. w.vg \in Group
  BY CopyFields
<1>2. CASE w.updated
  <2>1. hd_sa_update(w) = w
    BY <1>2 DEF hd_sa_update
  <2>2. w.vg = [w.vg EXCEPT !.whl_seq_num = w.vg.whl_seq_num]
    BY <1>1 DEF Group
  <2> QED BY <1>2, <2>1, <2>2
<1>3. CASE ~w.updated
  <2> DEFINE n == (w.vg.whl_seq_num + 1) % SEQNUMS
             h == [w.vg EXCEPT !.whl_seq_num = n]
             d == [w EXCEPT !.updated = TRUE, !.vg = h]
  <2>1. hd_sa_update(w) = d
    BY <1>3 DEF hd_sa_update, Copy
  <2>2. n \in 0..SEQNUMS - 1
    <3>1. w.vg.whl_seq_num \in Int /\ SEQNUMS \in Nat \ {0}
      BY <1>1, GroupFields, Sizes
    <3> QED BY <3>1
  <2> HIDE DEF n
  <2>3. h \in Group /\ h.whl_seq_num = n
    BY <1>1, <2>2 DEF Group
  <2>4. h = [w.vg EXCEPT !.whl_seq_num = h.whl_seq_num]
    BY <2>3
  <2> HIDE DEF h
  <2>5. /\ d \in Copy /\ d.updated /\ d.pb = w.pb /\ d.ok = w.ok /\ d.err = w.err
        /\ d.fresh = w.fresh /\ d.woken = w.woken /\ d.vg = h
    BY <2>3 DEF Copy
  <2> QED BY <1>3, <2>1, <2>3, <2>4, <2>5 DEF n
<1> QED BY <1>2, <1>3

(* The rest of the fields under a change of the number.                     *)
LEMMA NumberOnly ==
  ASSUME NEW g \in Group, NEW n, NEW h, h = [g EXCEPT !.whl_seq_num = n]
  PROVE  /\ h.whl = g.whl /\ h.wheel_idx = g.wheel_idx /\ h.whl_seq_num = n
         /\ h.hld = g.hld /\ h.act = g.act /\ h.stop = g.stop /\ h.sa_lbuf = g.sa_lbuf
         /\ h.lsn = g.lsn /\ h.nukesa = g.nukesa /\ h.seq = g.seq /\ h.pvstate = g.pvstate
         /\ h.forcedoff = g.forcedoff /\ h.vgsa = g.vgsa /\ h.quorum_cnt = g.quorum_cnt
         /\ Active(h) = Active(g) /\ Near(h) = Near(g)
         /\ \A s : Ahead(h, s) = Ahead(g, s) /\ Landing(h, s) = Landing(g, s)
<1>1. /\ h.whl = g.whl /\ h.wheel_idx = g.wheel_idx /\ h.whl_seq_num = n
      /\ h.hld = g.hld /\ h.act = g.act /\ h.stop = g.stop /\ h.sa_lbuf = g.sa_lbuf
      /\ h.lsn = g.lsn /\ h.nukesa = g.nukesa /\ h.seq = g.seq /\ h.pvstate = g.pvstate
      /\ h.forcedoff = g.forcedoff /\ h.vgsa = g.vgsa /\ h.quorum_cnt = g.quorum_cnt
  BY DEF Group
<1>2. Active(h) = Active(g)
  BY <1>1 DEF Active
<1>3. \A s : Ahead(h, s) = Ahead(g, s)
  BY <1>1 DEF Ahead
<1> QED BY <1>1, <1>2, <1>3 DEF Near, Landing

LEMMA NearIn == ASSUME NEW g \in Group PROVE Near(g) \subseteq Sa /\ Active(g) \subseteq Sa
BY GroupFields DEF Near, Active

(* A new number is the number of no SA.                                     *)
LEMMA NewNumber ==
  ASSUME NEW g \in Group, NEW h \in Group, h.seq = g.seq, h.wheel_idx = g.wheel_idx,
         Near(h) \subseteq Near(g), h.whl_seq_num = (g.whl_seq_num + 1) % SEQNUMS,
         \A s \in Near(g) : Age(g, s) <= 2 * NSa, Wide
  PROVE  AllOld(h) /\ \A s \in Near(h) : Age(h, s) = Age(g, s) + 1
<1>1. ASSUME NEW s \in Near(h) PROVE h.seq[s] # h.whl_seq_num /\ Age(h, s) = Age(g, s) + 1
  <2>1. s \in Near(g) /\ s \in Sa
    BY <1>1, NearIn
  <2>2. Age(g, s) \in 0..SEQNUMS - 1 /\ (Age(h, s) = 0 <=> h.seq[s] = h.whl_seq_num)
    BY <2>1, AheadIn
  <2>3. Age(g, s) < SEQNUMS - 1
    BY <2>1, <2>2, Sizes DEF Wide
  <2>4. Age(h, s) = Age(g, s) + 1
    BY <2>1, <2>3, AgeNext
  <2> QED BY <2>2, <2>4
<1> QED BY <1>1 DEF AllOld

-----------------------------------------------------------------------------
(* The active lists are apart from each other, from the requests still to   *)
(* come and from the returned ones, and all are asked for.                  *)
Apart(act, q, done, R) ==
  /\ \A j \in DOMAIN act : act[j] # <<>> /\ Range(act[j]) \cap R = {}
  /\ \A j, k \in DOMAIN act : j # k => Range(act[j]) \cap Range(act[k]) = {}
  /\ \A r \in R \cup done : q[r] # NULL
  /\ R \cap done = {}
  /\ \A j \in DOMAIN act : \A r \in Range(act[j]) : q[r] # NULL /\ r \notin done

LEMMA ApartSane ==
  ASSUME NEW w \in Copy
  PROVE  Sane(w) <=> IsInjective(w.vg.hld) /\ Apart(w.vg.act, w.pb, w.ok \cup w.err, Range(w.vg.hld))
<1> DEFINE g == w.vg
<1>1. \A r : r \in Listed(g) <=> r \in Range(g.hld) \/ \E j \in DOMAIN g.act : r \in Range(g.act[j])
  <2>1. \A l : l \in Range(g.act) <=> \E j \in DOMAIN g.act : l = g.act[j]
    BY DEF Range
  <2> QED BY <2>1 DEF Listed
<1> HIDE DEF g
<1>2. ASSUME IsInjective(g.hld), Apart(g.act, w.pb, w.ok \cup w.err, Range(g.hld))
      PROVE  Placed(g, w.pb) /\ \A r \in w.ok \cup w.err : w.pb[r] # NULL /\ r \notin Listed(g)
  BY <1>1, <1>2 DEF Placed, Apart
<1>3. ASSUME Placed(g, w.pb), \A r \in w.ok \cup w.err : w.pb[r] # NULL /\ r \notin Listed(g)
      PROVE  IsInjective(g.hld) /\ Apart(g.act, w.pb, w.ok \cup w.err, Range(g.hld))
  BY <1>1, <1>3 DEF Placed, Apart
<1> QED BY <1>2, <1>3 DEF Sane, g

(* What the turn of the wheel needs of a working copy between two writes.   *)
Ready(w) ==
  /\ Ordered(w.vg, w.fresh)
  /\ w.fresh # {} => w.updated
  /\ ~w.vg.forcedoff =>
       /\ Aged(w.vg, Landing, IF w.updated THEN 1 ELSE 0)
       /\ w.updated => AllOld(w.vg)
       /\ ~w.updated => Outdated(w.vg, Landing)

LEMMA FirstAppend ==
  ASSUME NEW T, NEW l \in Seq(T), l # <<>>, NEW x \in T
  PROVE  First(Append(l, x)) = First(l)
<1>1. Len(l) \in Nat \ {0}
  OBVIOUS
<1>2. Append(l, x)[1] = l[1]
  BY <1>1
<1> QED BY <1>2 DEF First

LEMMA NotFirst ==
  ASSUME NEW act \in Seq(Seq(Pbuf)), NEW q, NEW done, NEW R, Apart(act, q, done, R),
         NEW r \in R, NEW j \in 1..Len(act)
  PROVE  act[j] \in Seq(Pbuf) /\ act[j] # <<>> /\ First(act[j]) \in Range(act[j]) /\ r # First(act[j])
<1>1. act[j] \in Seq(Pbuf) /\ act[j] # <<>> /\ r \notin Range(act[j])
  <2>1. j \in DOMAIN act
    OBVIOUS
  <2> QED BY <2>1 DEF Apart
<1>2. 1 \in DOMAIN act[j]
  BY <1>1
<1> QED BY <1>1, <1>2 DEF Range, First

LEMMA ApartAdd ==
  ASSUME NEW act \in Seq(Seq(Pbuf)), NEW q, NEW done, NEW R, Apart(act, q, done, R),
         NEW r \in Pbuf, r \in R, NEW k \in 1..Len(act),
         NEW b \in Seq(Seq(Pbuf)), Len(b) = Len(act),
         \A j \in 1..Len(act) : b[j] = IF j = k THEN Append(act[k], r) ELSE act[j]
  PROVE  Apart(b, q, done, R \ {r})
<1>1. DOMAIN act = 1..Len(act) /\ DOMAIN b = 1..Len(act) /\ \A j \in 1..Len(act) : act[j] \in Seq(Pbuf)
  OBVIOUS
<1>2. act[k] \in Seq(Pbuf) /\ act[k] # <<>>
  BY <1>1 DEF Apart
<1>3. /\ Append(act[k], r) \in Seq(Pbuf) /\ Append(act[k], r) # <<>>
      /\ Range(Append(act[k], r)) = Range(act[k]) \cup {r}
  <2>1. Range(Append(act[k], r)) = Range(act[k]) \cup {r} /\ Append(act[k], r) \in Seq(Pbuf)
    BY <1>2, RangeAppend
  <2> DEFINE s == act[k]
  <2>2. s \in Seq(Pbuf) /\ Len(s) \in Nat \ {0}
    BY <1>2
  <2> HIDE DEF s
  <2>3. Len(Append(s, r)) = Len(s) + 1
    BY <2>2
  <2>4. Append(s, r) # <<>>
    <3>1. Len(Append(s, r)) # 0 /\ Len(<<>>) = 0
      BY <2>2, <2>3
    <3> QED BY <3>1, Zenon
  <2> QED BY <2>1, <2>4 DEF s
<1>4. \A j \in 1..Len(act) : b[j] = IF j = k THEN Append(act[k], r) ELSE act[j]
  OBVIOUS
<1>6. \A j \in 1..Len(act) : Range(b[j]) = IF j = k THEN Range(act[k]) \cup {r} ELSE Range(act[j])
  BY <1>3, <1>4
<1>7. \A j \in 1..Len(act) : b[j] # <<>>
  BY <1>1, <1>3, <1>4 DEF Apart
<1>8. Apart(b, q, done, R \ {r})
  <2>1. \A j \in 1..Len(act) : /\ Range(act[j]) \cap R = {}
                               /\ \A x \in Range(act[j]) : q[x] # NULL /\ x \notin done
    BY <1>1 DEF Apart
  <2>2. r \in R /\ q[r] # NULL /\ r \notin done
    BY DEF Apart
  <2>3. \A j, l \in 1..Len(act) : j # l => Range(act[j]) \cap Range(act[l]) = {}
    BY <1>1 DEF Apart
  <2>4. ASSUME NEW j \in 1..Len(act), NEW l \in 1..Len(act), j # l
        PROVE  Range(b[j]) \cap Range(b[l]) = {}
    <3>1. Range(act[j]) \cap Range(act[l]) = {} /\ r \notin Range(act[j]) /\ r \notin Range(act[l])
      BY <2>1, <2>2, <2>3, <2>4
    <3>2. Range(b[j]) \subseteq Range(act[j]) \cup (IF j = k THEN {r} ELSE {})
      BY <1>6
    <3>3. Range(b[l]) \subseteq Range(act[l]) \cup (IF l = k THEN {r} ELSE {})
      BY <1>6
    <3> QED BY <2>4, <3>1, <3>2, <3>3
  <2>5. \A j \in 1..Len(act) : /\ Range(b[j]) \cap (R \ {r}) = {}
                               /\ \A x \in Range(b[j]) : q[x] # NULL /\ x \notin done
    BY <2>1, <2>2, <1>6
  <2>6. DOMAIN b = 1..Len(act)
    OBVIOUS
  <2> QED BY <2>4, <2>5, <2>6, <1>7 DEF Apart
<1> QED BY <1>8

LEMMA ApartNew ==
  ASSUME NEW act \in Seq(Seq(Pbuf)), NEW q, NEW done, NEW R, Apart(act, q, done, R),
         NEW r \in Pbuf, r \in R, NEW b \in Seq(Seq(Pbuf)), Len(b) = Len(act) + 1,
         b[Len(act) + 1] = <<r>>, \A j \in 1..Len(act) : b[j] = act[j]
  PROVE  Apart(b, q, done, R \ {r})
<1>1. /\ DOMAIN act = 1..Len(act) /\ DOMAIN b = 1..Len(act) + 1 /\ Len(b) = Len(act) + 1
      /\ b \in Seq(Seq(Pbuf))
      /\ \A j \in 1..Len(act) : act[j] \in Seq(Pbuf) /\ b[j] = act[j]
      /\ b[Len(act) + 1] = <<r>>
  OBVIOUS
<1>2. <<r>> # <<>> /\ Range(<<r>>) = {r}
  BY DEF Range
<1>3. \A j \in 1..Len(act) + 1 : Range(b[j]) = IF j = Len(act) + 1 THEN {r} ELSE Range(act[j])
  <2>1. \A j \in 1..Len(act) + 1 : j # Len(act) + 1 => j \in 1..Len(act)
    OBVIOUS
  <2> QED BY <2>1, <1>1, <1>2
<1>4. \A j \in 1..Len(act) + 1 : b[j] # <<>>
  <2>1. \A j \in 1..Len(act) + 1 : j # Len(act) + 1 => j \in 1..Len(act)
    OBVIOUS
  <2> QED BY <2>1, <1>1, <1>2 DEF Apart
<1>5. \A j \in 1..Len(act) : r \notin Range(act[j])
  BY <1>1 DEF Apart
<1>6. Apart(b, q, done, R \ {r})
  <2>1. \A j, k \in DOMAIN b : j # k => Range(b[j]) \cap Range(b[k]) = {}
    <3>1. SUFFICES ASSUME NEW j \in 1..Len(act) + 1, NEW k \in 1..Len(act) + 1, j # k
                   PROVE  Range(b[j]) \cap Range(b[k]) = {}
      BY <1>1
    <3>2. CASE j = Len(act) + 1
      <4>1. k \in 1..Len(act)
        BY <3>1, <3>2
      <4>2. Range(b[j]) = {r} /\ Range(b[k]) = Range(act[k])
        BY <4>1, <3>1, <3>2, <1>3
      <4> QED BY <4>1, <4>2, <1>5
    <3>3. CASE k = Len(act) + 1
      <4>1. j \in 1..Len(act)
        BY <3>1, <3>3
      <4>2. Range(b[k]) = {r} /\ Range(b[j]) = Range(act[j])
        BY <4>1, <3>1, <3>3, <1>3
      <4> QED BY <4>1, <4>2, <1>5
    <3>4. CASE j # Len(act) + 1 /\ k # Len(act) + 1
      <4>1. j \in 1..Len(act) /\ k \in 1..Len(act)
        <5>1. Len(act) \in Nat
          OBVIOUS
        <5> QED BY <5>1, <3>4
      <4> QED BY <4>1, <3>1, <3>4, <1>1, <1>3 DEF Apart
    <3> QED BY <3>2, <3>3, <3>4
  <2>2. ASSUME NEW j \in DOMAIN b
        PROVE  /\ b[j] # <<>> /\ Range(b[j]) \cap (R \ {r}) = {}
               /\ \A x \in Range(b[j]) : q[x] # NULL /\ x \notin done
    <3>1. CASE j = Len(act) + 1
      BY <3>1, <1>1, <1>3, <1>4 DEF Apart
    <3>2. CASE j # Len(act) + 1
      <4>1. j \in 1..Len(act)
        BY <3>2, <2>2, <1>1
      <4> QED BY <4>1, <3>2, <2>2, <1>1, <1>3, <1>4 DEF Apart
    <3> QED BY <3>1, <3>2
  <2> QED BY <2>1, <2>2 DEF Apart
<1> QED BY <1>6

-----------------------------------------------------------------------------
(* What the activation of requests leaves alone, and what it changes only   *)
(* under a new number.                                                      *)
Activated(w, d) ==
  /\ d.pb = w.pb /\ d.ok = w.ok /\ d.err = w.err /\ d.woken = w.woken
  /\ d.vg.whl = w.vg.whl /\ d.vg.wheel_idx = w.vg.wheel_idx
  /\ d.vg.stop = w.vg.stop /\ d.vg.sa_lbuf = w.vg.sa_lbuf /\ d.vg.lsn = w.vg.lsn
  /\ d.vg.nukesa = w.vg.nukesa /\ d.vg.seq = w.vg.seq
  /\ Active(d.vg) \subseteq Active(w.vg)
  /\ w.vg.forcedoff => d.vg.forcedoff
  /\ w.updated => d.updated
  /\ ~d.updated => /\ d.vg.vgsa = w.vg.vgsa /\ d.vg.pvstate = w.vg.pvstate
                   /\ d.vg.whl_seq_num = w.vg.whl_seq_num /\ d.vg.forcedoff = w.vg.forcedoff

LEMMA ActivatedTwice ==
  ASSUME NEW w, NEW d, NEW e, Activated(w, d), Activated(d, e)
  PROVE  Activated(w, e)
BY DEF Activated

LEMMA PiggybackOK ==
  ASSUME NEW w \in Copy, NEW R, Apart(w.vg.act, w.pb, w.ok \cup w.err, R),
         NEW r \in Pbuf, r \in R, NEW k \in 1..Len(w.vg.act)
  PROVE  LET d == [w EXCEPT !.vg.act[k] = Append(@, r)]
         IN  /\ d \in Copy /\ Apart(d.vg.act, d.pb, d.ok \cup d.err, R \ {r}) /\ Activated(w, d)
             /\ d.updated = w.updated /\ d.vg.hld = w.vg.hld
             /\ Ready(w) => Ready(d)
<1> DEFINE g == w.vg
           b == [g.act EXCEPT ![k] = Append(@, r)]
           h == [g EXCEPT !.act = b]
           d == [w EXCEPT !.vg = h]
<1>1. g \in Group /\ g.act \in Seq(Seq(Pbuf))
  BY CopyFields, GroupFields
<1>2. /\ Apart(b, w.pb, w.ok \cup w.err, R \ {r}) /\ b \in Seq(Seq(Pbuf)) /\ Len(b) = Len(g.act)
      /\ \A j \in DOMAIN g.act : First(b[j]) = First(g.act[j])
  <2>1. Apart(g.act, w.pb, w.ok \cup w.err, R) /\ k \in 1..Len(g.act) /\ DOMAIN g.act = 1..Len(g.act)
    BY <1>1
  <2>2. \A j \in 1..Len(g.act) : g.act[j] \in Seq(Pbuf)
    BY <1>1
  <2>3. Append(g.act[k], r) \in Seq(Pbuf)
    BY <2>1, <2>2
  <2> HIDE DEF g
  <2>4. /\ b \in Seq(Seq(Pbuf)) /\ Len(b) = Len(g.act)
        /\ \A j \in 1..Len(g.act) : b[j] = IF j = k THEN Append(g.act[k], r) ELSE g.act[j]
    BY <1>1, <2>1, <2>3
  <2> HIDE DEF b
  <2> DEFINE A == g.act
             q == w.pb
             D == w.ok \cup w.err
  <2>5. /\ A \in Seq(Seq(Pbuf)) /\ Apart(A, q, D, R) /\ k \in 1..Len(A)
        /\ b \in Seq(Seq(Pbuf)) /\ Len(b) = Len(A)
        /\ \A j \in 1..Len(A) : b[j] = IF j = k THEN Append(A[k], r) ELSE A[j]
    BY <1>1, <2>1, <2>4
  <2> HIDE DEF A, q, D
  <2>6. Apart(b, q, D, R \ {r})
    BY <2>5, ApartAdd
  <2>7. ASSUME NEW j \in 1..Len(A) PROVE First(b[j]) = First(A[j])
    <3>1. A[j] \in Seq(Pbuf) /\ A[j] # <<>>
      BY <2>5, NotFirst
    <3>2. First(Append(A[j], r)) = First(A[j])
      BY <3>1, FirstAppend
    <3> QED BY <2>5, <3>2
  <2> QED BY <2>1, <2>4, <2>6, <2>7 DEF A, q, D
<1>3. [w EXCEPT !.vg.act[k] = Append(@, r)] = d
  OBVIOUS
<1> HIDE DEF b
<1>4. /\ h \in Group /\ h.act = b
      /\ h.whl = g.whl /\ h.wheel_idx = g.wheel_idx /\ h.whl_seq_num = g.whl_seq_num
      /\ h.hld = g.hld /\ h.stop = g.stop /\ h.sa_lbuf = g.sa_lbuf /\ h.vgsa = g.vgsa
      /\ h.lsn = g.lsn /\ h.nukesa = g.nukesa /\ h.seq = g.seq /\ h.pvstate = g.pvstate
      /\ h.forcedoff = g.forcedoff
  BY <1>1, <1>2 DEF Group
<1> HIDE DEF h
<1>5. /\ d \in Copy /\ d.vg = h /\ d.pb = w.pb /\ d.ok = w.ok /\ d.err = w.err
      /\ d.fresh = w.fresh /\ d.woken = w.woken /\ d.updated = w.updated
  BY <1>4 DEF Copy
<1> HIDE DEF d
<1>6. Active(h) = Active(g) /\ Near(h) = Near(g)
  BY <1>4 DEF Active, Near
<1>7. Activated(w, d)
  BY <1>4, <1>5, <1>6 DEF Activated
<1>8. \A s : Ahead(h, s) = Ahead(g, s) /\ Landing(h, s) = Landing(g, s) /\ Age(h, s) = Age(g, s)
  BY <1>4 DEF Ahead, Landing, Age
<1>9. DOMAIN h.act = DOMAIN g.act /\ Len(h.act) = Len(g.act) /\ (g.act = <<>> <=> h.act = <<>>)
  BY <1>1, <1>2, <1>4
<1>10. \A j \in DOMAIN g.act : First(h.act[j]) = First(g.act[j]) /\ StopAt(h, j) = StopAt(g, j)
  BY <1>2, <1>4, <1>8 DEF StopAt
<1>11. ASSUME Ready(w) PROVE Ready(d)
  <2>1. Ordered(h, d.fresh)
    BY <1>5, <1>9, <1>10, <1>11 DEF Ordered, Ready
  <2>2. Outdated(g, Landing) => Outdated(h, Landing)
    <3>1. g.act # <<>> => Len(g.act) \in DOMAIN g.act
      BY <1>1
    <3> QED BY <3>1, <1>4, <1>6, <1>8, <1>9, <1>10 DEF Outdated
  <2>3. \A n : Aged(g, Landing, n) => Aged(h, Landing, n)
    BY <1>6, <1>8 DEF Aged
  <2>4. AllOld(g) => AllOld(h)
    BY <1>4, <1>6 DEF AllOld
  <2> QED BY <1>4, <1>5, <1>11, <2>1, <2>2, <2>3, <2>4 DEF Ready
<1> QED BY <1>2, <1>3, <1>4, <1>5, <1>7, <1>11

LEMMA NewActiveOK ==
  ASSUME NEW w \in Copy, NEW R, Apart(w.vg.act, w.pb, w.ok \cup w.err, R),
         NEW r \in Pbuf, r \in R
  PROVE  LET e == [w EXCEPT !.vg.act = Append(@, <<r>>), !.fresh = @ \cup {r}]
             d == Apply(hd_sa_update(e), w.pb[r])
         IN  /\ d \in Copy /\ Apart(d.vg.act, d.pb, d.ok \cup d.err, R \ {r}) /\ Activated(w, d)
             /\ d.updated /\ d.vg.hld = w.vg.hld
             /\ Ready(w) /\ Wide => Ready(d)
<1> DEFINE g == w.vg
           b == Append(g.act, <<r>>)
           f == [g EXCEPT !.act = b]
           e == [w EXCEPT !.vg = f, !.fresh = @ \cup {r}]
           u == hd_sa_update(e)
           d == Apply(u, w.pb[r])
           h == d.vg
<1>1. g \in Group /\ g.act \in Seq(Seq(Pbuf))
  BY CopyFields, GroupFields
<1>2. /\ Apart(b, w.pb, w.ok \cup w.err, R \ {r}) /\ b \in Seq(Seq(Pbuf)) /\ Len(b) = Len(g.act) + 1
      /\ \A j \in 1..Len(g.act) : b[j] = g.act[j] /\ r # First(g.act[j])
      /\ First(b[Len(g.act) + 1]) = r
  <2>1. Apart(g.act, w.pb, w.ok \cup w.err, R)
    OBVIOUS
  <2> HIDE DEF g
  <2>2. /\ b \in Seq(Seq(Pbuf)) /\ Len(b) = Len(g.act) + 1 /\ b[Len(g.act) + 1] = <<r>>
        /\ \A j \in 1..Len(g.act) : b[j] = g.act[j]
    BY <1>1
  <2>3. First(b[Len(g.act) + 1]) = r
    BY <2>2 DEF First
  <2> HIDE DEF b
  <2> DEFINE A == g.act
             q == w.pb
             D == w.ok \cup w.err
  <2>4. /\ A \in Seq(Seq(Pbuf)) /\ Apart(A, q, D, R)
        /\ b \in Seq(Seq(Pbuf)) /\ Len(b) = Len(A) + 1 /\ b[Len(A) + 1] = <<r>>
        /\ \A j \in 1..Len(A) : b[j] = A[j]
    BY <1>1, <2>1, <2>2
  <2> HIDE DEF A, q, D
  <2>5. Apart(b, q, D, R \ {r})
    BY <2>4, ApartNew
  <2>6. ASSUME NEW j \in 1..Len(A) PROVE r # First(A[j])
    BY <2>4, NotFirst
  <2> QED BY <2>2, <2>3, <2>5, <2>6 DEF A, q, D
<1>3. [w EXCEPT !.vg.act = Append(@, <<r>>), !.fresh = @ \cup {r}] = e
  OBVIOUS
<1>4. w.pb[r] \in Request
  <2>1. w.pb[r] # NULL
    BY DEF Apart
  <2> QED BY <2>1, CopyFields DEF Asked
<1> HIDE DEF b
<1>5. /\ f \in Group /\ f.act = b
      /\ f.whl = g.whl /\ f.wheel_idx = g.wheel_idx /\ f.whl_seq_num = g.whl_seq_num
      /\ f.hld = g.hld /\ f.stop = g.stop /\ f.sa_lbuf = g.sa_lbuf /\ f.vgsa = g.vgsa
      /\ f.lsn = g.lsn /\ f.nukesa = g.nukesa /\ f.seq = g.seq /\ f.pvstate = g.pvstate
      /\ f.forcedoff = g.forcedoff
  BY <1>1, <1>2 DEF Group
<1> HIDE DEF f
<1>6. /\ e \in Copy /\ e.vg = f /\ e.pb = w.pb /\ e.ok = w.ok /\ e.err = w.err
      /\ e.fresh = w.fresh \cup {r} /\ e.woken = w.woken /\ e.updated = w.updated
  BY <1>5 DEF Copy
<1> HIDE DEF e
<1>7. /\ u \in Copy /\ u.updated /\ u.pb = w.pb /\ u.ok = w.ok /\ u.err = w.err
      /\ u.fresh = w.fresh \cup {r} /\ u.woken = w.woken
      /\ u.vg = [f EXCEPT !.whl_seq_num = u.vg.whl_seq_num]
      /\ u.vg.whl_seq_num = IF w.updated THEN g.whl_seq_num ELSE (g.whl_seq_num + 1) % SEQNUMS
  BY <1>5, <1>6, UpdateOK
<1> HIDE DEF u
<1>8. Marked(u, d)
  BY <1>4, <1>7, ApplyOK
<1> HIDE DEF d
<1>9. /\ u.vg.whl = f.whl /\ u.vg.wheel_idx = f.wheel_idx
      /\ u.vg.hld = f.hld /\ u.vg.act = f.act /\ u.vg.stop = f.stop /\ u.vg.sa_lbuf = f.sa_lbuf
      /\ u.vg.lsn = f.lsn /\ u.vg.nukesa = f.nukesa /\ u.vg.seq = f.seq
      /\ u.vg.forcedoff = f.forcedoff /\ Active(u.vg) = Active(f)
  BY <1>5, <1>7, NumberOnly
<1>10. Active(f) = Active(g)
  BY <1>5 DEF Active
<1>11. /\ d \in Copy /\ d.pb = w.pb /\ d.ok = w.ok /\ d.err = w.err /\ d.woken = w.woken
       /\ d.updated /\ d.fresh = w.fresh \cup {r} /\ h.act = b
       /\ h.whl = g.whl /\ h.wheel_idx = g.wheel_idx /\ h.hld = g.hld /\ h.stop = g.stop
       /\ h.sa_lbuf = g.sa_lbuf /\ h.lsn = g.lsn /\ h.nukesa = g.nukesa /\ h.seq = g.seq
       /\ h.whl_seq_num = IF w.updated THEN g.whl_seq_num ELSE (g.whl_seq_num + 1) % SEQNUMS
       /\ Active(h) \subseteq Active(g) /\ (g.forcedoff => h.forcedoff)
  BY <1>5, <1>7, <1>8, <1>9, <1>10 DEF Marked
<1>12. h \in Group
  BY <1>11, CopyFields
<1> HIDE DEF h
<1>13. Activated(w, d)
  BY <1>11 DEF Activated, h
<1>14. Near(h) \subseteq Near(g)
  BY <1>11 DEF Near
<1>15. \A s : Ahead(h, s) = Ahead(g, s) /\ Landing(h, s) = Landing(g, s)
  BY <1>11 DEF Ahead, Landing
<1>16. ASSUME Ordered(g, w.fresh) PROVE Ordered(h, d.fresh)
  <2> DEFINE n == Len(g.act)
  <2>1. n \in Nat /\ DOMAIN g.act = 1..n /\ DOMAIN h.act = 1..n + 1
    BY <1>1, <1>2, <1>11
  <2>2. First(h.act[n + 1]) \in d.fresh
    BY <1>2, <1>11
  <2>3. \A j \in 1..n : /\ First(h.act[j]) = First(g.act[j]) /\ StopAt(h, j) = StopAt(g, j)
                        /\ First(h.act[j]) \in d.fresh <=> First(g.act[j]) \in w.fresh
    <3>1. \A j \in 1..n : h.act[j] = g.act[j] /\ r # First(g.act[j])
      BY <2>1, <1>2, <1>11
    <3>2. \A j \in 1..n : StopAt(h, j) = StopAt(g, j)
      BY <3>1, <1>11, <1>15 DEF StopAt
    <3> QED BY <3>1, <3>2, <1>11
  <2> HIDE DEF n
  <2>4. SUFFICES ASSUME NEW i \in 1..n + 1, NEW j \in 1..n + 1, i <= j
                 PROVE  /\ First(h.act[i]) \in d.fresh => First(h.act[j]) \in d.fresh
                        /\ First(h.act[j]) \notin d.fresh => StopAt(h, i) <= StopAt(h, j)
    BY <2>1 DEF Ordered
  <2>5. CASE j = n + 1
    BY <2>2, <2>5
  <2>6. CASE j # n + 1
    <3>1. i \in 1..n /\ j \in 1..n
      BY <2>1, <2>4, <2>6
    <3> QED BY <3>1, <2>1, <2>3, <2>4, <1>16 DEF Ordered
  <2> QED BY <2>5, <2>6
<1>17. ASSUME Ready(w), Wide PROVE Ready(d)
  <2>1. Ordered(h, d.fresh)
    BY <1>16, <1>17 DEF Ready
  <2>2. ASSUME ~h.forcedoff PROVE Aged(h, Landing, 1) /\ AllOld(h)
    <3>1. CASE w.updated
      <4>1. AllOld(g) /\ Aged(g, Landing, 1) /\ h.whl_seq_num = g.whl_seq_num
        BY <1>11, <1>17, <2>2, <3>1 DEF Ready
      <4>2. \A s : Age(h, s) = Age(g, s)
        BY <1>11, <4>1 DEF Age
      <4> QED BY <1>11, <1>14, <1>15, <4>1, <4>2 DEF AllOld, Aged
    <3>2. CASE ~w.updated
      <4>1. Aged(g, Landing, 0) /\ h.whl_seq_num = (g.whl_seq_num + 1) % SEQNUMS
        BY <1>11, <1>17, <2>2, <3>2 DEF Ready
      <4>2. \A s \in Near(g) : s \in Sa /\ Age(g, s) \in Nat /\ Landing(g, s) \in 0..NSa - 1
        BY <1>1, NearIn, AheadIn
      <4>3. \A s \in Near(g) : Age(g, s) <= 2 * (NSa - Landing(g, s))
        BY <4>1, <4>2, Sizes DEF Aged
      <4>4. \A s \in Near(g) : Age(g, s) <= 2 * NSa
        BY <4>2, <4>3, Sizes
      <4>5. AllOld(h) /\ \A s \in Near(h) : Age(h, s) = Age(g, s) + 1
        BY <1>1, <1>11, <1>12, <1>14, <1>17, <4>1, <4>4, NewNumber
      <4>6. Aged(h, Landing, 1)
        BY <4>2, <4>3, <4>5, <1>14, <1>15, Sizes DEF Aged
      <4> QED BY <4>5, <4>6
    <3> QED BY <3>1, <3>2
  <2> QED BY <1>11, <2>1, <2>2 DEF Ready, h
<1> QED BY <1>2, <1>3, <1>11, <1>13, <1>17 DEF h, d, u

LEMMA ActivateOK ==
  ASSUME NEW w \in Copy, NEW R, Apart(w.vg.act, w.pb, w.ok \cup w.err, R),
         NEW r \in Pbuf, r \in R
  PROVE  LET d == Activate(w, r)
         IN  /\ d \in Copy /\ Apart(d.vg.act, d.pb, d.ok \cup d.err, R \ {r}) /\ Activated(w, d)
             /\ d.vg.hld = w.vg.hld
             /\ w.pb[r].type = "SA_CONFIGOP" => d.updated
             /\ Ready(w) /\ Wide => Ready(d)
<1> DEFINE act == w.vg.act
           like == {j \in DOMAIN act : Piggybacks(w.pb[act[j][1]], w.pb[r])}
<1>1. act \in Seq(Seq(Pbuf))
  BY CopyFields, GroupFields
<1>2. CASE like # {}
  <2> DEFINE k == Min(like)
  <2>1. like \in SUBSET Nat /\ \A j \in like : j \in 1..Len(act)
    BY <1>1
  <2>2. k \in like
    <3> HIDE DEF like
    <3> QED BY <1>2, <2>1, MinIn
  <2>3. k \in 1..Len(w.vg.act)
    BY <2>1, <2>2, Zenon
  <2>4. Activate(w, r) = [w EXCEPT !.vg.act[k] = Append(@, r)]
    BY <1>2 DEF Activate
  <2>5. w.pb[r].type # "SA_CONFIGOP"
    BY <1>2 DEF Piggybacks
  <2> HIDE DEF k
  <2> DEFINE d == [w EXCEPT !.vg.act[k] = Append(@, r)]
  <2>6. /\ d \in Copy /\ Apart(d.vg.act, d.pb, d.ok \cup d.err, R \ {r}) /\ Activated(w, d)
        /\ d.updated = w.updated /\ d.vg.hld = w.vg.hld
        /\ Ready(w) => Ready(d)
    BY ONLY <2>3, PiggybackOK, w \in Copy, Apart(w.vg.act, w.pb, w.ok \cup w.err, R), r \in Pbuf, r \in R, Zenon
  <2> HIDE DEF d
  <2> QED BY <2>4, <2>5, <2>6 DEF d
<1>3. CASE like = {}
  <2>1. Activate(w, r) = Apply(hd_sa_update([w EXCEPT !.vg.act = Append(@, <<r>>), !.fresh = @ \cup {r}]), w.pb[r])
    BY <1>3, Zenon DEF Activate
  <2> DEFINE e == [w EXCEPT !.vg.act = Append(@, <<r>>), !.fresh = @ \cup {r}]
             d == Apply(hd_sa_update(e), w.pb[r])
  <2>2. /\ d \in Copy /\ Apart(d.vg.act, d.pb, d.ok \cup d.err, R \ {r}) /\ Activated(w, d)
        /\ d.updated /\ d.vg.hld = w.vg.hld
        /\ Ready(w) /\ Wide => Ready(d)
    BY NewActiveOK, Zenon
  <2> HIDE DEF d
  <2> QED BY <2>1, <2>2 DEF d
<1> QED BY <1>2, <1>3

LEMMA MoveHeldOK ==
  ASSUME NEW w, Sane(w)
  PROVE  LET d == MoveHeld(w)
         IN  /\ Sane(d) /\ Activated(w, d) /\ d.vg.hld = <<>>
             /\ (\E i \in 1..Len(w.vg.hld) : w.pb[w.vg.hld[i]].type = "SA_CONFIGOP") => d.updated
             /\ Ready(w) /\ Wide => Ready(d)
<1> DEFINE hld == w.vg.hld
           n == Len(hld)
           IsMoved(h, k) == h = [i \in 0..k |-> IF i = 0 THEN w ELSE Activate(h[i - 1], hld[i])]
           T == {k \in 0..n : \E h : IsMoved(h, k)}
           f == CHOOSE h : IsMoved(h, n)
           Rest(k) == {hld[i] : i \in k + 1..n}
           Like(d, k) == /\ d \in Copy /\ Apart(d.vg.act, d.pb, d.ok \cup d.err, Rest(k))
                         /\ Activated(w, d) /\ d.vg.hld = hld
                         /\ \A i \in 1..k : w.pb[hld[i]].type = "SA_CONFIGOP" => d.updated
                         /\ Ready(w) /\ Wide => Ready(d)
           K == {k \in 0..n : Like(f[k], k)}
<1>1. w \in Copy /\ hld \in Seq(Pbuf) /\ n \in Nat /\ IsInjective(hld)
  BY CopyFields, GroupFields DEF Sane, Placed
<1>2. MoveHeld(w) = [f[n] EXCEPT !.vg.hld = <<>>]
  BY Zenon DEF MoveHeld
<1>3. DOMAIN hld = 1..n /\ \A i \in 1..n : hld[i] \in Pbuf
  BY <1>1
<1>4. \A i, j \in 1..n : hld[i] = hld[j] => i = j
  BY <1>1, <1>3 DEF IsInjective
<1> HIDE DEF n, hld
<1>5. T = 0..n
  <2>1. 0 \in T
    <3>1. IsMoved([i \in 0..0 |-> w], 0)
      OBVIOUS
    <3>2. 0 \in 0..n /\ \E h : IsMoved(h, 0)
      <4> HIDE DEF IsMoved
      <4> QED BY <1>1, <3>1
    <3> QED BY <3>2, Zenon
  <2>2. ASSUME NEW k \in 1..n, k - 1 \in T PROVE k \in T
    <3>1. PICK h : IsMoved(h, k - 1)
      BY <2>2, Zenon
    <3>2. k - 1 \in Nat /\ k \in 0..n
      BY <1>1
    <3> DEFINE x == [i \in 0..k |-> IF i = 0 THEN w ELSE Activate(h[i - 1], hld[i])]
    <3>3. ASSUME NEW i \in 0..(k - 1) PROVE x[i] = h[i]
      <4>1. h[i] = IF i = 0 THEN w ELSE Activate(h[i - 1], hld[i])
        BY <3>1
      <4>2. x[i] = IF i = 0 THEN w ELSE Activate(h[i - 1], hld[i])
        BY <3>2
      <4> QED BY <4>1, <4>2
    <3>4. ASSUME NEW i \in 0..k, i # 0 PROVE h[i - 1] = x[i - 1]
      <4>1. i - 1 \in 0..(k - 1)
        BY <3>4
      <4> HIDE DEF x
      <4> QED BY <3>3, <4>1
    <3>5. IsMoved(x, k)
      BY <3>4
    <3> HIDE DEF x, IsMoved
    <3> QED BY <3>2, <3>5
  <2> HIDE DEF T
  <2>3. T \in SUBSET (0..n)
    BY DEF T
  <2> QED BY <1>1, <2>1, <2>2, <2>3, IntervalInduction
<1>6. IsMoved(f, n)
  <2>1. n \in T
    <3> HIDE DEF T
    <3> QED BY <1>1, <1>5
  <2>2. \E h : IsMoved(h, n)
    BY <2>1, Zenon
  <2> QED BY <2>2, Zenon
<1> HIDE DEF f
<1>7. f[0] = w /\ \A k \in 1..n : f[k] = Activate(f[k - 1], hld[k])
  <2>1. 0 \in 0..n /\ \A k \in 1..n : k \in 0..n /\ k # 0
    BY <1>1
  <2> QED BY <1>6, <2>1
<1>8. Like(w, 0)
  <2>1. Rest(0) = Range(hld)
    BY <1>3 DEF Range
  <2>2. Apart(w.vg.act, w.pb, w.ok \cup w.err, Range(hld))
    BY <1>1, ApartSane DEF hld
  <2>3. Activated(w, w)
    BY DEF Activated
  <2>4. \A i \in 1..0 : FALSE
    OBVIOUS
  <2>5. w.vg.hld = hld
    BY DEF hld
  <2> HIDE DEF Rest
  <2> QED BY <1>1, <2>1, <2>2, <2>3, <2>4, <2>5
<1>9. ASSUME NEW k \in 1..n, Like(f[k - 1], k - 1) PROVE Like(f[k], k)
  <2> DEFINE d == f[k - 1]
             r == hld[k]
             e == Activate(d, r)
  <2>1. r \in Pbuf /\ r \in Rest(k - 1)
    <3>1. k \in (k - 1) + 1..n
      BY <1>1
    <3> QED BY <3>1, <1>3
  <2>2. Rest(k) = Rest(k - 1) \ {r}
    <3>1. (k - 1) + 1..n = {k} \cup (k + 1..n)
      BY <1>1
    <3>2. \A i \in k + 1..n : hld[i] # r
      BY <1>1, <1>4
    <3> QED BY <3>1, <3>2
  <2> HIDE DEF Rest
  <2>3. /\ d \in Copy /\ Apart(d.vg.act, d.pb, d.ok \cup d.err, Rest(k - 1))
        /\ Activated(w, d) /\ d.vg.hld = hld
        /\ \A i \in 1..k - 1 : w.pb[hld[i]].type = "SA_CONFIGOP" => d.updated
        /\ Ready(w) /\ Wide => Ready(d)
    BY <1>9
  <2>4. f[k] = e
    BY <1>7
  <2> HIDE DEF d, r
  <2>5. /\ e \in Copy /\ Apart(e.vg.act, e.pb, e.ok \cup e.err, Rest(k - 1) \ {r}) /\ Activated(d, e)
        /\ e.vg.hld = d.vg.hld
        /\ d.pb[r].type = "SA_CONFIGOP" => e.updated
        /\ Ready(d) /\ Wide => Ready(e)
    BY <2>1, <2>3, ActivateOK
  <2> HIDE DEF e
  <2>6. Activated(w, e)
    BY <2>3, <2>5, ActivatedTwice
  <2>7. ASSUME NEW i \in 1..k, w.pb[hld[i]].type = "SA_CONFIGOP" PROVE e.updated
    <3>1. CASE i = k
      BY <2>3, <2>5, <2>7, <3>1 DEF Activated, r
    <3>2. CASE i # k
      <4>1. i \in 1..k - 1
        BY <3>2, <1>1
      <4> QED BY <4>1, <2>3, <2>5, <2>7 DEF Activated
    <3> QED BY <3>1, <3>2
  <2> QED BY <2>2, <2>3, <2>4, <2>5, <2>6, <2>7
<1> HIDE DEF Like
<1>10. K = 0..n
  <2>1. 0 \in K
    BY <1>1, <1>7, <1>8
  <2>2. ASSUME NEW k \in 1..n, k - 1 \in K PROVE k \in K
    BY <2>2, <1>1, <1>9
  <2>3. K \in SUBSET (0..n)
    OBVIOUS
  <2> HIDE DEF K
  <2> QED BY <1>1, <2>1, <2>2, <2>3, IntervalInduction
<1>11. Like(f[n], n)
  <2>1. n \in K
    <3> HIDE DEF K
    <3> QED BY <1>1, <1>10
  <2> QED BY <2>1
<1> DEFINE m == f[n]
           h == [m.vg EXCEPT !.hld = <<>>]
           d == [m EXCEPT !.vg = h]
<1>12. /\ m \in Copy /\ Apart(m.vg.act, m.pb, m.ok \cup m.err, {})
       /\ Activated(w, m)
       /\ \A i \in 1..n : w.pb[hld[i]].type = "SA_CONFIGOP" => m.updated
       /\ Ready(w) /\ Wide => Ready(m)
  <2>1. Rest(n) = {}
    BY <1>1
  <2> HIDE DEF Rest
  <2> QED BY <2>1, <1>11 DEF Like
<1>13. MoveHeld(w) = d
  BY <1>2
<1> HIDE DEF m
<1>14. m.vg \in Group /\ <<>> \in Seq(Pbuf)
  BY <1>12, CopyFields
<1>15. /\ h \in Group /\ h.hld = <<>> /\ h.act = m.vg.act /\ h.stop = m.vg.stop
       /\ h.whl = m.vg.whl /\ h.wheel_idx = m.vg.wheel_idx /\ h.whl_seq_num = m.vg.whl_seq_num
       /\ h.sa_lbuf = m.vg.sa_lbuf /\ h.vgsa = m.vg.vgsa
       /\ h.lsn = m.vg.lsn /\ h.nukesa = m.vg.nukesa /\ h.seq = m.vg.seq /\ h.pvstate = m.vg.pvstate
       /\ h.forcedoff = m.vg.forcedoff
  BY <1>14 DEF Group
<1> HIDE DEF h
<1>16. /\ d \in Copy /\ d.vg = h /\ d.pb = m.pb /\ d.ok = m.ok /\ d.err = m.err
       /\ d.fresh = m.fresh /\ d.woken = m.woken /\ d.updated = m.updated
  BY <1>12, <1>15 DEF Copy
<1> HIDE DEF d
<1>17. Active(h) = Active(m.vg) /\ Near(h) = Near(m.vg)
  BY <1>15 DEF Active, Near
<1>18. Activated(w, d)
  BY <1>12, <1>15, <1>16, <1>17 DEF Activated
<1>19. IsInjective(<<>>) /\ Range(<<>>) = {}
  BY DEF IsInjective, Range
<1>20. Sane(d)
  BY <1>12, <1>15, <1>16, <1>19, ApartSane
<1>21. ASSUME Ready(m) PROVE Ready(d)
  <2>1. \A s : Ahead(h, s) = Ahead(m.vg, s) /\ Landing(h, s) = Landing(m.vg, s) /\ Age(h, s) = Age(m.vg, s)
    BY <1>15 DEF Ahead, Landing, Age
  <2>2. \A j : StopAt(h, j) = StopAt(m.vg, j)
    BY <1>15, <2>1 DEF StopAt
  <2>3. Ordered(h, d.fresh)
    BY <1>15, <1>16, <1>21, <2>2 DEF Ordered, Ready
  <2>4. Outdated(m.vg, Landing) => Outdated(h, Landing)
    BY <1>15, <1>17, <2>1, <2>2 DEF Outdated
  <2>5. (\A k : Aged(m.vg, Landing, k) => Aged(h, Landing, k)) /\ (AllOld(m.vg) => AllOld(h))
    BY <1>15, <1>17, <2>1 DEF Aged, AllOld
  <2> QED BY <1>15, <1>16, <1>21, <2>3, <2>4, <2>5 DEF Ready
<1> QED BY <1>12, <1>13, <1>15, <1>16, <1>18, <1>20, <1>21 DEF n, hld

-----------------------------------------------------------------------------
LEMMA Max0 ==
  ASSUME NEW n \in Nat, NEW S \in SUBSET (0..n), S # {}
  PROVE  Max(S) \in S /\ \A y \in S : Max(S) >= y
<1> DEFINE D == {n - x : x \in S}
<1>1. D \in SUBSET Nat /\ D # {}
  <2>1. \A x \in S : n - x \in Nat
    OBVIOUS
  <2> QED BY <2>1
<1>2. Min(D) \in D /\ \A y \in D : Min(D) <= y
  <2> HIDE DEF D
  <2> QED BY <1>1, MinIn
<1>3. PICK x \in S : Min(D) = n - x
  BY <1>2
<1>4. \A y \in S : n - y \in D
  OBVIOUS
<1> HIDE DEF D
<1>5. \A y \in S : x >= y
  <2>1. SUFFICES ASSUME NEW y \in S PROVE x >= y
    OBVIOUS
  <2>2. x \in 0..n /\ y \in 0..n
    OBVIOUS
  <2>3. n - x <= n - y
    BY <1>4, <1>2, <1>3
  <2> QED BY <2>2, <2>3
<1> QED BY <1>5, Zenon DEF Max

(* The SA at a distance, and the distance of an SA.                         *)
LEMMA AtAhead ==
  ASSUME NEW g \in Group
  PROVE  /\ \A n \in 1..NSa : (g.wheel_idx + n) % NSa \in Sa /\ Ahead(g, (g.wheel_idx + n) % NSa) = n
         /\ \A s \in Sa : (g.wheel_idx + Ahead(g, s)) % NSa = s
<1>1. g.wheel_idx \in 0..NSa - 1 /\ Sa = 0..NSa - 1 /\ NSa \in Nat \ {0}
  BY GroupFields, Sizes
<1>2. ASSUME NEW n \in 1..NSa
      PROVE  (g.wheel_idx + n) % NSa \in Sa /\ Ahead(g, (g.wheel_idx + n) % NSa) = n
  <2> DEFINE x == g.wheel_idx
             y == (g.wheel_idx + n) % NSa
  <2>1. y = IF x + n < NSa THEN x + n ELSE x + n - NSa
    BY <1>1, ModPlus
  <2>2. Ahead(g, y) = IF y > x THEN y - x ELSE y - x + NSa
    BY DEF Ahead
  <2>3. x \in Nat /\ x < NSa /\ NSa \in Nat /\ n \in Nat /\ 1 <= n /\ n <= NSa
    BY <1>1
  <2> HIDE DEF x, y
  <2>4. y \in Nat /\ y < NSa
    BY <2>1, <2>3
  <2>5. Ahead(g, y) = n
    BY <2>1, <2>2, <2>3
  <2> QED BY <2>4, <2>5, <1>1 DEF y
<1>3. ASSUME NEW s \in Sa PROVE (g.wheel_idx + Ahead(g, s)) % NSa = s
  <2> DEFINE x == g.wheel_idx
             n == Ahead(g, s)
  <2>1. n \in 1..NSa
    BY AheadIn
  <2>2. (x + n) % NSa = IF x + n < NSa THEN x + n ELSE x + n - NSa
    BY <1>1, <2>1, ModPlus
  <2>3. n = IF s > x THEN s - x ELSE s - x + NSa
    BY DEF Ahead
  <2>4. x \in Nat /\ x < NSa /\ NSa \in Nat /\ s \in Nat /\ s < NSa
    BY <1>1
  <2> HIDE DEF x, n
  <2>5. (x + n) % NSa = s
    BY <2>2, <2>3, <2>4
  <2> QED BY <2>5 DEF x, n
<1> QED BY <1>2, <1>3

LEMMA Shift ==
  ASSUME NEW g \in Group, NEW h \in Group, NEW n \in 1..NSa,
         h.wheel_idx = (g.wheel_idx + n) % NSa, NEW s \in Sa, Ahead(g, s) >= n
  PROVE  /\ Landing(h, s) = Ahead(g, s) - n
         /\ Ahead(g, s) > n => Ahead(h, s) = Ahead(g, s) - n
<1>1. g.wheel_idx \in 0..NSa - 1 /\ s \in 0..NSa - 1 /\ NSa \in Nat \ {0}
  BY GroupFields, Sizes
<1>2. h.wheel_idx = IF g.wheel_idx + n < NSa THEN g.wheel_idx + n ELSE g.wheel_idx + n - NSa
  BY <1>1, ModPlus
<1> DEFINE x == g.wheel_idx
           y == h.wheel_idx
           N == NSa
<1>3. /\ Ahead(g, s) = IF s > x THEN s - x ELSE s - x + N
      /\ Ahead(h, s) = IF s > y THEN s - y ELSE s - y + N
      /\ Landing(h, s) = IF s = y THEN 0 ELSE Ahead(h, s)
  BY DEF Ahead, Landing
<1>4. /\ x \in 0..N - 1 /\ s \in 0..N - 1 /\ N \in Nat \ {0} /\ n \in 1..N
      /\ y = IF x + n < N THEN x + n ELSE x + n - N
      /\ (IF s > x THEN s - x ELSE s - x + N) >= n
  BY <1>1, <1>2, <1>3
<1> HIDE DEF x, y, N
<1>5. CASE x + n < N
  BY <1>3, <1>4, <1>5
<1>6. CASE ~(x + n < N)
  BY <1>3, <1>4, <1>6
<1> QED BY <1>5, <1>6

LEMMA ApartSuffix ==
  ASSUME NEW act \in Seq(Seq(Pbuf)), NEW q, NEW done, NEW R, Apart(act, q, done, R),
         NEW n \in 0..Len(act), NEW b \in Seq(Seq(Pbuf)), Len(b) = Len(act) - n,
         \A j \in 1..Len(b) : b[j] = act[j + n]
  PROVE  /\ Apart(b, q, done \cup UNION {Range(act[j]) : j \in 1..n}, R)
         /\ UNION {Range(act[j]) : j \in 1..n} \subseteq Pbuf
<1>1. /\ DOMAIN act = 1..Len(act) /\ DOMAIN b = 1..Len(b) /\ Len(act) \in Nat /\ Len(b) \in Nat
      /\ \A j \in 1..Len(act) : act[j] \in Seq(Pbuf)
  OBVIOUS
<1>2. \A j \in 1..Len(b) : j + n \in 1..Len(act) /\ b[j] = act[j + n] /\ j + n \notin 1..n
  BY <1>1
<1>3. \A j \in 1..n : j \in 1..Len(act)
  BY <1>1
<1> DEFINE U == UNION {Range(act[j]) : j \in 1..n}
<1>4. \A x \in U : \E i \in 1..n : x \in Range(act[i])
  OBVIOUS
<1> HIDE DEF U
<1>5. /\ \A j \in 1..Len(act) : act[j] # <<>> /\ Range(act[j]) \cap R = {}
      /\ \A j, k \in 1..Len(act) : j # k => Range(act[j]) \cap Range(act[k]) = {}
      /\ \A j \in 1..Len(act) : \A r \in Range(act[j]) : q[r] # NULL /\ r \notin done
  BY <1>1 DEF Apart
<1>6. ASSUME NEW j \in 1..Len(b)
      PROVE  /\ b[j] # <<>> /\ Range(b[j]) \cap R = {}
             /\ \A r \in Range(b[j]) : q[r] # NULL /\ r \notin done \cup U
  <2>1. j + n \in 1..Len(act) /\ b[j] = act[j + n]
    BY <1>2
  <2>2. b[j] # <<>> /\ Range(b[j]) \cap R = {} /\ \A r \in Range(b[j]) : q[r] # NULL /\ r \notin done
    BY <2>1, <1>5
  <2>3. ASSUME NEW r \in Range(b[j]), r \in U PROVE FALSE
    <3>1. PICK i \in 1..n : r \in Range(act[i])
      BY <2>3, <1>4
    <3>2. i # j + n /\ i \in 1..Len(act)
      BY <1>2, <1>3
    <3> QED BY <3>1, <3>2, <2>1, <2>3, <1>5
  <2> QED BY <2>2, <2>3
<1>7. ASSUME NEW j \in 1..Len(b), NEW k \in 1..Len(b), j # k
      PROVE  Range(b[j]) \cap Range(b[k]) = {}
  <2>1. j + n # k + n
    BY <1>7, <1>1
  <2> QED BY <2>1, <1>2, <1>5
<1>8. ASSUME NEW x \in U PROVE q[x] # NULL /\ x \notin R /\ x \in Pbuf
  <2>1. PICK i \in 1..n : x \in Range(act[i])
    BY <1>4
  <2>2. i \in 1..Len(act) /\ act[i] \in Seq(Pbuf)
    BY <1>1, <1>3
  <2>3. Range(act[i]) \subseteq Pbuf
    BY <2>2, RangeIn
  <2> QED BY <2>1, <2>2, <2>3, <1>5
<1>9. (\A r \in R \cup done : q[r] # NULL) /\ R \cap done = {}
  BY DEF Apart
<1>10. Apart(b, q, done \cup U, R)
  BY <1>1, <1>6, <1>7, <1>8, <1>9 DEF Apart
<1> QED BY <1>8, <1>10 DEF U

(* The requests that have changed the memory image.  <<r, s>> is in G when  *)
(* the SA s carries what r asks for.  The SAs that the wheel has written    *)
(* since a request became active carry it: so do all that it will have      *)
(* passed when it gets to its stop.                                         *)
Begun(w) == w.ok \cup UNION {Range(l) : l \in Range(w.vg.act)}
Written(g, F, G) ==
  \A j \in DOMAIN g.act : First(g.act[j]) \notin F =>
    \A r \in Range(g.act[j]), s \in Active(g) :
      s # g.wheel_idx /\ Ahead(g, s) >= StopAt(g, j) => <<r, s>> \in G
Full(g, G) ==
  \A j \in DOMAIN g.act : \A r \in Range(g.act[j]), s \in Active(g) :
    Ahead(g, s) >= StopAt(g, j) => <<r, s>> \in G

(* hd_sa_whladv: what it leaves alone ...                                   *)
Advanced(w, d) ==
  /\ d.pb = w.pb /\ d.err = w.err /\ d.fresh = w.fresh /\ d.woken = w.woken
  /\ d.updated = w.updated
  /\ d.vg.whl = w.vg.whl /\ d.vg.whl_seq_num = w.vg.whl_seq_num /\ d.vg.hld = w.vg.hld
  /\ d.vg.stop = w.vg.stop /\ d.vg.sa_lbuf = w.vg.sa_lbuf /\ d.vg.seq = w.vg.seq
  /\ d.vg.vgsa = w.vg.vgsa /\ d.vg.pvstate = w.vg.pvstate /\ d.vg.forcedoff = w.vg.forcedoff
  /\ Active(d.vg) \subseteq Active(w.vg)

(* ... and where it gets to: an SA that is there, unless none is left and   *)
(* it is back where it was; the nearest one, and behind the stops of all    *)
(* requests that remain.                                                    *)
Lands(w, d) ==
  /\ \/ d.vg.wheel_idx \in Active(d.vg)
     \/ /\ d.vg.wheel_idx = w.vg.wheel_idx
        /\ Ordered(w.vg, w.fresh) => \A j \in DOMAIN d.vg.act : First(d.vg.act[j]) \in w.fresh
  /\ \A s \in Active(d.vg) : Landing(d.vg, s) < Ahead(w.vg, s)
  /\ Ordered(w.vg, w.fresh) => Ordered(d.vg, w.fresh)
  /\ Ordered(w.vg, w.fresh) /\ w.fresh = {} /\ Outdated(w.vg, Ahead) => Outdated(d.vg, Landing)

(* ... and what its passing makes true: the requests that it returns are on *)
(* all SAs, and those that remain on the ones that it has passed.           *)
Delivers(w, d) ==
  /\ Begun(d) \subseteq Begun(w)
  /\ w.vg.nukesa = {} =>
       /\ d.vg.nukesa = {} /\ d.vg.lsn = w.vg.lsn /\ Active(d.vg) = Active(w.vg)
       /\ \/ d.vg.wheel_idx \in Active(d.vg)
          \/ d.vg.wheel_idx = w.vg.wheel_idx /\ Active(d.vg) = {}
       /\ \A G : Full(w.vg, G) =>
            /\ \A r \in d.ok : r \in w.ok \/ \A s \in Active(d.vg) : <<r, s>> \in G
            /\ Ordered(w.vg, w.fresh) => Written(d.vg, w.fresh, G)

LEMMA Suffix ==
  ASSUME NEW T, NEW s \in Seq(T), NEW k \in 0..Len(s)
  PROVE  /\ SubSeq(s, k + 1, Len(s)) \in Seq(T) /\ Len(SubSeq(s, k + 1, Len(s))) = Len(s) - k
         /\ \A j \in 1..Len(s) - k : SubSeq(s, k + 1, Len(s))[j] = s[j + k]
OBVIOUS

LEMMA WhladvOK ==
  ASSUME NEW w, Sane(w)
  PROVE  LET d == hd_sa_whladv(w)
         IN  Sane(d) /\ Advanced(w, d) /\ Lands(w, d) /\ Delivers(w, d)
<1> DEFINE g == w.vg
           At(n) == (g.wheel_idx + n) % NSa
           found == {n \in 1..NSa : Usable(g, At(n))}
           last == IF found = {} THEN NSa ELSE Min(found)
           Passed(j) == CHOOSE n \in 1..NSa : At(n) = g.stop[g.act[j][1]]
           Ends(k) == \A j \in 1..k : /\ Passed(j) <= last
                                      /\ j > 1 => Passed(j - 1) <= Passed(j)
           E == {k \in 0..Len(g.act) : Ends(k)}
           done == Max(E)
           nuked == {At(n) : n \in 1..last} \cap g.lsn \cap g.nukesa
           act == SubSeq(g.act, done + 1, Len(g.act))
           U == UNION {Range(g.act[j]) : j \in 1..done}
           h == [g EXCEPT !.wheel_idx = At(last), !.act = act, !.lsn = @ \ nuked, !.nukesa = @ \ nuked]
           d == [w EXCEPT !.vg = h, !.ok = @ \cup U]
<1>1. /\ w \in Copy /\ g \in Group /\ g.act \in Seq(Seq(Pbuf)) /\ IsInjective(g.hld)
      /\ Apart(g.act, w.pb, w.ok \cup w.err, Range(g.hld)) /\ g.stop \in [Pbuf -> Sa]
      /\ Len(g.act) \in Nat /\ NSa \in Nat \ {0}
  <2>1. w \in Copy
    BY DEF Sane
  <2>2. IsInjective(g.hld) /\ Apart(g.act, w.pb, w.ok \cup w.err, Range(g.hld))
    BY <2>1, ApartSane
  <2>3. w.vg \in Group
    BY <2>1, CopyFields
  <2>4. w.vg.act \in Seq(Seq(Pbuf)) /\ w.vg.stop \in [Pbuf -> Sa]
    BY <2>3, GroupFields
  <2>5. Len(w.vg.act) \in Nat
    BY <2>4
  <2> QED BY <2>1, <2>2, <2>3, <2>4, <2>5, Sizes
<1>2. hd_sa_whladv(w) = d
  BY Zenon DEF hd_sa_whladv
<1>3. /\ \A n \in 1..NSa : At(n) \in Sa /\ Ahead(g, At(n)) = n
      /\ \A s \in Sa : At(Ahead(g, s)) = s /\ Ahead(g, s) \in 1..NSa
  BY <1>1, AtAhead, AheadIn
<1>4. \A j \in 1..Len(g.act) : First(g.act[j]) \in Pbuf /\ g.stop[First(g.act[j])] \in Sa
  <2>1. \A j \in 1..Len(g.act) : First(g.act[j]) \in Pbuf
    <3>1. Placed(g, w.pb) /\ DOMAIN g.act = 1..Len(g.act)
      BY <1>1 DEF Sane
    <3> QED BY <1>1, <3>1, Heads
  <2> QED BY <1>1, <2>1
<1>5. \A j \in 1..Len(g.act) : Passed(j) = StopAt(g, j) /\ StopAt(g, j) \in 1..NSa
  <2>1. SUFFICES ASSUME NEW j \in 1..Len(g.act)
                 PROVE  Passed(j) = StopAt(g, j) /\ StopAt(g, j) \in 1..NSa
    OBVIOUS
  <2> DEFINE s == g.stop[First(g.act[j])]
  <2>2. s \in Sa
    BY <1>4
  <2>3. Passed(j) = CHOOSE n \in 1..NSa : At(n) = s
    BY DEF First
  <2> HIDE DEF s, At
  <2>4. \A n \in 1..NSa : At(n) = s <=> n = Ahead(g, s)
    BY <1>3, <2>2
  <2>5. Ahead(g, s) \in 1..NSa
    BY <1>3, <2>2
  <2>6. (CHOOSE n \in 1..NSa : At(n) = s) = Ahead(g, s)
    BY <2>4, <2>5
  <2> HIDE DEF Passed
  <2> QED BY <2>3, <2>5, <2>6 DEF StopAt, s
<1> HIDE DEF At, Passed
<1>6. /\ last \in 1..NSa
      /\ \A n \in 1..NSa : Usable(g, At(n)) => last <= n
      /\ Usable(g, At(last)) \/ last = NSa
  <2>1. found \in SUBSET Nat /\ \A n \in found : n \in 1..NSa
    BY <1>1
  <2>2. CASE found = {}
    BY <2>2, <1>1
  <2>3. CASE found # {}
    <3>1. Min(found) \in found /\ \A y \in found : Min(found) <= y
      <4> HIDE DEF found
      <4> QED BY <2>1, <2>3, MinIn
    <3> QED BY <2>3, <3>1
  <2> QED BY <2>2, <2>3
<1> HIDE DEF last
<1>7. done \in 0..Len(g.act) /\ Ends(done) /\ \A k \in 0..Len(g.act) : Ends(k) => k <= done
  <2>1. 0 \in E /\ E \in SUBSET (0..Len(g.act))
    BY <1>1
  <2>2. done \in E /\ \A k \in E : done >= k
    <3> HIDE DEF E
    <3> QED BY <1>1, <2>1, Max0
  <2>3. \A k \in E : done \in Int /\ k \in Int
    BY <2>1, <2>2, <1>1
  <2> HIDE DEF Ends, done
  <2> QED BY <2>2, <2>3
<1> HIDE DEF done
<1>8. /\ act \in Seq(Seq(Pbuf)) /\ Len(act) = Len(g.act) - done
      /\ \A j \in 1..Len(act) : act[j] = g.act[j + done] /\ j + done \in 1..Len(g.act)
  <2> DEFINE A == g.act
             n == Len(A)
  <2>1. A \in Seq(Seq(Pbuf)) /\ n \in Nat /\ done \in 0..n
    BY <1>1, <1>7
  <2>2. act = SubSeq(A, done + 1, n)
    OBVIOUS
  <2> HIDE DEF act, n, A
  <2>3. /\ SubSeq(A, done + 1, n) \in Seq(Seq(Pbuf)) /\ Len(SubSeq(A, done + 1, n)) = n - done
        /\ \A j \in 1..n - done : SubSeq(A, done + 1, n)[j] = A[j + done]
    BY <2>1, Suffix DEF n
  <2>4. /\ act \in Seq(Seq(Pbuf)) /\ Len(act) = n - done
        /\ \A j \in 1..n - done : act[j] = A[j + done]
    BY <2>2, <2>3, Zenon
  <2>5. \A j \in 1..n - done : j + done \in 1..n
    BY <2>1
  <2> QED BY <2>4, <2>5 DEF n, A
<1> HIDE DEF act
<1>9. Apart(act, w.pb, (w.ok \cup w.err) \cup U, Range(g.hld)) /\ U \subseteq Pbuf
  BY <1>1, <1>7, <1>8, ApartSuffix
<1> HIDE DEF U
<1>10. /\ h \in Group /\ h.wheel_idx = At(last) /\ h.act = act /\ h.lsn = g.lsn \ nuked
       /\ h.nukesa = g.nukesa \ nuked /\ h.hld = g.hld /\ h.stop = g.stop /\ h.whl = g.whl
       /\ h.whl_seq_num = g.whl_seq_num /\ h.sa_lbuf = g.sa_lbuf /\ h.vgsa = g.vgsa
       /\ h.seq = g.seq /\ h.pvstate = g.pvstate /\ h.forcedoff = g.forcedoff
  <2>1. g.lsn \ nuked \in SUBSET Sa /\ g.nukesa \ nuked \in SUBSET Sa
    BY <1>1, GroupFields
  <2>2. At(last) \in Sa
    BY <1>3, <1>6
  <2> HIDE DEF nuked
  <2> QED BY <1>1, <1>8, <2>1, <2>2 DEF Group
<1> HIDE DEF h
<1>11. /\ d \in Copy /\ d.vg = h /\ d.pb = w.pb /\ d.ok = w.ok \cup U /\ d.err = w.err
       /\ d.fresh = w.fresh /\ d.woken = w.woken /\ d.updated = w.updated
  BY <1>1, <1>9, <1>10 DEF Copy
<1> HIDE DEF d
<1>12. Active(h) = Active(g) \ nuked
  BY <1>10 DEF Active
<1>13. Advanced(w, d)
  BY <1>10, <1>11, <1>12 DEF Advanced
<1>14. Sane(d)
  <2>1. (w.ok \cup w.err) \cup U = d.ok \cup d.err
    BY <1>11
  <2>2. Apart(d.vg.act, d.pb, d.ok \cup d.err, Range(d.vg.hld)) /\ IsInjective(d.vg.hld)
    BY <1>1, <1>9, <1>10, <1>11, <2>1
  <2> QED BY <1>11, <2>2, ApartSane
<1>15. \A s \in Active(h) : s \in Sa /\ Ahead(g, s) >= last
  <2>1. SUFFICES ASSUME NEW s \in Active(h), ~(Ahead(g, s) >= last) PROVE FALSE
    BY <1>10, NearIn
  <2>2. s \in Active(g) /\ s \notin nuked /\ s \in Sa
    BY <1>1, <1>12, NearIn
  <2> DEFINE n == Ahead(g, s)
  <2>3. n \in 1..NSa /\ At(n) = s
    BY <1>3, <2>2
  <2> HIDE DEF n
  <2>4. n \in 1..last /\ ~(last <= n)
    BY <1>6, <2>1, <2>3 DEF n
  <2>5. s \notin g.nukesa
    BY <2>2, <2>3, <2>4 DEF Active
  <2>6. Usable(g, At(n))
    BY <2>2, <2>3, <2>5 DEF Usable
  <2> QED BY <1>6, <2>3, <2>4, <2>6
<1>16. /\ \A s \in Sa : Ahead(g, s) >= last => Landing(h, s) = Ahead(g, s) - last
       /\ \A s \in Sa : Ahead(g, s) > last => Ahead(h, s) = Ahead(g, s) - last
  <2>1. h.wheel_idx = (g.wheel_idx + last) % NSa
    BY <1>10 DEF At
  <2>2. \A s \in Sa : Ahead(g, s) \in Int /\ last \in Int
    BY <1>3, <1>6
  <2> QED BY <1>1, <1>6, <1>10, <2>1, <2>2, Shift
<1>17. ASSUME Ordered(g, w.fresh), NEW j \in 1..Len(act), First(act[j]) \notin w.fresh
       PROVE  StopAt(g, j + done) > last /\ StopAt(h, j) = StopAt(g, j + done) - last
  <2> DEFINE k == j + done
  <2>1. k \in 1..Len(g.act) /\ act[j] = g.act[k] /\ ~(k <= done) /\ First(g.act[k]) \notin w.fresh
    <3>1. j \in Nat \ {0} /\ done \in Nat
      BY <1>1, <1>7, <1>8
    <3>2. ~(j + done <= done)
      BY <3>1
    <3> QED BY <3>2, <1>8, <1>17
  <2> HIDE DEF k
  <2>2. \A i \in 1..k : i \in 1..Len(g.act) /\ (i > 1 => i - 1 \in 1..Len(g.act) /\ i - 1 <= i)
    BY <2>1, <1>1
  <2>3. \A i \in 1..k : First(g.act[i]) \notin w.fresh /\ StopAt(g, i) <= StopAt(g, k)
    <3>1. DOMAIN g.act = 1..Len(g.act)
      BY <1>1
    <3>2. \A i \in 1..k : i <= k
      BY <2>1
    <3> QED BY <1>17, <2>1, <2>2, <3>1, <3>2 DEF Ordered
  <2>4. \A i \in 1..k : i > 1 => StopAt(g, i - 1) <= StopAt(g, i)
    <3>1. DOMAIN g.act = 1..Len(g.act)
      BY <1>1
    <3> QED BY <1>17, <2>2, <2>3, <3>1 DEF Ordered
  <2>5. StopAt(g, k) > last
    <3>1. SUFFICES ASSUME ~(StopAt(g, k) > last) PROVE Ends(k)
      BY <1>7, <2>1
    <3>2. SUFFICES ASSUME NEW i \in 1..k
                   PROVE  Passed(i) <= last /\ (i > 1 => Passed(i - 1) <= Passed(i))
      OBVIOUS
    <3>3. StopAt(g, i) \in Int /\ StopAt(g, k) \in Int /\ last \in Int /\ Passed(i) = StopAt(g, i)
      BY <1>5, <1>6, <2>1, <2>2
    <3>4. Passed(i) <= last
      BY <2>3, <3>1, <3>3
    <3>5. i > 1 => Passed(i - 1) <= Passed(i)
      BY <1>5, <2>2, <2>4
    <3> QED BY <3>4, <3>5
  <2> DEFINE s == g.stop[First(g.act[k])]
  <2>6. s \in Sa
    BY <1>4, <2>1
  <2>7. StopAt(g, k) = Ahead(g, s) /\ StopAt(h, j) = Ahead(h, s)
    BY <1>10, <2>1 DEF StopAt
  <2> HIDE DEF s
  <2> QED BY <1>16, <2>5, <2>6, <2>7 DEF k
<1>18. DOMAIN act = 1..Len(act) /\ Len(act) \in Nat /\ done \in Nat
  BY <1>1, <1>7, <1>8
<1>19. \/ h.wheel_idx \in Active(h)
       \/ /\ h.wheel_idx = g.wheel_idx
          /\ Ordered(g, w.fresh) => \A j \in DOMAIN act : First(act[j]) \in w.fresh
  <2>1. CASE Usable(g, At(last))
    <3>1. At(last) \in Active(g) /\ At(last) \notin nuked
      BY <2>1 DEF Usable
    <3> QED BY <3>1, <1>10, <1>12
  <2>2. CASE last = NSa
    <3>1. At(NSa) = g.wheel_idx
      <4>1. g.wheel_idx \in Sa /\ Ahead(g, g.wheel_idx) = NSa
        BY <1>1, GroupFields, AheadIn
      <4> QED BY <4>1, <1>3
    <3>2. ASSUME Ordered(g, w.fresh), NEW j \in 1..Len(act), First(act[j]) \notin w.fresh PROVE FALSE
      <4>1. StopAt(g, j + done) > NSa /\ j + done \in 1..Len(g.act)
        BY <3>2, <1>17, <1>8, <2>2
      <4>2. StopAt(g, j + done) \in 1..NSa
        BY <4>1, <1>5
      <4> QED BY <4>1, <4>2, <1>1
    <3> QED BY <3>1, <3>2, <2>2, <1>10, <1>18
  <2> QED BY <2>1, <2>2, <1>6
<1>20. \A s \in Active(h) : Landing(h, s) < Ahead(g, s)
  <2>1. SUFFICES ASSUME NEW s \in Active(h) PROVE Landing(h, s) < Ahead(g, s)
    OBVIOUS
  <2>2. s \in Sa /\ Ahead(g, s) \in Int /\ last \in 1..NSa /\ Landing(h, s) = Ahead(g, s) - last
    BY <1>3, <1>6, <1>15, <1>16
  <2> QED BY <2>2
<1>21. ASSUME Ordered(g, w.fresh) PROVE Ordered(h, w.fresh)
  <2>1. SUFFICES ASSUME NEW i \in 1..Len(act), NEW j \in 1..Len(act), i <= j
                 PROVE  /\ First(act[i]) \in w.fresh => First(act[j]) \in w.fresh
                        /\ First(act[j]) \notin w.fresh => StopAt(h, i) <= StopAt(h, j)
    BY <1>10, <1>18 DEF Ordered
  <2>2. /\ i + done \in 1..Len(g.act) /\ j + done \in 1..Len(g.act) /\ i + done <= j + done
        /\ act[i] = g.act[i + done] /\ act[j] = g.act[j + done] /\ DOMAIN g.act = 1..Len(g.act)
    <3>1. i + done <= j + done
      BY <1>18, <2>1
    <3>2. DOMAIN g.act = 1..Len(g.act)
      BY <1>1
    <3> QED BY <1>8, <3>1, <3>2
  <2>3. /\ First(act[i]) \in w.fresh => First(act[j]) \in w.fresh
        /\ First(act[j]) \notin w.fresh => StopAt(g, i + done) <= StopAt(g, j + done)
    BY <1>21, <2>2 DEF Ordered
  <2>4. ASSUME First(act[j]) \notin w.fresh PROVE StopAt(h, i) <= StopAt(h, j)
    <3>1. First(act[i]) \notin w.fresh
      BY <2>3, <2>4
    <3>2. /\ StopAt(h, i) = StopAt(g, i + done) - last
          /\ StopAt(h, j) = StopAt(g, j + done) - last
      BY <1>17, <1>21, <2>4, <3>1
    <3>3. StopAt(g, i + done) \in Int /\ StopAt(g, j + done) \in Int /\ last \in Int
      BY <1>5, <1>6, <2>2
    <3> QED BY <2>3, <2>4, <3>2, <3>3
  <2> QED BY <2>3, <2>4
<1>22. ASSUME Ordered(g, w.fresh), w.fresh = {}, Outdated(g, Ahead) PROVE Outdated(h, Landing)
  <2>1. SUFFICES ASSUME act # <<>>, NEW s \in Active(h), Landing(h, s) < StopAt(h, Len(act))
                 PROVE  g.seq[s] # g.whl_seq_num
    BY <1>10 DEF Outdated
  <2>2. Len(act) \in 1..Len(act)
    BY <2>1, <1>8, <1>18
  <2>3. StopAt(h, Len(act)) = StopAt(g, Len(act) + done) - last
    BY <1>17, <1>22, <2>2
  <2>4. Len(act) + done = Len(g.act) /\ g.act # <<>> /\ Len(g.act) \in 1..Len(g.act)
    BY <1>1, <1>8, <1>18, <2>2
  <2>5. s \in Active(g) /\ s \in Sa /\ Ahead(g, s) \in Int /\ last \in Int /\ Landing(h, s) = Ahead(g, s) - last
    BY <1>3, <1>6, <1>12, <1>15, <1>16
  <2>6. StopAt(g, Len(g.act)) \in Int
    BY <1>5, <2>4
  <2>7. Ahead(g, s) < StopAt(g, Len(g.act))
    BY <2>1, <2>3, <2>4, <2>5, <2>6
  <2> QED BY <2>4, <2>5, <2>7, <1>22 DEF Outdated
<1>23. Lands(w, d)
  BY <1>10, <1>11, <1>19, <1>20, <1>21, <1>22 DEF Lands
<1>24. ASSUME g.nukesa = {}
       PROVE  /\ h.nukesa = {} /\ h.lsn = g.lsn /\ Active(h) = Active(g)
              /\ \/ h.wheel_idx \in Active(h)
                 \/ h.wheel_idx = g.wheel_idx /\ Active(h) = {}
  <2>1. nuked = {}
    BY <1>24
  <2>2. h.nukesa = {} /\ h.lsn = g.lsn /\ Active(h) = Active(g)
    BY <1>10, <1>12, <1>24, <2>1
  <2>3. CASE Usable(g, At(last))
    BY <2>2, <2>3, <1>10 DEF Usable
  <2>4. CASE ~Usable(g, At(last))
    <3>1. last = NSa
      BY <1>6, <2>4
    <3>2. g.wheel_idx \in Sa /\ Ahead(g, g.wheel_idx) = NSa
      BY <1>1, GroupFields, AheadIn
    <3>3. At(NSa) = g.wheel_idx
      BY <3>2, <1>3
    <3>4. ASSUME NEW s \in Active(g) PROVE FALSE
      <4>1. s \in Sa /\ Usable(g, s)
        BY <1>1, <1>24, <3>4, NearIn DEF Usable
      <4>2. At(Ahead(g, s)) = s /\ Ahead(g, s) \in 1..NSa
        BY <1>3, <4>1
      <4>3. NSa <= Ahead(g, s)
        BY <1>6, <3>1, <4>1, <4>2
      <4>4. Ahead(g, s) = NSa
        BY <1>1, <4>2, <4>3
      <4> QED BY <2>4, <3>1, <4>1, <4>2, <4>4
    <3> QED BY <1>10, <2>2, <3>1, <3>3, <3>4
  <2> QED BY <2>2, <2>3, <2>4
<1>25. \A x : x \in U <=> \E j \in 1..done : x \in Range(g.act[j])
  BY DEF U
<1>26. Begun(d) \subseteq Begun(w)
  <2>1. \A x : x \in Begun(w) <=> x \in w.ok \/ \E j \in 1..Len(g.act) : x \in Range(g.act[j])
    <3>1. Range(g.act) = {g.act[j] : j \in 1..Len(g.act)}
      BY <1>1 DEF Range
    <3> HIDE DEF g
    <3> QED BY <3>1 DEF Begun, g
  <2>2. \A x : x \in Begun(d) <=> x \in d.ok \/ \E j \in 1..Len(act) : x \in Range(act[j])
    <3>1. Range(act) = {act[j] : j \in 1..Len(act)}
      BY <1>18 DEF Range
    <3>2. d.vg.act = act
      BY <1>10, <1>11
    <3> QED BY <3>1, <3>2 DEF Begun
  <2>3. \A j \in 1..done : j \in 1..Len(g.act)
    BY <1>1, <1>7
  <2> QED BY <1>8, <1>11, <1>25, <2>1, <2>2, <2>3
<1>27. ASSUME g.nukesa = {}, NEW G, Full(g, G), NEW r \in U, NEW s \in Active(h)
       PROVE  <<r, s>> \in G
  <2>1. PICK j \in 1..done : r \in Range(g.act[j])
    BY <1>25, <1>27
  <2>2. j \in 1..Len(g.act) /\ DOMAIN g.act = 1..Len(g.act)
    BY <1>1, <1>7
  <2>3. StopAt(g, j) <= last
    <3>1. Passed(j) <= last
      BY <1>7
    <3> QED BY <3>1, <2>2, <1>5
  <2>4. s \in Active(g) /\ Ahead(g, s) >= last /\ s \in Sa
    BY <1>15, <1>24, <1>27
  <2>5. Ahead(g, s) >= StopAt(g, j)
    BY <2>2, <2>3, <2>4, <1>3, <1>5, <1>6
  <2> QED BY <1>27, <2>1, <2>2, <2>4, <2>5 DEF Full
<1>28. ASSUME g.nukesa = {}, Ordered(g, w.fresh), NEW G, Full(g, G)
       PROVE  Written(h, w.fresh, G)
  <2> SUFFICES ASSUME NEW j \in 1..Len(act), First(act[j]) \notin w.fresh,
                      NEW r \in Range(act[j]), NEW s \in Active(h),
                      s # h.wheel_idx, Ahead(h, s) >= StopAt(h, j)
               PROVE  <<r, s>> \in G
    BY <1>10, <1>18 DEF Written
  <2>1. /\ StopAt(h, j) = StopAt(g, j + done) - last /\ act[j] = g.act[j + done]
        /\ j + done \in 1..Len(g.act) /\ DOMAIN g.act = 1..Len(g.act)
    BY <1>1, <1>8, <1>17, <1>28
  <2>2. s \in Active(g) /\ s \in Sa /\ Ahead(g, s) >= last
    BY <1>15, <1>24, <1>28
  <2>3. Ahead(g, s) # last
    <3>1. At(Ahead(g, s)) = s
      BY <1>3, <2>2
    <3> QED BY <3>1, <1>10
  <2>4. Ahead(g, s) \in Int /\ last \in Int /\ StopAt(g, j + done) \in Int
    BY <1>3, <1>5, <1>6, <2>1, <2>2
  <2>5. Ahead(h, s) = Ahead(g, s) - last
    BY <1>16, <2>2, <2>3, <2>4
  <2>6. Ahead(g, s) >= StopAt(g, j + done)
    BY <2>1, <2>4, <2>5
  <2> QED BY <1>28, <2>1, <2>2, <2>6 DEF Full
<1>29. Delivers(w, d)
  <2>1. \A r \in d.ok : r \in w.ok \/ r \in U
    BY <1>11
  <2> QED BY <1>10, <1>11, <1>24, <1>26, <1>27, <1>28, <2>1 DEF Delivers
<1> QED BY <1>2, <1>13, <1>14, <1>23, <1>29

-----------------------------------------------------------------------------
(* Fewer SAs, and nothing else that the turn of the wheel depends on.       *)
Fewer(g, h) ==
  /\ h.whl_seq_num = g.whl_seq_num /\ h.wheel_idx = g.wheel_idx /\ h.act = g.act
  /\ h.seq = g.seq /\ h.sa_lbuf = g.sa_lbuf /\ h.vgsa = g.vgsa
  /\ Active(h) \subseteq Active(g)
  /\ g.forcedoff => h.forcedoff
  /\ \A j \in DOMAIN g.act : h.stop[First(g.act[j])] = g.stop[First(g.act[j])]

LEMMA FewerOK ==
  ASSUME NEW g \in Group, NEW h, Fewer(g, h)
  PROVE  /\ Spinning(g) => Spinning(h)
         /\ \A D : Current(g, D) => Current(h, D)
         /\ \A X : Levelled(g, X) => Levelled(h, X)
<1>1. \A s : Ahead(h, s) = Ahead(g, s) /\ Landing(h, s) = Landing(g, s) /\ Age(h, s) = Age(g, s)
  BY DEF Fewer, Ahead, Landing, Age
<1>2. \A j \in DOMAIN g.act : StopAt(h, j) = StopAt(g, j)
  BY <1>1 DEF Fewer, StopAt
<1>3. Near(h) \subseteq Near(g) /\ Active(h) \subseteq Active(g)
  BY DEF Fewer, Near
<1>4. g.act # <<>> => Len(g.act) \in DOMAIN g.act
  <2>1. g.act \in Seq(Seq(Pbuf))
    BY GroupFields
  <2> QED BY <2>1
<1>5. Ordered(g, {}) => Ordered(h, {})
  BY <1>2 DEF Ordered, Fewer
<1>6. /\ Outdated(g, Landing) => Outdated(h, Landing)
      /\ Outdated(g, Ahead) => Outdated(h, Ahead)
  BY <1>1, <1>2, <1>3, <1>4 DEF Outdated, Fewer
<1>7. \A n : (Aged(g, Landing, n) => Aged(h, Landing, n)) /\ (Aged(g, Ahead, n) => Aged(h, Ahead, n))
  BY <1>1, <1>3 DEF Aged
<1>8. Spinning(g) => Spinning(h)
  BY <1>5, <1>6, <1>7 DEF Spinning, Fewer
<1>9. \A D : Current(g, D) => Current(h, D)
  BY <1>3 DEF Current, Fewer
<1>10. \A X : Levelled(g, X) => Levelled(h, X)
  <2>1. /\ Active(h) \subseteq Active(g) /\ h.seq = g.seq /\ h.whl_seq_num = g.whl_seq_num
        /\ h.sa_lbuf = g.sa_lbuf /\ (g.forcedoff => h.forcedoff)
    BY DEF Fewer
  <2>2. \A X : Even(g, Landing, X) => Even(h, Landing, X)
    BY <1>1, <2>1 DEF Even
  <2>3. \A X : Even(g, Ahead, X) => Even(h, Ahead, X)
    BY <1>1, <2>1 DEF Even
  <2> QED BY <2>1, <2>2, <2>3 DEF Levelled
<1> QED BY <1>8, <1>9, <1>10

LEMMA SaneSame ==
  ASSUME NEW w, Sane(w), NEW d \in Copy, d.pb = w.pb, d.ok \cup d.err = w.ok \cup w.err,
         d.vg.hld = w.vg.hld, d.vg.act = w.vg.act
  PROVE  Sane(d)
BY DEF Sane, Placed, Listed

(* The wheel does not overtake an SA: those before it stay in their order.  *)
LEMMA OrderKept ==
  ASSUME NEW g \in Group, NEW h \in Group, NEW s \in Sa, NEW t \in Sa,
         Landing(h, s) < Ahead(g, s), Landing(h, t) < Ahead(g, t)
  PROVE  Landing(h, s) < Landing(h, t) <=> Ahead(g, s) < Ahead(g, t)
<1>1. /\ NSa \in Nat \ {0} /\ g.wheel_idx \in 0..NSa - 1 /\ h.wheel_idx \in 0..NSa - 1
      /\ s \in 0..NSa - 1 /\ t \in 0..NSa - 1
  BY Sizes, GroupFields
<1> QED BY <1>1 DEF Landing, Ahead

LEMMA EvenKept ==
  ASSUME NEW g \in Group, NEW h \in Group, h.seq = g.seq, h.whl_seq_num = g.whl_seq_num,
         Active(h) \subseteq Active(g), \A s \in Active(h) : Landing(h, s) < Ahead(g, s),
         NEW X, Even(g, Ahead, X)
  PROVE  Even(h, Landing, X)
<1>1. Active(h) \subseteq Sa
  BY NearIn
<1> QED BY <1>1, OrderKept DEF Even

(* The wheel has left an SA that cannot be written.                         *)
LEMMA ArriveOK ==
  ASSUME NEW m, Sane(m)
  PROVE  LET a == IF m.vg.wheel_idx \in Active(m.vg) THEN m ELSE hd_sa_whladv(m)
         IN  /\ Sane(a) /\ Advanced(m, a)
             /\ a.vg.wheel_idx \in Active(a.vg) \/ Active(a.vg) = {}
             /\ \A X : Even(m.vg, Landing, X) => Even(a.vg, Landing, X)
             /\ Ready(m) =>
                  /\ Ready(a) /\ a.vg.wheel_idx \in Near(m.vg)
                  /\ \/ a.vg.wheel_idx \in Active(a.vg)
                     \/ \A j \in DOMAIN a.vg.act : First(a.vg.act[j]) \in a.fresh
<1>1. m \in Copy /\ m.vg \in Group
  BY CopyFields DEF Sane
<1>2. CASE m.vg.wheel_idx \in Active(m.vg)
  BY <1>2 DEF Advanced, Near
<1>3. CASE m.vg.wheel_idx \notin Active(m.vg)
  <2> DEFINE a == hd_sa_whladv(m)
             g == m.vg
             h == a.vg
  <2>1. Sane(a) /\ Advanced(m, a) /\ Lands(m, a)
    BY WhladvOK
  <2> HIDE DEF a
  <2>2. a \in Copy /\ h \in Group
    BY <2>1, CopyFields DEF Sane
  <2>16. Active(h) \subseteq Sa /\ Active(h) \subseteq Active(g)
    BY <2>1, <2>2, NearIn DEF Advanced
  <2>17. h.wheel_idx \in Active(h) \/ Active(h) = {}
    <3>1. SUFFICES ASSUME h.wheel_idx \notin Active(h), NEW s \in Active(h) PROVE FALSE
      OBVIOUS
    <3>2. h.wheel_idx = g.wheel_idx /\ Landing(h, s) < Ahead(g, s) /\ s # h.wheel_idx
      BY <2>1, <3>1 DEF Lands
    <3>3. Landing(h, s) = Ahead(g, s) /\ Ahead(g, s) \in Int
      BY <1>1, <2>16, <3>1, <3>2, AheadIn DEF Landing, Ahead
    <3> QED BY <3>2, <3>3
  <2>18. \A X : Even(g, Landing, X) => Even(h, Landing, X)
    <3>1. \A s \in Active(g) : Landing(g, s) = Ahead(g, s)
      BY <1>3 DEF Landing
    <3>2. \A X : Even(g, Landing, X) => Even(g, Ahead, X)
      BY <3>1 DEF Even
    <3>3. \A s \in Active(h) : Landing(h, s) < Ahead(g, s)
      BY <2>1 DEF Lands
    <3>4. h.seq = g.seq /\ h.whl_seq_num = g.whl_seq_num
      BY <2>1 DEF Advanced
    <3> QED BY <1>1, <2>2, <2>16, <3>2, <3>3, <3>4, EvenKept
  <2>3. SUFFICES ASSUME Ready(m)
                 PROVE  /\ Ready(a) /\ h.wheel_idx \in Near(g)
                        /\ \/ h.wheel_idx \in Active(h)
                           \/ \A j \in DOMAIN h.act : First(h.act[j]) \in a.fresh
    BY <1>3, <2>1, <2>17, <2>18 DEF a
  <2>4. Ordered(g, m.fresh) /\ a.fresh = m.fresh /\ a.updated = m.updated
    BY <2>1, <2>3 DEF Ready, Advanced
  <2>5. \/ h.wheel_idx \in Active(h)
        \/ h.wheel_idx = g.wheel_idx /\ \A j \in DOMAIN h.act : First(h.act[j]) \in a.fresh
    BY <2>1, <2>4 DEF Lands
  <2>6. Active(h) \subseteq Active(g) /\ h.wheel_idx \in Near(g) /\ Near(h) \subseteq Near(g)
    BY <2>1, <2>5 DEF Advanced, Near
  <2>7. Near(g) \subseteq Sa /\ Active(g) \subseteq Sa
    BY <1>1, NearIn
  <2>8. \A s : Age(h, s) = Age(g, s)
    BY <2>1 DEF Advanced, Age
  <2>9. \A s \in Active(g) : Ahead(g, s) = Landing(g, s)
    BY <1>3 DEF Landing
  <2>10. \A s \in Near(h) : Landing(h, s) <= Landing(g, s) /\ Landing(h, s) \in Int /\ Landing(g, s) \in Int
    <3>1. SUFFICES ASSUME NEW s \in Near(h) PROVE Landing(h, s) <= Landing(g, s) /\ Landing(h, s) \in Int /\ Landing(g, s) \in Int
      OBVIOUS
    <3>2. s \in Sa /\ Landing(h, s) \in 0..NSa - 1 /\ Landing(g, s) \in 0..NSa - 1 /\ Landing(h, h.wheel_idx) = 0
      BY <1>1, <2>2, <2>6, <2>7, AheadIn
    <3>3. CASE s \in Active(h)
      <4>1. Landing(h, s) < Landing(g, s)
        BY <2>1, <2>6, <2>9, <3>3 DEF Lands
      <4> QED BY <3>2, <4>1, Sizes
    <3>4. CASE s = h.wheel_idx
      BY <3>2, <3>4, Sizes
    <3> QED BY <3>1, <3>3, <3>4 DEF Near
  <2>11. ASSUME NEW n \in {0, 1}, Aged(g, Landing, n) PROVE Aged(h, Landing, n)
    <3>1. SUFFICES ASSUME NEW s \in Near(h) PROVE Age(h, s) <= 2 * (NSa - Landing(h, s)) + n
      BY DEF Aged
    <3>2. Age(g, s) <= 2 * (NSa - Landing(g, s)) + n
      BY <2>6, <2>11 DEF Aged
    <3>3. s \in Sa /\ Age(g, s) \in Int
      BY <1>1, <2>6, <2>7, AheadIn
    <3> QED BY <2>8, <2>10, <3>2, <3>3, Sizes
  <2>12. AllOld(g) => AllOld(h)
    BY <2>1, <2>6 DEF AllOld, Advanced
  <2>13. ASSUME m.fresh = {}, Outdated(g, Landing) PROVE Outdated(h, Landing)
    <3>1. Outdated(g, Ahead)
      BY <2>9, <2>13 DEF Outdated
    <3> QED BY <2>1, <2>4, <2>13, <3>1 DEF Lands
  <2>14. Ordered(h, a.fresh)
    BY <2>1, <2>4 DEF Lands
  <2>15. h.forcedoff = g.forcedoff
    BY <2>1 DEF Advanced
  <2> QED BY <2>3, <2>4, <2>5, <2>6, <2>11, <2>12, <2>13, <2>14, <2>15 DEF Ready
<1> QED BY <1>2, <1>3

(* The roll of the wheel to the next write, or to a stop.                   *)
(* The SAs lie in the same order ahead of the wheel whether it has got to   *)
(* the next one or not, except that the one under it comes first.            *)
LEMMA LandingOrder ==
  ASSUME NEW g, g \in Group, NEW s \in Sa, NEW t \in Sa, t # g.wheel_idx
  PROVE  /\ Landing(g, g.wheel_idx) < Landing(g, t)
         /\ Ahead(g, s) < Ahead(g, t) => s # g.wheel_idx /\ Landing(g, s) < Landing(g, t)
<1>1. /\ Ahead(g, t) \in 1..NSa /\ Ahead(g, s) \in 1..NSa /\ NSa \in Nat
      /\ Landing(g, t) = Ahead(g, t) /\ Landing(g, g.wheel_idx) = 0
      /\ s # g.wheel_idx => Landing(g, s) = Ahead(g, s)
      /\ s = g.wheel_idx => Ahead(g, s) = NSa
  BY AheadIn, Sizes
<1> QED BY <1>1

LEMMA RollOK ==
  ASSUME NEW m, Sane(m), m.vg.sa_lbuf = NULL, m.vg.whl = "active", m.vg.hld = <<>>
  PROVE  LET d == Roll(m)
         IN  /\ Sane(d) /\ d.pb = m.pb /\ d.woken = m.woken /\ Steady(d.vg)
             /\ Active(d.vg) \subseteq Active(m.vg)
             /\ Ready(m) /\ ~m.vg.forcedoff =>
                  /\ Turning(d.vg)
                  /\ \A D : Current(m.vg, D) => Current(d.vg, D)
                  /\ \A X : Levelled(m.vg, X) => Level(d.vg, X)
<1> DEFINE a == IF m.vg.wheel_idx \in Active(m.vg) THEN m ELSE hd_sa_whladv(m)
           g == a.vg
           i == g.wheel_idx
           S == [r \in Pbuf |-> IF r \in m.fresh THEN i ELSE g.stop[r]]
           h == [g EXCEPT !.stop = S]
           b == [a EXCEPT !.vg = h]
           h0 == [h EXCEPT !.whl = "stopped"]
           h1 == [h EXCEPT !.sa_lbuf = i, !.seq = [g.seq EXCEPT ![i] = g.whl_seq_num]]
           d0 == [b EXCEPT !.vg = h0]
           d1 == [b EXCEPT !.vg = h1]
<1>1. /\ Sane(a) /\ Advanced(m, a)
      /\ a.vg.wheel_idx \in Active(a.vg) \/ Active(a.vg) = {}
      /\ \A X : Even(m.vg, Landing, X) => Even(a.vg, Landing, X)
      /\ Ready(m) =>
           /\ Ready(a) /\ a.vg.wheel_idx \in Near(m.vg)
           /\ \/ a.vg.wheel_idx \in Active(a.vg)
              \/ \A j \in DOMAIN a.vg.act : First(a.vg.act[j]) \in a.fresh
  BY ArriveOK
<1>2. Roll(m) = IF b.vg.seq[i] = b.vg.whl_seq_num THEN [b EXCEPT !.vg.whl = "stopped"] ELSE hd_sa_wrt(b)
  BY DEF Roll
<1> HIDE DEF a
<1>3. a \in Copy /\ g \in Group /\ i \in Sa /\ g.whl_seq_num \in 0..SEQNUMS - 1
      /\ g.seq \in [Sa -> 0..SEQNUMS - 1] /\ g.stop \in [Pbuf -> Sa] /\ NULL \notin Sa
  <2>1. a \in Copy
    BY <1>1 DEF Sane
  <2>2. a.vg \in Group
    BY <2>1, CopyFields
  <2> QED BY <2>1, <2>2, GroupFields, Sizes
<1>4. S \in [Pbuf -> Sa]
  BY <1>3
<1> HIDE DEF S
<1>5. /\ h \in Group /\ h.stop = S
      /\ h.whl = g.whl /\ h.wheel_idx = i /\ h.whl_seq_num = g.whl_seq_num
      /\ h.hld = g.hld /\ h.act = g.act /\ h.sa_lbuf = g.sa_lbuf /\ h.vgsa = g.vgsa
      /\ h.lsn = g.lsn /\ h.nukesa = g.nukesa /\ h.seq = g.seq /\ h.pvstate = g.pvstate
      /\ h.forcedoff = g.forcedoff
  BY <1>3, <1>4 DEF Group
<1> HIDE DEF h
<1>6. /\ b \in Copy /\ b.vg = h /\ b.pb = a.pb /\ b.ok = a.ok /\ b.err = a.err
      /\ b.fresh = a.fresh /\ b.woken = a.woken /\ b.updated = a.updated
  BY <1>3, <1>5 DEF Copy
<1>7. Roll(m) = IF g.seq[i] = g.whl_seq_num THEN d0 ELSE d1
  <2>1. [b EXCEPT !.vg.whl = "stopped"] = d0
    BY <1>6
  <2>2. hd_sa_wrt(b) = d1
    BY <1>5, <1>6, Zenon DEF hd_sa_wrt
  <2> HIDE DEF b, d0, d1
  <2> QED BY <1>2, <1>5, <1>6, <2>1, <2>2
<1> HIDE DEF b
<1>8. /\ h0 \in Group /\ h0.stop = S
      /\ h0.whl = "stopped" /\ h0.wheel_idx = i /\ h0.whl_seq_num = g.whl_seq_num
      /\ h0.hld = g.hld /\ h0.act = g.act /\ h0.sa_lbuf = g.sa_lbuf /\ h0.vgsa = g.vgsa
      /\ h0.lsn = g.lsn /\ h0.seq = g.seq /\ h0.pvstate = g.pvstate
      /\ h0.forcedoff = g.forcedoff
  BY <1>5 DEF Group
<1>9. /\ h1 \in Group /\ h1.stop = S
      /\ h1.whl = g.whl /\ h1.wheel_idx = i /\ h1.whl_seq_num = g.whl_seq_num
      /\ h1.hld = g.hld /\ h1.act = g.act /\ h1.sa_lbuf = i /\ h1.vgsa = g.vgsa
      /\ h1.lsn = g.lsn /\ h1.seq = [g.seq EXCEPT ![i] = g.whl_seq_num] /\ h1.pvstate = g.pvstate
      /\ h1.forcedoff = g.forcedoff
  <2>1. [g.seq EXCEPT ![i] = g.whl_seq_num] \in [Sa -> 0..SEQNUMS - 1]
    BY <1>3
  <2> QED BY <1>3, <1>5, <2>1 DEF Group
<1> HIDE DEF h0, h1
<1>10. /\ d0 \in Copy /\ d0.vg = h0 /\ d0.pb = a.pb /\ d0.ok = a.ok /\ d0.err = a.err /\ d0.woken = a.woken
       /\ d1 \in Copy /\ d1.vg = h1 /\ d1.pb = a.pb /\ d1.ok = a.ok /\ d1.err = a.err /\ d1.woken = a.woken
  BY <1>6, <1>8, <1>9 DEF Copy
<1> HIDE DEF d0, d1
<1>11. Sane(d0) /\ Sane(d1)
  BY <1>1, <1>8, <1>9, <1>10, SaneSame
<1>12. /\ g.sa_lbuf = NULL /\ g.whl = "active" /\ g.hld = <<>> /\ a.pb = m.pb /\ a.woken = m.woken
       /\ g.forcedoff = m.vg.forcedoff /\ g.seq = m.vg.seq /\ g.whl_seq_num = m.vg.whl_seq_num
       /\ g.vgsa = m.vg.vgsa /\ Active(g) \subseteq Active(m.vg)
       /\ a.fresh = m.fresh /\ a.updated = m.updated
  BY <1>1 DEF Advanced
<1>13. Steady(h0) /\ Steady(h1)
  BY <1>3, <1>8, <1>9, <1>12 DEF Steady
<1>14. Active(h0) = Active(g) /\ Active(h1) = Active(g)
  BY <1>8, <1>9 DEF Active
<1>15. ASSUME NEW D, Current(m.vg, D) PROVE Current(h0, D) /\ Current(h1, D)
  <2>1. Current(h0, D)
    BY <1>8, <1>12, <1>14, <1>15 DEF Current
  <2>2. \A s \in Active(g) : s \in Sa
    BY <1>3, NearIn
  <2>3. \A s \in Sa : s # i => h1.seq[s] = g.seq[s]
    BY <1>3, <1>9
  <2>4. Current(h1, D)
    BY <1>3, <1>9, <1>12, <1>14, <1>15, <2>2, <2>3 DEF Current
  <2> QED BY <2>1, <2>4
<1>16. ASSUME Ready(m), ~m.vg.forcedoff, g.seq[i] = g.whl_seq_num PROVE Turning(h0)
  <2>1. Ready(a) /\ ~g.forcedoff
    BY <1>1, <1>12, <1>16
  <2>2. ~a.updated
    BY <2>1, <1>16 DEF Ready, AllOld, Near
  <2>3. a.fresh = {} /\ Aged(g, Landing, 0) /\ Outdated(g, Landing)
    BY <2>1, <2>2 DEF Ready
  <2>4. g.act = <<>>
    <3>1. SUFFICES ASSUME g.act # <<>> PROVE FALSE
      OBVIOUS
    <3>2. Len(g.act) \in DOMAIN g.act
      <4>1. g.act \in Seq(Seq(Pbuf))
        BY <1>3, GroupFields
      <4> QED BY <3>1, <4>1
    <3>3. i \in Active(g)
      BY <1>1, <1>16, <2>3, <3>2
    <3>4. First(g.act[Len(g.act)]) \in Pbuf
      <4>1. Placed(g, a.pb)
        BY <1>1 DEF Sane
      <4> QED BY <1>3, <3>2, <4>1, Heads
    <3>5. StopAt(g, Len(g.act)) \in 1..NSa /\ Landing(g, i) = 0
      BY <1>3, <3>4, AheadIn DEF StopAt
    <3>6. 0 < StopAt(g, Len(g.act))
      BY <3>5, Sizes
    <3> QED BY <1>16, <2>3, <3>1, <3>3, <3>5, <3>6 DEF Outdated
  <2>5. h0.act = <<>> /\ DOMAIN h0.act = {}
    BY <1>8, <2>4
  <2>6. Ordered(h0, {}) /\ Outdated(h0, Landing)
    BY <2>5 DEF Ordered, Outdated
  <2>7. \A s : Landing(h0, s) = Landing(g, s) /\ Age(h0, s) = Age(g, s)
    BY <1>8 DEF Landing, Ahead, Age
  <2>8. Aged(h0, Landing, 0)
    BY <1>8, <1>14, <2>3, <2>7 DEF Aged, Near
  <2> QED BY <1>8, <1>12, <2>5, <2>6, <2>8 DEF Turning, Spinning
<1>17. ASSUME Ready(m), ~m.vg.forcedoff PROVE Turning(h1)
  <2>1. Ready(a) /\ ~g.forcedoff
    BY <1>1, <1>12, <1>17
  <2>2. /\ DOMAIN g.act = 1..Len(g.act) /\ Len(g.act) \in Nat
        /\ \A j \in 1..Len(g.act) : First(g.act[j]) \in Pbuf
    <3>1. g.act \in Seq(Seq(Pbuf))
      BY <1>3, GroupFields
    <3>2. Placed(g, a.pb)
      BY <1>1 DEF Sane
    <3> QED BY <1>3, <3>1, <3>2, Heads
  <2>3. \A s : Ahead(h1, s) = Ahead(g, s)
    BY <1>9 DEF Ahead
  <2>4. \A s \in Sa : /\ Ahead(g, s) \in 1..NSa /\ Ahead(g, i) = NSa
                      /\ s # i => Ahead(g, s) < NSa /\ Landing(g, s) = Ahead(g, s)
    BY <1>3, AheadIn
  <2>5. \A j \in 1..Len(g.act) : /\ StopAt(h1, j) = IF First(g.act[j]) \in m.fresh THEN NSa ELSE StopAt(g, j)
                                 /\ StopAt(h1, j) \in 1..NSa
    <3>1. SUFFICES ASSUME NEW j \in 1..Len(g.act)
                   PROVE  /\ StopAt(h1, j) = IF First(g.act[j]) \in m.fresh THEN NSa ELSE StopAt(g, j)
                          /\ StopAt(h1, j) \in 1..NSa
      OBVIOUS
    <3>2. StopAt(h1, j) = Ahead(g, S[First(g.act[j])])
      BY <1>9, <2>3 DEF StopAt
    <3>3. S[First(g.act[j])] = IF First(g.act[j]) \in m.fresh THEN i ELSE g.stop[First(g.act[j])]
      BY <2>2, <3>1 DEF S
    <3>4. S[First(g.act[j])] \in Sa
      BY <1>4, <2>2, <3>1
    <3> QED BY <1>3, <2>4, <3>2, <3>3, <3>4 DEF StopAt
  <2>6. Ordered(h1, {})
    <3>1. SUFFICES ASSUME NEW k \in 1..Len(g.act), NEW j \in 1..Len(g.act), k <= j
                   PROVE  StopAt(h1, k) <= StopAt(h1, j)
      BY <1>9, <2>2 DEF Ordered
    <3>2. /\ First(g.act[k]) \in m.fresh => First(g.act[j]) \in m.fresh
          /\ First(g.act[j]) \notin m.fresh => StopAt(g, k) <= StopAt(g, j)
      BY <1>12, <2>1, <2>2, <3>1 DEF Ready, Ordered
    <3> QED BY <2>5, <3>2, Sizes
  <2>7. \A s \in Sa : s # i => h1.seq[s] = g.seq[s]
    BY <1>3, <1>9
  <2>8. Active(g) \subseteq Sa
    BY <1>3, NearIn
  <2>9. Outdated(h1, Ahead)
    <3>1. SUFFICES ASSUME g.act # <<>>, NEW s \in Active(g), Ahead(g, s) < StopAt(h1, Len(g.act))
                   PROVE  h1.seq[s] # g.whl_seq_num
      BY <1>9, <1>14, <2>3 DEF Outdated
    <3>2. Len(g.act) \in 1..Len(g.act)
      <4>1. g.act \in Seq(Seq(Pbuf))
        BY <1>3, GroupFields
      <4> QED BY <3>1, <4>1
    <3>3. s \in Sa /\ s # i /\ Landing(g, s) = Ahead(g, s) /\ h1.seq[s] = g.seq[s]
      <4>1. s \in Sa /\ StopAt(h1, Len(g.act)) \in 1..NSa
        BY <2>5, <2>8, <3>1, <3>2
      <4>2. Ahead(g, i) = NSa
        BY <2>4, <4>1
      <4>3. Ahead(g, s) # NSa
        BY <3>1, <4>1, Sizes
      <4>4. s # i
        BY <4>2, <4>3
      <4> QED BY <4>1, <4>4, <2>4, <2>7
    <3>4. CASE a.updated
      BY <2>1, <3>1, <3>3, <3>4 DEF Ready, AllOld, Near
    <3>5. CASE ~a.updated
      <4>1. a.fresh = {} /\ Outdated(g, Landing)
        BY <2>1, <3>5 DEF Ready
      <4>2. StopAt(h1, Len(g.act)) = StopAt(g, Len(g.act))
        BY <1>12, <2>5, <3>2, <4>1
      <4> QED BY <3>1, <3>3, <4>1, <4>2 DEF Outdated
    <3> QED BY <3>4, <3>5
  <2>10. Aged(h1, Ahead, 1)
    <3>1. SUFFICES ASSUME NEW s \in Near(h1) PROVE Age(h1, s) <= 2 * (NSa - Ahead(g, s)) + 1
      BY <2>3 DEF Aged
    <3>2. s \in Near(g) /\ s \in Sa
      BY <1>3, <1>9, <1>14, <3>1, NearIn DEF Near
    <3>3. CASE s = i
      <4>1. h1.seq[s] = g.whl_seq_num
        BY <1>3, <1>9, <3>3
      <4>2. Age(h1, s) = 0
        BY <1>3, <1>9, <4>1 DEF Age
      <4> QED BY <2>4, <3>2, <3>3, <4>2, Sizes
    <3>4. CASE s # i
      <4>1. Age(h1, s) = Age(g, s) /\ Landing(g, s) = Ahead(g, s)
        BY <1>9, <2>4, <2>7, <3>2, <3>4 DEF Age
      <4>2. Age(g, s) <= 2 * (NSa - Landing(g, s)) + (IF a.updated THEN 1 ELSE 0)
        BY <2>1, <3>2 DEF Ready, Aged
      <4>3. Age(g, s) \in Int /\ Ahead(g, s) \in 1..NSa
        BY <1>3, <2>4, <3>2, AheadIn
      <4> QED BY <4>1, <4>2, <4>3, Sizes
    <3> QED BY <3>3, <3>4
  <2> QED BY <1>3, <1>9, <1>12, <2>6, <2>9, <2>10 DEF Turning, Spinning
<1>18. ASSUME NEW X, Levelled(m.vg, X), ~m.vg.forcedoff
       PROVE  /\ g.seq[i] = g.whl_seq_num => Level(h0, X)
              /\ g.seq[i] # g.whl_seq_num => Level(h1, X)
  <2>1. Even(g, Landing, X)
    BY <1>1, <1>18 DEF Levelled
  <2>2. Active(g) \subseteq Sa /\ Landing(g, i) = 0
    BY <1>3, NearIn DEF Landing
  <2>3. \A s \in Sa : /\ Ahead(g, s) \in 1..NSa /\ Landing(g, s) \in 0..NSa - 1 /\ Ahead(g, i) = NSa
                     /\ s # i => Landing(g, s) = Ahead(g, s)
    BY <1>3, AheadIn DEF Landing
  <2>4. \A s : /\ Ahead(h0, s) = Ahead(g, s) /\ Landing(h0, s) = Landing(g, s)
              /\ Ahead(h1, s) = Ahead(g, s)
    BY <1>8, <1>9 DEF Ahead, Landing
  <2>5. ASSUME g.seq[i] = g.whl_seq_num PROVE Level(h0, X)
    <3>1. \A t \in Active(g) \ X : g.seq[t] = g.whl_seq_num
      <4>1. SUFFICES ASSUME NEW t \in Active(g) \ X, t # i PROVE g.seq[t] = g.whl_seq_num
        BY <2>5
      <4>2. i \in Active(g) /\ Landing(g, i) < Landing(g, t)
        <5>1. t \in Sa /\ i \in Active(g) /\ i \in Sa
          BY <1>1, <1>3, <2>2, <4>1
        <5>2. Landing(g, i) < Landing(g, t)
          BY <1>3, <4>1, <5>1, LandingOrder
        <5> QED BY <5>1, <5>2
      <4> QED BY <2>1, <2>5, <4>1, <4>2 DEF Even
    <3>2. Even(h0, Landing, X)
      BY <1>8, <1>14, <3>1 DEF Even
    <3> QED BY <1>8, <1>12, <1>14, <3>1, <3>2 DEF Level, Levelled
  <2>6. ASSUME g.seq[i] # g.whl_seq_num PROVE Level(h1, X)
    <3>1. \A s \in Sa : s # i => h1.seq[s] = g.seq[s]
      BY <1>3, <1>9
    <3>2. h1.seq[i] = g.whl_seq_num
      BY <1>3, <1>9
    <3>3. Even(h1, Ahead, X)
      <4>1. SUFFICES ASSUME NEW s \in Active(g), NEW t \in Active(g) \ X,
                            h1.seq[s] = g.whl_seq_num, Ahead(g, s) < Ahead(g, t), t # i
                     PROVE  h1.seq[t] = g.whl_seq_num
        BY <1>9, <1>14, <2>4, <3>2 DEF Even
      <4>2. s \in Sa /\ t \in Sa
        BY <2>2, <4>1
      <4>3. s # i /\ Landing(g, s) < Landing(g, t)
        BY <1>3, <4>1, <4>2, LandingOrder
      <4>4. g.seq[s] = g.whl_seq_num
        BY <3>1, <4>1, <4>2, <4>3
      <4> QED BY <2>1, <3>1, <4>1, <4>2, <4>3, <4>4 DEF Even
    <3>4. h1.sa_lbuf # NULL /\ h1.whl = "active"
      BY <1>3, <1>9, <1>12
    <3> QED BY <3>3, <3>4 DEF Level, Levelled
  <2> QED BY <2>5, <2>6
<1> QED BY <1>7, <1>10, <1>11, <1>12, <1>13, <1>14, <1>15, <1>16, <1>17, <1>18

(* What a working copy is like when the wheel has got to an SA: not yet     *)
(* aged by the number that a restart may raise.                             *)
Landed(w) ==
  /\ Ordered(w.vg, {})
  /\ ~w.vg.forcedoff => /\ Outdated(w.vg, Landing) /\ Aged(w.vg, Landing, 0)
                        /\ w.updated => AllOld(w.vg)

LEMMA LandedReady == ASSUME NEW w, w.fresh = {}, w \in Copy, Landed(w) PROVE Ready(w)
<1>1. w.vg \in Group /\ NSa \in Nat
  BY CopyFields, Sizes
<1>2. Aged(w.vg, Landing, 0) => Aged(w.vg, Landing, 1)
  <2>1. \A s \in Near(w.vg) : Age(w.vg, s) \in Int /\ Landing(w.vg, s) \in Int
    BY <1>1, NearIn, AheadIn
  <2> QED BY <1>1, <2>1 DEF Aged
<1> QED BY <1>2 DEF Landed, Ready

LEMMA ReturnAllOK ==
  ASSUME NEW m, Sane(m), m.vg.sa_lbuf = NULL, m.vg.hld = <<>>
  PROVE  LET d == ReturnAll(m)
         IN  /\ Sane(d) /\ d.pb = m.pb /\ d.woken = m.woken /\ Steady(d.vg)
             /\ Active(d.vg) \subseteq Active(m.vg)
             /\ m.vg.forcedoff => /\ Turning(d.vg) /\ \A D : Current(d.vg, D)
                                 /\ \A X : Level(d.vg, X)
<1> DEFINE g == m.vg
           U == UNION {Range(l) : l \in Range(g.act)}
           h == [g EXCEPT !.act = <<>>, !.whl = "stopped"]
           d == [m EXCEPT !.vg = h, !.err = @ \cup U]
<1>1. m \in Copy /\ Placed(g, m.pb) /\ \A r \in m.ok \cup m.err : m.pb[r] # NULL /\ r \notin Listed(g)
  BY DEF Sane
<1>2. g \in Group
  BY <1>1, CopyFields
<1>3. ReturnAll(m) = d
  BY DEF ReturnAll
<1>4. U \subseteq Listed(g) /\ Listed(g) \subseteq Pbuf
  BY <1>1, <1>2, Heads DEF Listed
<1> HIDE DEF U
<1>5. /\ h \in Group /\ h.act = <<>> /\ h.whl = "stopped" /\ h.wheel_idx = g.wheel_idx
      /\ h.hld = <<>> /\ h.sa_lbuf = NULL /\ h.forcedoff = g.forcedoff
      /\ h.lsn = g.lsn /\ h.pvstate = g.pvstate
  <2>1. <<>> \in Seq(Seq(Pbuf))
    OBVIOUS
  <2> QED BY <1>2, <2>1 DEF Group
<1> HIDE DEF h
<1>6. /\ d \in Copy /\ d.vg = h /\ d.pb = m.pb /\ d.ok = m.ok /\ d.err = m.err \cup U /\ d.woken = m.woken
  BY <1>1, <1>4, <1>5 DEF Copy
<1> HIDE DEF d
<1>7. Listed(h) = {}
  BY <1>5 DEF Listed, Range
<1>8. Placed(h, d.pb)
  <2>1. IsInjective(<<>>)
    BY DEF IsInjective
  <2> QED BY <2>1, <1>5, <1>7 DEF Placed
<1>9. \A r \in d.ok \cup d.err : d.pb[r] # NULL /\ r \notin Listed(h)
  BY <1>1, <1>4, <1>6, <1>7 DEF Placed
<1>10. Sane(d) /\ Steady(h)
  BY <1>5, <1>6, <1>8, <1>9 DEF Sane, Steady
<1>11. ASSUME g.forcedoff PROVE Turning(h) /\ (\A D : Current(h, D)) /\ \A X : Level(h, X)
  BY <1>5, <1>11 DEF Turning, Spinning, Ordered, Current, Level, Levelled
<1>12. Active(h) = Active(g)
  BY <1>5 DEF Active
<1> QED BY <1>3, <1>6, <1>10, <1>11, <1>12

(* A request of the configuration process takes a new number.               *)
Renews(w) == \E i \in 1..Len(w.vg.hld) : w.pb[w.vg.hld[i]].type = "SA_CONFIGOP"

LEMMA ContOK ==
  ASSUME NEW w, Sane(w), w.fresh = {}, ~w.woken, w.vg.sa_lbuf = NULL, w.vg.whl = "active"
  PROVE  LET d == hd_sa_cont(w)
         IN  /\ Sane(d) /\ d.pb = w.pb /\ Steady(d.vg)
             /\ d.woken => config.pc = "waiting" /\ d.vg.whl = "held"
             /\ Active(d.vg) \subseteq Active(w.vg)
             /\ Wide /\ Landed(w) =>
                  /\ Turning(d.vg)
                  /\ \A D : Current(w.vg, D) \/ (config.pc # "waiting" /\ Renews(w)) => Current(d.vg, D)
                  /\ \A X : Levelled(w.vg, X) \/ (config.pc # "waiting" /\ Renews(w)) => Level(d.vg, X)
<1>1. w \in Copy /\ w.vg \in Group
  BY CopyFields DEF Sane
<1>2. CASE config.pc = "waiting"
  <2> DEFINE h == [w.vg EXCEPT !.whl = "held"]
             d == [w EXCEPT !.vg = h, !.woken = TRUE]
  <2>1. hd_sa_cont(w) = d
    BY <1>2 DEF hd_sa_cont
  <2>2. /\ h \in Group /\ h.whl = "held" /\ h.hld = w.vg.hld /\ h.act = w.vg.act /\ h.sa_lbuf = NULL
        /\ h.wheel_idx = w.vg.wheel_idx /\ h.whl_seq_num = w.vg.whl_seq_num /\ h.seq = w.vg.seq
        /\ h.vgsa = w.vg.vgsa /\ h.forcedoff = w.vg.forcedoff /\ h.stop = w.vg.stop
        /\ h.lsn = w.vg.lsn /\ h.pvstate = w.vg.pvstate
    BY <1>1 DEF Group
  <2> HIDE DEF h
  <2>3. d \in Copy /\ d.vg = h /\ d.pb = w.pb /\ d.ok = w.ok /\ d.err = w.err
    BY <1>1, <2>2 DEF Copy
  <2> HIDE DEF d
  <2>4. Sane(d)
    BY <2>2, <2>3, SaneSame
  <2>5. Fewer(w.vg, h)
    BY <2>2 DEF Fewer, Active
  <2>6. Landed(w) => Spinning(w.vg)
    BY DEF Landed, Spinning
  <2>7. Steady(h)
    BY <2>2 DEF Steady
  <2>8. \A X : Levelled(w.vg, X) => Level(h, X)
    BY <1>1, <2>2, <2>5, FewerOK DEF Level
  <2>9. Active(h) \subseteq Active(w.vg)
    BY <2>5 DEF Fewer
  <2> QED BY <1>1, <1>2, <2>1, <2>2, <2>3, <2>4, <2>5, <2>6, <2>7, <2>8, <2>9, FewerOK DEF Turning
<1>3. CASE config.pc # "waiting"
  <2> DEFINE m == MoveHeld(w)
  <2>1. hd_sa_cont(w) = IF m.vg.forcedoff THEN ReturnAll(m) ELSE Roll(m)
    BY <1>3 DEF hd_sa_cont
  <2>2. /\ Sane(m) /\ Activated(w, m) /\ m.vg.hld = <<>>
        /\ Renews(w) => m.updated
        /\ Ready(w) /\ Wide => Ready(m)
    BY MoveHeldOK DEF Renews
  <2> HIDE DEF m
  <2>3. /\ m.vg.sa_lbuf = NULL /\ m.vg.whl = "active" /\ m.pb = w.pb /\ ~m.woken
        /\ Active(m.vg) \subseteq Active(w.vg)
    BY <2>2 DEF Activated
  <2>4. ASSUME Wide, Landed(w), ~m.vg.forcedoff, NEW D, Current(w.vg, D) \/ Renews(w)
        PROVE  Ready(m) /\ Current(m.vg, D)
    <3>1. Ready(m)
      BY <1>1, <2>2, <2>4, LandedReady
    <3>2. CASE m.updated
      BY <3>1, <3>2, <2>4 DEF Ready, AllOld, Near, Current
    <3>3. CASE ~m.updated
      BY <3>1, <3>3, <2>2, <2>4 DEF Activated, Current
    <3> QED BY <3>1, <3>2, <3>3
  <2>5. ASSUME Wide, Landed(w) PROVE Ready(m)
    BY <1>1, <2>2, <2>5, LandedReady
  <2>8. ASSUME Wide, Landed(w), ~m.vg.forcedoff, NEW X, Levelled(w.vg, X) \/ Renews(w)
        PROVE  Levelled(m.vg, X)
    <3>1. Ready(m)
      BY <2>5, <2>8
    <3>2. CASE m.updated
      <4>1. AllOld(m.vg)
        BY <2>8, <3>1, <3>2 DEF Ready
      <4>2. Even(m.vg, Landing, X)
        BY <4>1 DEF Even, AllOld, Near
      <4> QED BY <2>3, <4>2 DEF Levelled
    <3>3. CASE ~m.updated
      <4>1. /\ m.vg.seq = w.vg.seq /\ m.vg.whl_seq_num = w.vg.whl_seq_num
            /\ m.vg.wheel_idx = w.vg.wheel_idx /\ Active(m.vg) \subseteq Active(w.vg)
            /\ m.vg.forcedoff = w.vg.forcedoff
        BY <2>2, <3>3 DEF Activated
      <4>2. Even(w.vg, Landing, X)
        BY <2>2, <2>8, <3>3, <4>1 DEF Levelled
      <4>3. \A s : Landing(m.vg, s) = Landing(w.vg, s)
        BY <4>1 DEF Landing, Ahead
      <4>4. Even(m.vg, Landing, X)
        BY <4>1, <4>2, <4>3 DEF Even
      <4> QED BY <2>3, <4>4 DEF Levelled
    <3> QED BY <3>2, <3>3
  <2>6. CASE m.vg.forcedoff
    <3> DEFINE d == ReturnAll(m)
    <3>1. /\ Sane(d) /\ d.pb = m.pb /\ d.woken = m.woken /\ Steady(d.vg)
          /\ Active(d.vg) \subseteq Active(m.vg)
          /\ m.vg.forcedoff => /\ Turning(d.vg) /\ \A D : Current(d.vg, D)
                              /\ \A X : Level(d.vg, X)
      BY <2>2, <2>3, ReturnAllOK
    <3> HIDE DEF d
    <3>2. hd_sa_cont(w) = d
      BY <2>1, <2>6 DEF d
    <3> QED BY <2>3, <2>6, <3>1, <3>2
  <2>7. CASE ~m.vg.forcedoff
    <3> DEFINE d == Roll(m)
    <3>1. /\ Sane(d) /\ d.pb = m.pb /\ d.woken = m.woken /\ Steady(d.vg)
          /\ Active(d.vg) \subseteq Active(m.vg)
          /\ Ready(m) /\ ~m.vg.forcedoff =>
               /\ Turning(d.vg)
               /\ \A D : Current(m.vg, D) => Current(d.vg, D)
               /\ \A X : Levelled(m.vg, X) => Level(d.vg, X)
      BY <2>2, <2>3, RollOK
    <3> HIDE DEF d
    <3>2. hd_sa_cont(w) = d
      BY <2>1, <2>7 DEF d
    <3>3. ASSUME Wide, Landed(w)
          PROVE  /\ Turning(d.vg)
                 /\ \A D : Current(w.vg, D) \/ Renews(w) => Current(d.vg, D)
                 /\ \A X : Levelled(w.vg, X) \/ Renews(w) => Level(d.vg, X)
      BY <2>4, <2>5, <2>7, <2>8, <3>1, <3>3
    <3> QED BY <1>3, <2>3, <3>1, <3>2, <3>3
  <2> QED BY <2>6, <2>7
<1> QED BY <1>2, <1>3

LEMMA StrtOK ==
  ASSUME NEW w, Sane(w), w.fresh = {}, ~w.woken, ~w.updated,
         w.vg.whl = "active" <=> w.vg.sa_lbuf # NULL, w.vg.sa_lbuf \in {NULL, w.vg.wheel_idx},
         NEW list \in Seq(Pbuf), IsInjective(list),
         \A r \in Range(list) : r \notin Listed(w.vg) \cup w.ok \cup w.err /\ w.pb[r] # NULL
  PROVE  LET d == hd_sa_strt(w, list)
         IN  /\ Sane(d) /\ d.pb = w.pb /\ Steady(d.vg)
             /\ d.woken => config.pc = "waiting" /\ d.vg.whl = "held"
             /\ w.vg.whl # "stopped" => d.vg.whl = w.vg.whl /\ d.vg.vgsa = w.vg.vgsa
             /\ Wide /\ Spinning(w.vg) =>
                  /\ Turning(d.vg)
                  /\ \A D : \/ Current(w.vg, D)
                            \/ /\ w.vg.whl = "stopped" /\ config.pc # "waiting"
                               /\ \E r \in Range(list) : w.pb[r].type = "SA_CONFIGOP"
                            => Current(d.vg, D)
                  /\ \A X : \/ Level(w.vg, X)
                            \/ /\ w.vg.whl = "stopped" /\ Levelled(w.vg, X)
                            \/ /\ w.vg.whl = "stopped" /\ config.pc # "waiting"
                               /\ \E r \in Range(list) : w.pb[r].type = "SA_CONFIGOP"
                            => Level(d.vg, X)
<1> DEFINE g == w.vg
           L == g.hld \o list
           S == [r \in Pbuf |-> IF r \in Range(list) THEN 0 ELSE g.stop[r]]
           h == [g EXCEPT !.hld = L, !.stop = S]
           h1 == [h EXCEPT !.whl = "active"]
           e == [w EXCEPT !.vg = h]
           e1 == [e EXCEPT !.vg = h1]
<1>1. /\ w \in Copy /\ g \in Group /\ Placed(g, w.pb)
      /\ \A r \in w.ok \cup w.err : w.pb[r] # NULL /\ r \notin Listed(g)
  BY CopyFields DEF Sane
<1>2. hd_sa_strt(w, list) = IF h.whl = "stopped" THEN hd_sa_cont(e1) ELSE e
  <2> DEFINE x == [w EXCEPT !.vg.hld = @ \o list,
                            !.vg.stop = [r \in Pbuf |-> IF r \in Range(list) THEN 0 ELSE @[r]]]
  <2>1. hd_sa_strt(w, list) = IF x.vg.whl = "stopped" THEN hd_sa_cont([x EXCEPT !.vg.whl = "active"]) ELSE x
    BY Zenon DEF hd_sa_strt
  <2>2. x = e
    OBVIOUS
  <2> HIDE DEF x
  <2>3. e.vg = h
    BY <1>1 DEF Copy
  <2>4. [e EXCEPT !.vg.whl = "active"] = e1
    BY <2>3
  <2> HIDE DEF e, e1, h
  <2> QED BY <2>1, <2>2, <2>3, <2>4
<1>3. L \in Seq(Pbuf) /\ Range(L) = Range(g.hld) \cup Range(list) /\ IsInjective(L)
  <2>1. g.hld \in Seq(Pbuf) /\ IsInjective(g.hld)
    BY <1>1, GroupFields DEF Placed
  <2>2. Range(g.hld) \cap Range(list) = {}
    BY DEF Listed
  <2>3. Len(list) \in Nat /\ list \in [1..Len(list) -> Pbuf]
    OBVIOUS
  <2> QED BY <2>1, <2>2, <2>3, RangeConcat
<1>4. S \in [Pbuf -> Sa]
  <2>1. 0 \in Sa
    BY Sizes
  <2>2. g.stop \in [Pbuf -> Sa]
    BY <1>1, GroupFields
  <2> QED BY <2>1, <2>2
<1> HIDE DEF L
<1>5. \A j \in DOMAIN g.act : S[First(g.act[j])] = g.stop[First(g.act[j])]
  <2>1. SUFFICES ASSUME NEW j \in DOMAIN g.act PROVE S[First(g.act[j])] = g.stop[First(g.act[j])]
    OBVIOUS
  <2>2. First(g.act[j]) \in Pbuf /\ First(g.act[j]) \in Listed(g)
    BY <1>1, <2>1, Heads
  <2>3. First(g.act[j]) \notin Range(list)
    BY <2>2
  <2> HIDE DEF g
  <2> QED BY <2>2, <2>3
<1> HIDE DEF S
<1>6. ASSUME NEW x \in {h, h1}
      PROVE  /\ x \in Group /\ x.hld = L /\ x.stop = S /\ x.act = g.act /\ x.sa_lbuf = g.sa_lbuf
             /\ x.wheel_idx = g.wheel_idx /\ x.whl_seq_num = g.whl_seq_num /\ x.seq = g.seq
             /\ x.vgsa = g.vgsa /\ x.forcedoff = g.forcedoff /\ x.lsn = g.lsn /\ x.pvstate = g.pvstate
  <2>1. /\ h \in Group /\ h.hld = L /\ h.stop = S /\ h.act = g.act /\ h.sa_lbuf = g.sa_lbuf
        /\ h.wheel_idx = g.wheel_idx /\ h.whl_seq_num = g.whl_seq_num /\ h.seq = g.seq
        /\ h.vgsa = g.vgsa /\ h.forcedoff = g.forcedoff /\ h.lsn = g.lsn /\ h.pvstate = g.pvstate
    BY <1>1, <1>3, <1>4 DEF Group
  <2> HIDE DEF h
  <2>2. /\ h1 \in Group /\ h1.hld = L /\ h1.stop = S /\ h1.act = g.act /\ h1.sa_lbuf = g.sa_lbuf
        /\ h1.wheel_idx = g.wheel_idx /\ h1.whl_seq_num = g.whl_seq_num /\ h1.seq = g.seq
        /\ h1.vgsa = g.vgsa /\ h1.forcedoff = g.forcedoff /\ h1.lsn = g.lsn /\ h1.pvstate = g.pvstate
    BY <2>1 DEF Group
  <2> HIDE DEF h1
  <2> QED BY <2>1, <2>2
<1>7. h.whl = g.whl /\ h1.whl = "active"
  BY <1>1 DEF Group
<1> HIDE DEF h, h1
<1>8. ASSUME NEW x \in {h, h1} PROVE Fewer(g, x) /\ Placed(x, w.pb) /\ Listed(x) = Listed(g) \cup Range(list)
  <2>1. Fewer(g, x)
    BY <1>5, <1>6 DEF Fewer, Active
  <2>2. Listed(x) = Listed(g) \cup Range(list)
    BY <1>3, <1>6 DEF Listed
  <2>3. \A j \in DOMAIN g.act : Range(g.act[j]) \subseteq Listed(g)
    BY <1>1, Heads
  <2>4. \A j \in DOMAIN g.act : Range(g.act[j]) \cap Range(x.hld) = {}
    BY <2>3, <1>1, <1>3, <1>6 DEF Placed
  <2>5. Placed(x, w.pb)
    BY <2>2, <2>4, <1>1, <1>3, <1>6 DEF Placed
  <2> QED BY <2>1, <2>2, <2>5
<1>9. /\ e \in Copy /\ e.vg = h /\ e.pb = w.pb /\ e.ok = w.ok /\ e.err = w.err
      /\ e.fresh = {} /\ ~e.woken /\ ~e.updated
  BY <1>1, <1>6 DEF Copy
<1> HIDE DEF e
<1>10. /\ e1 \in Copy /\ e1.vg = h1 /\ e1.pb = w.pb /\ e1.ok = w.ok /\ e1.err = w.err
       /\ e1.fresh = {} /\ ~e1.woken /\ ~e1.updated
  BY <1>9, <1>6 DEF Copy
<1> HIDE DEF e1
<1>11. Sane(e) /\ Sane(e1)
  BY <1>1, <1>8, <1>9, <1>10 DEF Sane
<1>12. CASE g.whl = "stopped"
  <2>1. hd_sa_strt(w, list) = hd_sa_cont(e1) /\ e1.vg.sa_lbuf = NULL /\ e1.vg.whl = "active"
    BY <1>2, <1>6, <1>7, <1>10, <1>12
  <2> DEFINE d == hd_sa_cont(e1)
  <2>2. /\ Sane(d) /\ d.pb = e1.pb /\ Steady(d.vg)
        /\ d.woken => config.pc = "waiting" /\ d.vg.whl = "held"
        /\ Wide /\ Landed(e1) =>
             /\ Turning(d.vg)
             /\ \A D : Current(e1.vg, D) \/ (config.pc # "waiting" /\ Renews(e1)) => Current(d.vg, D)
             /\ \A X : Levelled(e1.vg, X) \/ (config.pc # "waiting" /\ Renews(e1)) => Level(d.vg, X)
    BY <1>10, <1>11, <2>1, ContOK
  <2> HIDE DEF d
  <2>3. Spinning(g) => Landed(e1)
    <3>1. Spinning(g) => Spinning(h1)
      BY <1>1, <1>8, FewerOK
    <3>2. h1.sa_lbuf = NULL
      BY <1>10, <2>1
    <3> QED BY <3>1, <3>2, <1>10 DEF Landed, Spinning
  <2>4. (\E r \in Range(list) : w.pb[r].type = "SA_CONFIGOP") => Renews(e1)
    <3>1. SUFFICES ASSUME NEW r \in Range(list), w.pb[r].type = "SA_CONFIGOP" PROVE Renews(e1)
      OBVIOUS
    <3>2. r \in Range(L)
      BY <1>3
    <3>3. PICK n \in 1..Len(L) : L[n] = r
      BY <1>3, <3>2 DEF Range
    <3> QED BY <3>1, <3>3, <1>6, <1>10 DEF Renews
  <2>5. (\A D : Current(g, D) => Current(h1, D)) /\ (\A X : Levelled(g, X) => Levelled(h1, X))
    BY <1>1, <1>8, FewerOK
  <2>6. ASSUME Wide, Spinning(g)
        PROVE  /\ Turning(d.vg)
               /\ \A D : Current(h1, D) \/ (config.pc # "waiting" /\ Renews(e1)) => Current(d.vg, D)
               /\ \A X : Levelled(h1, X) \/ (config.pc # "waiting" /\ Renews(e1)) => Level(d.vg, X)
    BY <1>10, <2>2, <2>3, <2>6
  <2>7. \A X : Level(g, X) => Levelled(g, X)
    BY DEF Level
  <2> QED BY <1>10, <1>12, <2>1, <2>2, <2>4, <2>5, <2>6, <2>7 DEF d
<1>13. CASE g.whl # "stopped"
  <2>1. hd_sa_strt(w, list) = e
    BY <1>2, <1>7, <1>13
  <2>2. Steady(h)
    BY <1>6, <1>7, <1>13 DEF Steady
  <2>3. /\ Spinning(g) => Spinning(h)
        /\ \A D : Current(g, D) => Current(h, D)
        /\ \A X : Levelled(g, X) => Levelled(h, X)
    BY <1>1, <1>8, FewerOK
  <2>4. \A X : Level(g, X) => Level(h, X)
    BY <1>7, <1>13, <2>3 DEF Level
  <2>5. h.vgsa = g.vgsa
    BY <1>6
  <2> QED BY <1>7, <1>9, <1>11, <1>13, <2>1, <2>2, <2>3, <2>4, <2>5 DEF Turning
<1> QED BY <1>12, <1>13

-----------------------------------------------------------------------------
(* The shape of the other variables.                                        *)
Process == [pc: ConfigPc, op: ConfigOps \cup {"none"}, pv: Pv,
            sas: SUBSET Sa, qrm: Quorums \cup {0}, again: BOOLEAN,
            rtn: {"none", "ok", "error"}]
Parts == [Pp -> SUBSET {"PP_STALE", "PP_CHGING"}]
Disks == [Sa -> Image \cup {NULL}]

LEMMA Types ==
  TypeOK <=> /\ vg \in Group /\ disk \in Disks /\ pb \in Asked
             /\ ppstate \in Parts /\ config \in Process
BY DEF TypeOK, Group, Disks, Asked, Parts, Process

LEMMA RtnOK ==
  ASSUME NEW d, Sane(d), Steady(d.vg), NEW parts \in Parts, NEW c \in Process, CfgPlace(d.pb, c),
         d.woken => c.pc = "waiting" /\ d.vg.whl = "held",
         c.pc = "control" => d.vg.whl # "active", c.pc = "woken" => d.vg.whl = "held",
         hd_sa_rtn(d, parts, c)
  PROVE  /\ vg' \in Group /\ pb' \in Asked /\ ppstate' \in Parts /\ config' \in Process
         /\ Placed(vg', pb') /\ CfgPlace(pb', config') /\ Flags(vg', config')
         /\ Turning(d.vg) => Turning(vg')
         /\ \A D : Current(d.vg, D) => Current(vg', D)
         /\ \A X : Level(d.vg, X) => Level(vg', X)
         /\ Outside(config') = Outside(c)
         /\ vg'.vgsa = d.vg.vgsa /\ Active(vg') = Active(d.vg)
<1> DEFINE done == d.ok \cup d.err
           settled == UNION {{d.pb[r].lp} \X d.pb[r].mir : r \in {q \in done : d.pb[q].type = "SA_STALEPP"}}
           g == d.vg
           S == [r \in Pbuf |-> IF r \in done THEN 0 ELSE g.stop[r]]
<1>1. /\ d \in Copy /\ g \in Group /\ Placed(g, d.pb)
      /\ \A r \in done : d.pb[r] # NULL /\ r \notin Listed(g)
  BY CopyFields DEF Sane
<1>2. /\ vg' = [g EXCEPT !.stop = S]
      /\ pb' = [r \in Pbuf |-> IF r \in done THEN NULL ELSE d.pb[r]]
      /\ ppstate' = [p \in Pp |-> IF p \in settled THEN parts[p] \ {"PP_CHGING"} ELSE parts[p]]
      /\ config' = [c EXCEPT
           !.rtn = IF Cfg \in d.ok THEN "ok" ELSE IF Cfg \in d.err THEN "error" ELSE @,
           !.pc = IF d.woken THEN "woken"
                  ELSE IF Cfg \in done /\ @ = "waiting2" THEN "woken2" ELSE @]
  BY DEF hd_sa_rtn
<1> HIDE DEF done, settled
<1>3. ppstate' \in Parts
  BY <1>2 DEF Parts
<1>4. S \in [Pbuf -> Sa]
  <2>1. 0 \in Sa
    BY Sizes
  <2>2. g.stop \in [Pbuf -> Sa]
    BY <1>1, GroupFields
  <2> QED BY <2>1, <2>2
<1>5. pb' \in Asked
  <2>1. d.pb \in Asked
    BY <1>1, CopyFields
  <2> QED BY <2>1, <1>2 DEF Asked
<1>6. \A j \in DOMAIN g.act : S[First(g.act[j])] = g.stop[First(g.act[j])]
  <2>1. SUFFICES ASSUME NEW j \in DOMAIN g.act PROVE S[First(g.act[j])] = g.stop[First(g.act[j])]
    OBVIOUS
  <2>2. First(g.act[j]) \in Pbuf /\ First(g.act[j]) \in Listed(g)
    BY <1>1, <2>1, Heads
  <2>3. First(g.act[j]) \notin done
    BY <2>2, <1>1
  <2> HIDE DEF g
  <2> QED BY <2>2, <2>3
<1> HIDE DEF S
<1>7. /\ vg' \in Group /\ vg'.hld = g.hld /\ vg'.act = g.act /\ vg'.stop = S /\ vg'.whl = g.whl
      /\ vg'.sa_lbuf = g.sa_lbuf /\ vg'.wheel_idx = g.wheel_idx /\ vg'.whl_seq_num = g.whl_seq_num
      /\ vg'.seq = g.seq /\ vg'.vgsa = g.vgsa /\ vg'.forcedoff = g.forcedoff
      /\ vg'.lsn = g.lsn /\ vg'.pvstate = g.pvstate
  BY <1>1, <1>2, <1>4 DEF Group
<1>8. Fewer(g, vg')
  BY <1>6, <1>7 DEF Fewer, Active
<1>9. Placed(vg', pb')
  <2>1. Listed(vg') = Listed(g) /\ Listed(g) \subseteq Pbuf
    BY <1>1, <1>7, Heads DEF Listed
  <2>2. \A r \in Listed(g) : pb'[r] = d.pb[r]
    BY <2>1, <1>1, <1>2
  <2> QED BY <2>1, <2>2, <1>1, <1>7 DEF Placed
<1>10. /\ config' \in Process /\ config'.op = c.op /\ config'.qrm = c.qrm /\ config'.sas = c.sas
       /\ config'.rtn = IF Cfg \in d.ok THEN "ok" ELSE IF Cfg \in d.err THEN "error" ELSE c.rtn
       /\ config'.pc = IF d.woken THEN "woken"
                       ELSE IF Cfg \in done /\ c.pc = "waiting2" THEN "woken2" ELSE c.pc
  BY <1>2 DEF Process, ConfigPc
<1>11. Cfg \in done => c.pc \in Asking
  BY <1>1 DEF CfgPlace
<1>12. Cfg \in Pbuf
  BY DEF Pbuf
<1>13. pb'[Cfg] # NULL => config'.pc \in Asking /\ config'.rtn = "none"
  <2>1. SUFFICES ASSUME pb'[Cfg] # NULL PROVE config'.pc \in Asking /\ config'.rtn = "none"
    OBVIOUS
  <2>2. Cfg \notin done /\ d.pb[Cfg] # NULL
    BY <1>2, <1>12, <2>1
  <2>3. c.pc \in Asking /\ c.rtn = "none"
    BY <2>2 DEF CfgPlace
  <2> QED BY <2>2, <2>3, <1>10 DEF Asking, done
<1>14. config'.pc # "idle" => c.pc # "idle" /\ config'.qrm = c.qrm
  BY <1>10
<1>15. config'.pc \in Taking => c.pc \in Taking /\ config'.rtn = c.rtn /\ config'.op = c.op
  <2>1. SUFFICES ASSUME config'.pc \in Taking PROVE c.pc \in Taking /\ config'.rtn = c.rtn
    BY <1>10
  <2>2. c.pc \in Taking
    BY <1>10, <2>1 DEF Taking
  <2>3. Cfg \notin done
    BY <1>11, <2>2 DEF Taking, Asking
  <2> QED BY <2>2, <2>3, <1>10 DEF done
<1>16. CfgPlace(pb', config')
  BY <1>13, <1>14, <1>15 DEF CfgPlace
<1>17. Flags(vg', config')
  <2>1. Steady(vg')
    BY <1>7 DEF Steady
  <2> QED BY <2>1, <1>7, <1>10 DEF Flags
<1>18. Turning(g) => Turning(vg')
  BY <1>1, <1>7, <1>8, FewerOK DEF Turning
<1>19. \A D : Current(g, D) => Current(vg', D)
  BY <1>1, <1>8, FewerOK
<1>20. \A X : Level(g, X) => Level(vg', X)
  <2>1. \A X : Levelled(g, X) => Levelled(vg', X)
    BY <1>1, <1>8, FewerOK
  <2>2. Active(vg') = Active(g)
    BY <1>7 DEF Active
  <2> QED BY <1>7, <2>1, <2>2 DEF Level
<1>21. Outside(config') = Outside(c)
  <2>1. c.pc \in Taking => config'.pc \in Taking
    BY <1>10 DEF Taking
  <2> QED BY <1>10, <1>15, <2>1 DEF Outside
<1>22. Active(vg') = Active(g)
  BY <1>7 DEF Active
<1> QED BY <1>3, <1>5, <1>7, <1>9, <1>10, <1>16, <1>17, <1>18, <1>19, <1>20, <1>21, <1>22

-----------------------------------------------------------------------------
(* What a step preserves.                                                   *)
Untorn ==
  LET s == vg.sa_lbuf IN
  s # NULL /\ vg'.vgsa # vg.vgsa => SaWriteEnds /\ (disk'[s] = vg.vgsa \/ s \notin Active(vg'))
Keeps == Base' /\ (Wide /\ NoNewDisk /\ Turn => Turn') /\ Untorn

LEMMA WorkOK ==
  ASSUME NEW g \in Group, NEW q \in Asked
  PROVE  LET w == Work(g, q)
         IN  /\ w \in Copy /\ w.vg = g /\ w.pb = q /\ w.ok = {} /\ w.err = {} /\ w.fresh = {}
             /\ ~w.updated /\ ~w.woken
             /\ Placed(g, q) => Sane(w)
BY DEF Work, Copy, Sane

(* The end of a write before the wheel advances: when it failed the PV is   *)
(* missing, and the number is new.                                          *)
LEMMA EndOfWrite ==
  ASSUME Base, NEW error \in BOOLEAN, hd_sa_iodone(error)
  PROVE  LET s == vg.sa_lbuf
             w == Work([vg EXCEPT !.sa_lbuf = NULL], pb)
             e == IF error
                  THEN hd_sa_update(hd_sa_qrmchk(SETSA_PVMISS(w, PvOf(s))))
                  ELSE w
             D == IF error THEN disk ELSE [disk EXCEPT ![s] = vg.vgsa]
         IN  /\ Sane(e) /\ e.pb = pb /\ e.fresh = {} /\ ~e.woken
             /\ e.vg.sa_lbuf = NULL /\ e.vg.whl = "active"
             /\ D[s] = vg.vgsa \/ s \notin Active(e.vg)
             /\ Wide /\ Turn =>
                  /\ Ordered(e.vg, {})
                  /\ Current(e.vg, D)
                  /\ ~e.vg.forcedoff => Even(e.vg, Ahead, Outside(config))
                  /\ ~e.vg.forcedoff =>
                       /\ \A x \in Near(e.vg) : Age(e.vg, x) <= 2 * (NSa - Ahead(e.vg, x)) + 2
                       /\ ~e.updated => Outdated(e.vg, Ahead)
                       /\ e.updated => AllOld(e.vg)
<1> DEFINE s == vg.sa_lbuf
           v == [vg EXCEPT !.sa_lbuf = NULL]
           w == Work(v, pb)
           m == SETSA_PVMISS(w, PvOf(s))
           k == hd_sa_qrmchk(m)
           e == IF error THEN hd_sa_update(k) ELSE w
           g == e.vg
           D == IF error THEN disk ELSE [disk EXCEPT ![s] = vg.vgsa]
<1>1. /\ vg \in Group /\ pb \in Asked /\ Placed(vg, pb) /\ Steady(vg) /\ disk \in Disks
  BY Types DEF Base, Flags
<1>2. s \in Sa /\ s # NULL /\ s = vg.wheel_idx /\ vg.whl = "active" /\ PvOf(s) \in Pv
  BY <1>1, GroupFields, PvOfIn DEF Steady, hd_sa_iodone
<1>3. /\ v \in Group /\ v.sa_lbuf = NULL /\ v.whl = "active" /\ v.wheel_idx = vg.wheel_idx
      /\ v.whl_seq_num = vg.whl_seq_num /\ v.hld = vg.hld /\ v.act = vg.act /\ v.stop = vg.stop
      /\ v.seq = vg.seq /\ v.vgsa = vg.vgsa /\ v.forcedoff = vg.forcedoff /\ v.lsn = vg.lsn
      /\ v.pvstate = vg.pvstate
  BY <1>1, <1>2 DEF Group
<1> HIDE DEF v
<1>4. /\ w \in Copy /\ w.vg = v /\ w.pb = pb /\ w.ok = {} /\ w.err = {} /\ w.fresh = {}
      /\ ~w.updated /\ ~w.woken /\ Sane(w)
  <2>1. Placed(v, pb)
    BY <1>1, <1>3 DEF Placed, Listed
  <2> QED BY <1>1, <1>3, <2>1, WorkOK
<1> HIDE DEF w
<1>5. Marked(w, k) /\ k \in Copy /\ s \notin Active(k.vg)
  <2>1. Marked(w, m) /\ s \notin Active(m.vg)
    BY <1>2, <1>4, PvMissOK
  <2> HIDE DEF m
  <2>2. Marked(m, k)
    BY <2>1, QrmchkOK DEF Marked
  <2> HIDE DEF k
  <2> QED BY <2>1, <2>2, MarkedTwice DEF Marked
<1> HIDE DEF k
<1>6. /\ e \in Copy /\ e.pb = pb /\ e.ok = {} /\ e.err = {} /\ e.fresh = {} /\ ~e.woken /\ e.updated = error
      /\ g.sa_lbuf = NULL /\ g.whl = "active" /\ g.wheel_idx = vg.wheel_idx /\ g.hld = vg.hld
      /\ g.act = vg.act /\ g.stop = vg.stop /\ g.seq = vg.seq
      /\ Active(g) \subseteq Active(vg) /\ (vg.forcedoff => g.forcedoff)
      /\ g.whl_seq_num = IF error THEN (vg.whl_seq_num + 1) % SEQNUMS ELSE vg.whl_seq_num
      /\ ~error => g.vgsa = vg.vgsa
      /\ error => s \notin Active(g)
  <2>1. Active(v) = Active(vg)
    BY <1>3 DEF Active
  <2>2. CASE error
    <3> DEFINE u == hd_sa_update(k)
    <3>1. /\ u \in Copy /\ u.updated /\ u.pb = k.pb /\ u.ok = k.ok /\ u.err = k.err
          /\ u.fresh = k.fresh /\ u.woken = k.woken
          /\ u.vg = [k.vg EXCEPT !.whl_seq_num = u.vg.whl_seq_num]
          /\ u.vg.whl_seq_num = IF k.updated THEN k.vg.whl_seq_num
                                ELSE (k.vg.whl_seq_num + 1) % SEQNUMS
      BY <1>5, UpdateOK
    <3>2. e = u
      BY <2>2
    <3> HIDE DEF u, e
    <3>3. k.vg \in Group
      BY <1>5, CopyFields
    <3>4. /\ u.vg.whl = k.vg.whl /\ u.vg.wheel_idx = k.vg.wheel_idx
          /\ u.vg.hld = k.vg.hld /\ u.vg.act = k.vg.act /\ u.vg.stop = k.vg.stop
          /\ u.vg.sa_lbuf = k.vg.sa_lbuf /\ u.vg.seq = k.vg.seq
          /\ u.vg.forcedoff = k.vg.forcedoff /\ Active(u.vg) = Active(k.vg)
      <4> DEFINE n == u.vg.whl_seq_num
                 h == u.vg
      <4>1. h = [k.vg EXCEPT !.whl_seq_num = n]
        BY <3>1
      <4> HIDE DEF n, h
      <4>2. /\ h.whl = k.vg.whl /\ h.wheel_idx = k.vg.wheel_idx
            /\ h.hld = k.vg.hld /\ h.act = k.vg.act /\ h.stop = k.vg.stop
            /\ h.sa_lbuf = k.vg.sa_lbuf /\ h.seq = k.vg.seq
            /\ h.forcedoff = k.vg.forcedoff /\ Active(h) = Active(k.vg)
        BY <3>3, <4>1, NumberOnly
      <4> QED BY <4>2 DEF h
    <3>5. u.updated = error
      BY <2>2, <3>1 DEF Copy
    <3>6. /\ k.pb = pb /\ k.ok = {} /\ k.err = {} /\ k.fresh = {} /\ ~k.woken /\ ~k.updated
          /\ k.vg.sa_lbuf = NULL /\ k.vg.whl = "active" /\ k.vg.wheel_idx = vg.wheel_idx
          /\ k.vg.hld = vg.hld /\ k.vg.act = vg.act /\ k.vg.stop = vg.stop /\ k.vg.seq = vg.seq
          /\ k.vg.whl_seq_num = vg.whl_seq_num
          /\ Active(k.vg) \subseteq Active(vg) /\ (vg.forcedoff => k.vg.forcedoff)
      BY <1>3, <1>4, <1>5, <2>1 DEF Marked
    <3> QED BY <1>5, <2>2, <3>1, <3>2, <3>4, <3>5, <3>6
  <2>3. CASE ~error
    <3>1. e = w
      BY <2>3
    <3> HIDE DEF e
    <3>2. w.updated = error
      BY <1>4, <2>3 DEF Copy
    <3> QED BY <1>3, <1>4, <2>1, <2>3, <3>1, <3>2
  <2> QED BY <2>2, <2>3
<1> HIDE DEF e
<1>7. Sane(e)
  <2>1. e.pb = w.pb /\ e.ok \cup e.err = w.ok \cup w.err /\ g.hld = w.vg.hld /\ g.act = w.vg.act
    BY <1>3, <1>4, <1>6
  <2> QED BY <1>4, <1>6, <2>1, SaneSame
<1>8. g \in Group
  BY <1>6, CopyFields
<1>9. ASSUME Wide, Turn
      PROVE  /\ Ordered(g, {}) /\ Current(g, D)
             /\ ~g.forcedoff => Even(g, Ahead, Outside(config))
             /\ ~g.forcedoff =>
                  /\ \A x \in Near(g) : Age(g, x) <= 2 * (NSa - Ahead(g, x)) + 2
                  /\ ~e.updated => Outdated(g, Ahead)
                  /\ e.updated => AllOld(g)
  <2>1. \A x : Ahead(g, x) = Ahead(vg, x)
    BY <1>6 DEF Ahead
  <2>2. Near(g) \subseteq Near(vg) /\ Near(vg) \subseteq Sa
    BY <1>1, <1>6, NearIn DEF Near
  <2>3. Ordered(vg, {}) /\ (~vg.forcedoff => Outdated(vg, Ahead) /\ Aged(vg, Ahead, 1))
    BY <1>2, <1>9 DEF Turn, Turning, Spinning
  <2>4. \A j : StopAt(g, j) = StopAt(vg, j)
    BY <1>6, <2>1 DEF StopAt
  <2>5. Ordered(g, {})
    BY <1>6, <2>3, <2>4 DEF Ordered
  <2>6. \A x \in Sa : Age(vg, x) \in Int /\ Ahead(vg, x) \in 1..NSa
    BY <1>1, AheadIn
  <2>7. CASE error
    <3>1. ASSUME ~g.forcedoff
          PROVE  /\ AllOld(g)
                 /\ \A x \in Near(g) : Age(g, x) <= 2 * (NSa - Ahead(g, x)) + 2
      <4>1. \A x \in Near(vg) : Age(vg, x) <= 2 * (NSa - Ahead(vg, x)) + 1
        BY <1>6, <2>3, <3>1 DEF Aged
      <4>2. \A x \in Near(vg) : Age(vg, x) <= 2 * NSa
        BY <2>2, <2>6, <4>1, Sizes
      <4>3. AllOld(g) /\ \A x \in Near(g) : Age(g, x) = Age(vg, x) + 1
        BY <1>1, <1>6, <1>8, <1>9, <2>2, <2>7, <4>2, NewNumber
      <4>4. ASSUME NEW x \in Near(g) PROVE Age(g, x) <= 2 * (NSa - Ahead(g, x)) + 2
        <5>1. x \in Near(vg) /\ x \in Sa
          BY <2>2
        <5>2. Age(vg, x) <= 2 * (NSa - Ahead(vg, x)) + 1 /\ Age(g, x) = Age(vg, x) + 1
          BY <4>1, <4>3, <5>1
        <5>3. Ahead(g, x) = Ahead(vg, x) /\ Age(vg, x) \in Int /\ Ahead(vg, x) \in 1..NSa
          BY <2>1, <2>6, <5>1
        <5> QED BY <5>2, <5>3, Sizes
      <4> QED BY <4>3, <4>4
    <3>2. Current(g, D)
      BY <3>1 DEF Current, AllOld, Near
    <3>3. ~g.forcedoff => Even(g, Ahead, Outside(config))
      BY <3>1 DEF Even, AllOld, Near
    <3> QED BY <1>6, <2>5, <2>7, <3>1, <3>2, <3>3
  <2>8. CASE ~error
    <3>1. \A x : Age(g, x) = Age(vg, x)
      BY <1>6, <2>8 DEF Age
    <3>2. ASSUME ~g.forcedoff, NEW x \in Near(g) PROVE Age(g, x) <= 2 * (NSa - Ahead(g, x)) + 2
      <4>1. x \in Near(vg) /\ x \in Sa
        BY <2>2, <3>2
      <4>2. Age(vg, x) <= 2 * (NSa - Ahead(vg, x)) + 1
        BY <1>6, <2>3, <3>2, <4>1 DEF Aged
      <4>3. Ahead(g, x) = Ahead(vg, x) /\ Age(vg, x) \in Int /\ Ahead(vg, x) \in 1..NSa
        BY <2>1, <2>6, <4>1
      <4> QED BY <3>1, <4>2, <4>3, Sizes
    <3>3. ASSUME ~g.forcedoff PROVE Outdated(g, Ahead)
      BY <1>6, <2>1, <2>3, <2>4, <2>8, <3>3 DEF Outdated
    <3>4. Current(g, D)
      <4>1. SUFFICES ASSUME ~g.forcedoff, NEW x \in Active(g), g.seq[x] = g.whl_seq_num
                     PROVE  D[x] = g.vgsa
        BY <1>6 DEF Current
      <4>2. x \in Active(vg) /\ x \in Sa /\ vg.seq[x] = vg.whl_seq_num /\ ~vg.forcedoff /\ g.vgsa = vg.vgsa
        BY <1>6, <1>8, <2>8, <4>1, NearIn
      <4>3. CASE x = s
        BY <1>1, <2>8, <4>2, <4>3 DEF Disks
      <4>4. CASE x # s
        <5>1. disk[x] = vg.vgsa
          BY <1>9, <4>2, <4>4 DEF Turn, Current
        <5> QED BY <1>1, <2>8, <4>2, <4>4, <5>1 DEF Disks
      <4> QED BY <4>3, <4>4
    <3>5. ASSUME ~g.forcedoff PROVE Even(g, Ahead, Outside(config))
      <4>1. Even(vg, Ahead, Outside(config))
        BY <1>2, <1>6, <1>9, <3>5 DEF Turn, Level, Levelled
      <4>2. Active(g) \subseteq Active(vg) /\ g.seq = vg.seq /\ g.whl_seq_num = vg.whl_seq_num
        BY <1>6, <2>8
      <4> QED BY <2>1, <4>1, <4>2 DEF Even
    <3> QED BY <1>6, <2>5, <2>8, <3>2, <3>3, <3>4, <3>5
  <2> QED BY <2>7, <2>8
<1>11. D[s] = vg.vgsa \/ s \notin Active(g)
  BY <1>1, <1>2, <1>6 DEF Disks
<1>10. /\ Sane(e) /\ e.pb = pb /\ e.fresh = {} /\ ~e.woken
       /\ e.vg.sa_lbuf = NULL /\ e.vg.whl = "active"
       /\ D[s] = vg.vgsa \/ s \notin Active(e.vg)
       /\ Wide /\ Turn =>
            /\ Ordered(e.vg, {})
            /\ Current(e.vg, D)
            /\ ~e.vg.forcedoff => Even(e.vg, Ahead, Outside(config))
            /\ ~e.vg.forcedoff =>
                 /\ \A x \in Near(e.vg) : Age(e.vg, x) <= 2 * (NSa - Ahead(e.vg, x)) + 2
                 /\ ~e.updated => Outdated(e.vg, Ahead)
                 /\ e.updated => AllOld(e.vg)
  BY <1>6, <1>7, <1>9, <1>11
<1> HIDE DEF D
<1> QED BY <1>10, Zenon DEF e, k, m, w, v, s, D

(* The advance after the end of a write.                                    *)
LEMMA AdvanceOK ==
  ASSUME NEW e, Sane(e), e.fresh = {}, ~e.woken, e.vg.sa_lbuf = NULL, e.vg.whl = "active"
  PROVE  LET x == hd_sa_whladv(e)
         IN  /\ Sane(x) /\ x.pb = e.pb /\ x.fresh = {} /\ ~x.woken
             /\ x.vg.sa_lbuf = NULL /\ x.vg.whl = "active"
             /\ Active(x.vg) \subseteq Active(e.vg)
             /\ \A D : Current(e.vg, D) => Current(x.vg, D)
             /\ \A X : (~e.vg.forcedoff => Even(e.vg, Ahead, X)) => Levelled(x.vg, X)
             /\ /\ Ordered(e.vg, {})
                /\ ~e.vg.forcedoff =>
                     /\ \A s \in Near(e.vg) : Age(e.vg, s) <= 2 * (NSa - Ahead(e.vg, s)) + 2
                     /\ ~e.updated => Outdated(e.vg, Ahead)
                     /\ e.updated => AllOld(e.vg)
                => Landed(x)
<1> DEFINE x == hd_sa_whladv(e)
           g == e.vg
           h == x.vg
<1>1. Sane(x) /\ Advanced(e, x) /\ Lands(e, x)
  BY WhladvOK
<1> HIDE DEF x
<1>2. g \in Group /\ h \in Group /\ e \in Copy /\ e.updated \in BOOLEAN
  <2>1. e \in Copy /\ x \in Copy
    BY <1>1 DEF Sane
  <2> QED BY <2>1, CopyFields
<1>3. /\ x.pb = e.pb /\ x.fresh = {} /\ ~x.woken /\ x.updated = e.updated
      /\ h.sa_lbuf = NULL /\ h.whl = "active" /\ h.seq = g.seq /\ h.whl_seq_num = g.whl_seq_num
      /\ h.vgsa = g.vgsa /\ h.forcedoff = g.forcedoff /\ Active(h) \subseteq Active(g)
  BY <1>1 DEF Advanced
<1>4. \A D : Current(g, D) => Current(h, D)
  BY <1>3 DEF Current
<1>6. \A X : (~g.forcedoff => Even(g, Ahead, X)) => Levelled(h, X)
  <2>1. \A s \in Active(h) : Landing(h, s) < Ahead(g, s)
    BY <1>1 DEF Lands
  <2>2. \A X : Even(g, Ahead, X) => Even(h, Landing, X)
    BY <1>2, <1>3, <2>1, EvenKept
  <2> QED BY <1>3, <2>2 DEF Levelled
<1>5. ASSUME Ordered(g, {}),
             ~g.forcedoff => /\ \A s \in Near(g) : Age(g, s) <= 2 * (NSa - Ahead(g, s)) + 2
                             /\ ~e.updated => Outdated(g, Ahead)
                             /\ e.updated => AllOld(g)
      PROVE  Landed(x)
  <2>1. Ordered(h, {})
    BY <1>1, <1>5 DEF Lands
  <2>2. SUFFICES ASSUME ~h.forcedoff
                 PROVE  Outdated(h, Landing) /\ Aged(h, Landing, 0) /\ (x.updated => AllOld(h))
    BY <2>1 DEF Landed
  <2>3. \/ h.wheel_idx \in Active(h)
        \/ h.wheel_idx = g.wheel_idx
    BY <1>1 DEF Lands
  <2>4. Near(h) \subseteq Near(g) /\ Near(g) \subseteq Sa
    BY <1>2, <1>3, <2>3, NearIn DEF Near
  <2>5. x.updated => AllOld(h)
    BY <1>3, <1>5, <2>2, <2>4 DEF AllOld
  <2>6. Outdated(h, Landing)
    <3>1. CASE e.updated
      BY <1>3, <2>5, <3>1 DEF Outdated, AllOld, Near
    <3>2. CASE ~e.updated
      BY <1>1, <1>3, <1>5, <2>2, <3>2 DEF Lands
    <3> QED BY <3>1, <3>2
  <2>7. Aged(h, Landing, 0)
    <3>1. SUFFICES ASSUME NEW s \in Near(h) PROVE Age(h, s) <= 2 * (NSa - Landing(h, s)) + 0
      BY DEF Aged
    <3>2. s \in Near(g) /\ s \in Sa /\ Age(h, s) = Age(g, s)
      BY <1>3, <2>4, <3>1 DEF Age
    <3>3. Age(g, s) <= 2 * (NSa - Ahead(g, s)) + 2
      BY <1>3, <1>5, <2>2, <3>2
    <3>4. /\ Age(g, s) \in Int /\ Ahead(g, s) \in 1..NSa /\ Ahead(g, g.wheel_idx) = NSa
          /\ Landing(h, s) \in 0..NSa - 1 /\ Landing(h, h.wheel_idx) = 0
      BY <1>2, <3>2, AheadIn
    <3>5. Landing(h, s) < Ahead(g, s)
      <4>1. CASE s \in Active(h)
        BY <1>1, <4>1 DEF Lands
      <4>2. CASE s \notin Active(h)
        <5>1. s = h.wheel_idx /\ s = g.wheel_idx
          BY <2>3, <3>1, <4>2 DEF Near
        <5> QED BY <3>4, <5>1, Sizes
      <4> QED BY <4>1, <4>2
    <3> QED BY <3>2, <3>3, <3>4, <3>5, Sizes
  <2> QED BY <2>5, <2>6, <2>7
<1> QED BY <1>1, <1>3, <1>4, <1>5, <1>6 DEF x

(* hd_sa_iodone.                                                            *)
LEMMA IodoneOK ==
  ASSUME Base, NEW error \in BOOLEAN, hd_sa_iodone(error)
  PROVE  Keeps
<1> DEFINE s == vg.sa_lbuf
           w == Work([vg EXCEPT !.sa_lbuf = NULL], pb)
           e == IF error
                THEN hd_sa_update(hd_sa_qrmchk(SETSA_PVMISS(w, PvOf(s))))
                ELSE w
           D == IF error THEN disk ELSE [disk EXCEPT ![s] = vg.vgsa]
           x == hd_sa_whladv(e)
           d == hd_sa_cont(x)
<1>1. /\ Sane(e) /\ e.pb = pb /\ e.fresh = {} /\ ~e.woken
      /\ e.vg.sa_lbuf = NULL /\ e.vg.whl = "active"
      /\ D[s] = vg.vgsa \/ s \notin Active(e.vg)
      /\ Wide /\ Turn =>
           /\ Ordered(e.vg, {})
           /\ Current(e.vg, D)
           /\ ~e.vg.forcedoff => Even(e.vg, Ahead, Outside(config))
           /\ ~e.vg.forcedoff =>
                /\ \A y \in Near(e.vg) : Age(e.vg, y) <= 2 * (NSa - Ahead(e.vg, y)) + 2
                /\ ~e.updated => Outdated(e.vg, Ahead)
                /\ e.updated => AllOld(e.vg)
  BY EndOfWrite, Zenon
<1>2. hd_sa_rtn(d, ppstate, config) /\ disk' = D
  BY Zenon DEF hd_sa_iodone
<1>3. vg \in Group /\ disk \in Disks /\ ppstate \in Parts /\ config \in Process /\ CfgPlace(pb, config)
  BY Types DEF Base
<1>4. vg.vgsa \in Image
  BY <1>3, GroupFields
<1>5. D \in Disks
  BY <1>3, <1>4 DEF Disks
<1>6. vg.whl = "active"
  BY DEF Base, Flags, Steady, hd_sa_iodone
<1> HIDE DEF e, D
<1>7. /\ Sane(x) /\ x.pb = e.pb /\ x.fresh = {} /\ ~x.woken
      /\ x.vg.sa_lbuf = NULL /\ x.vg.whl = "active"
      /\ Active(x.vg) \subseteq Active(e.vg)
      /\ \A C : Current(e.vg, C) => Current(x.vg, C)
      /\ \A X : (~e.vg.forcedoff => Even(e.vg, Ahead, X)) => Levelled(x.vg, X)
      /\ /\ Ordered(e.vg, {})
         /\ ~e.vg.forcedoff =>
              /\ \A y \in Near(e.vg) : Age(e.vg, y) <= 2 * (NSa - Ahead(e.vg, y)) + 2
              /\ ~e.updated => Outdated(e.vg, Ahead)
              /\ e.updated => AllOld(e.vg)
         => Landed(x)
  BY <1>1, AdvanceOK
<1> HIDE DEF x
<1>8. /\ Sane(d) /\ d.pb = x.pb /\ Steady(d.vg)
      /\ d.woken => config.pc = "waiting" /\ d.vg.whl = "held"
      /\ Active(d.vg) \subseteq Active(x.vg)
      /\ Wide /\ Landed(x) =>
           /\ Turning(d.vg)
           /\ \A C : Current(x.vg, C) \/ (config.pc # "waiting" /\ Renews(x)) => Current(d.vg, C)
           /\ \A X : Levelled(x.vg, X) \/ (config.pc # "waiting" /\ Renews(x)) => Level(d.vg, X)
  BY <1>7, ContOK
<1> HIDE DEF d
<1>9. config.pc # "control" /\ config.pc # "woken"
  BY <1>6 DEF Base, Flags
<1>10. /\ vg' \in Group /\ pb' \in Asked /\ ppstate' \in Parts /\ config' \in Process
       /\ Placed(vg', pb') /\ CfgPlace(pb', config') /\ Flags(vg', config')
       /\ Turning(d.vg) => Turning(vg')
       /\ \A C : Current(d.vg, C) => Current(vg', C)
       /\ \A X : Level(d.vg, X) => Level(vg', X)
       /\ Outside(config') = Outside(config)
       /\ Active(vg') = Active(d.vg)
  BY <1>1, <1>2, <1>3, <1>7, <1>8, <1>9, RtnOK
<1>11. Base'
  BY <1>2, <1>5, <1>10, Types DEF Base, TypeOK, Group, Disks, Asked, Parts, Process
<1>12. ASSUME Wide, Turn PROVE Turn'
  <2>1. Turning(d.vg) /\ Current(d.vg, D)
    BY <1>1, <1>7, <1>8, <1>12
  <2>2. Level(d.vg, Outside(config))
    BY <1>1, <1>7, <1>8, <1>12
  <2> QED BY <1>2, <1>10, <2>1, <2>2 DEF Turn
<1>13. Untorn
  <2>1. SaWriteEnds
    BY DEF SaWriteEnds
  <2>2. Active(vg') \subseteq Active(e.vg)
    BY <1>7, <1>8, <1>10
  <2> QED BY <1>1, <1>2, <2>1, <2>2 DEF Untorn
<1> QED BY <1>11, <1>12, <1>13 DEF Keeps

-----------------------------------------------------------------------------
LEMMA OneAndNone ==
  ASSUME NEW r \in Pbuf
  PROVE  /\ <<r>> \in Seq(Pbuf) /\ IsInjective(<<r>>) /\ Range(<<r>>) = {r}
         /\ <<>> \in Seq(Pbuf) /\ IsInjective(<<>>) /\ Range(<<>>) = {}
<1>1. <<r>> \in Seq(Pbuf) /\ <<>> \in Seq(Pbuf)
  OBVIOUS
<1>2. IsInjective(<<r>>) /\ Range(<<r>>) = {r} /\ IsInjective(<<>>) /\ Range(<<>>) = {}
  BY DEF IsInjective, Range
<1> QED BY <1>1, <1>2

(* A request in a buffer that is free.                                      *)
LEMMA NewRequest ==
  ASSUME NEW g \in Group, pb \in Asked, Placed(g, pb), NEW r \in Pbuf, pb[r] = NULL,
         NEW q \in Request
  PROVE  LET n == [pb EXCEPT ![r] = q]
         IN  /\ n \in Asked /\ Placed(g, n) /\ n[r] = q /\ q # NULL /\ r \notin Listed(g)
             /\ \A x \in Pbuf : x # r => n[x] = pb[x]
<1> DEFINE n == [pb EXCEPT ![r] = q]
<1>1. n \in Asked /\ n[r] = q /\ q # NULL /\ \A x \in Pbuf : x # r => n[x] = pb[x]
  BY NullAssumption DEF Asked
<1>2. r \notin Listed(g) /\ Listed(g) \subseteq Pbuf
  BY Heads DEF Placed
<1> HIDE DEF n
<1>3. Placed(g, n)
  BY <1>1, <1>2 DEF Placed
<1> QED BY <1>1, <1>2, <1>3 DEF n

(* hd_sa_strt and the return of what it finds done.                         *)
LEMMA StrtRtn ==
  ASSUME NEW g \in Group, NEW q \in Asked, Placed(g, q),
         g.whl = "active" <=> g.sa_lbuf # NULL, g.sa_lbuf \in {NULL, g.wheel_idx},
         NEW list \in Seq(Pbuf), IsInjective(list),
         \A r \in Range(list) : r \notin Listed(g) /\ q[r] # NULL,
         NEW parts \in Parts, NEW c \in Process, CfgPlace(q, c),
         config.pc = "waiting" => c.pc = "waiting", c.pc # "control", c.pc = "woken" => g.whl = "held",
         hd_sa_rtn(hd_sa_strt(Work(g, q), list), parts, c), disk' \in Disks
  PROVE  /\ Base'
         /\ Wide /\ Spinning(g) =>
              /\ Turning(vg')
              /\ \A D : \/ Current(g, D)
                        \/ /\ g.whl = "stopped" /\ config.pc # "waiting"
                           /\ \E r \in Range(list) : q[r].type = "SA_CONFIGOP"
                        => Current(vg', D)
              /\ \A X : \/ Level(g, X)
                        \/ /\ g.whl = "stopped" /\ Levelled(g, X)
                        \/ /\ g.whl = "stopped" /\ config.pc # "waiting"
                           /\ \E r \in Range(list) : q[r].type = "SA_CONFIGOP"
                        => Level(vg', X)
         /\ Outside(config') = Outside(c)
         /\ g.whl # "stopped" => vg'.vgsa = g.vgsa
<1> DEFINE w == Work(g, q)
           d == hd_sa_strt(w, list)
<1>1. /\ w \in Copy /\ w.vg = g /\ w.pb = q /\ w.ok = {} /\ w.err = {} /\ w.fresh = {}
      /\ ~w.updated /\ ~w.woken /\ Sane(w)
  BY WorkOK
<1>2. hd_sa_rtn(d, parts, c)
  OBVIOUS
<1> HIDE DEF w
<1>3. \A r \in Range(list) : r \notin Listed(w.vg) \cup w.ok \cup w.err /\ w.pb[r] # NULL
  BY <1>1
<1>4. /\ Sane(d) /\ d.pb = w.pb /\ Steady(d.vg)
      /\ d.woken => config.pc = "waiting" /\ d.vg.whl = "held"
      /\ w.vg.whl # "stopped" => d.vg.whl = w.vg.whl /\ d.vg.vgsa = w.vg.vgsa
      /\ Wide /\ Spinning(w.vg) =>
           /\ Turning(d.vg)
           /\ \A D : \/ Current(w.vg, D)
                     \/ /\ w.vg.whl = "stopped" /\ config.pc # "waiting"
                        /\ \E r \in Range(list) : w.pb[r].type = "SA_CONFIGOP"
                     => Current(d.vg, D)
           /\ \A X : \/ Level(w.vg, X)
                     \/ /\ w.vg.whl = "stopped" /\ Levelled(w.vg, X)
                     \/ /\ w.vg.whl = "stopped" /\ config.pc # "waiting"
                        /\ \E r \in Range(list) : w.pb[r].type = "SA_CONFIGOP"
                     => Level(d.vg, X)
  BY <1>1, <1>3, StrtOK
<1> HIDE DEF d
<1>5. /\ CfgPlace(d.pb, c) /\ (d.woken => c.pc = "waiting" /\ d.vg.whl = "held")
      /\ (c.pc = "control" => d.vg.whl # "active") /\ (c.pc = "woken" => d.vg.whl = "held")
  BY <1>1, <1>4
<1>6. /\ vg' \in Group /\ pb' \in Asked /\ ppstate' \in Parts /\ config' \in Process
      /\ Placed(vg', pb') /\ CfgPlace(pb', config') /\ Flags(vg', config')
      /\ Turning(d.vg) => Turning(vg')
      /\ \A D : Current(d.vg, D) => Current(vg', D)
      /\ \A X : Level(d.vg, X) => Level(vg', X)
      /\ Outside(config') = Outside(c)
      /\ vg'.vgsa = d.vg.vgsa
  BY <1>2, <1>4, <1>5, RtnOK
<1>7. Base'
  BY <1>6, Types DEF Base, TypeOK, Group, Disks, Asked, Parts, Process
<1> QED BY <1>1, <1>4, <1>6, <1>7

(* A request of an I/O handler.                                             *)
LEMMA SubmitOK ==
  ASSUME Base, NEW g \in Group, Placed(g, pb), Steady(g), Fewer(vg, g),
         g.whl = vg.whl, LockFree, NEW r \in Req, pb[r] = NULL, NEW q \in Request,
         NEW parts \in Parts, Submit(r, q, parts, g)
  PROVE  Keeps
<1>1. /\ vg \in Group /\ pb \in Asked /\ disk \in Disks /\ config \in Process /\ CfgPlace(pb, config)
      /\ Flags(vg, config)
  BY Types DEF Base
<1>2. /\ Spinning(vg) => Spinning(g)
      /\ \A D : Current(vg, D) => Current(g, D)
      /\ \A X : Level(vg, X) => Level(g, X)
  <2>1. \A X : Levelled(vg, X) => Levelled(g, X)
    BY <1>1, FewerOK
  <2>2. \A X : Level(vg, X) => Level(g, X)
    BY <2>1 DEF Level, Fewer
  <2> QED BY <1>1, <2>2, FewerOK
<1>3. CASE vg.forcedoff
  <2>1. vg' = g /\ ppstate' = parts /\ disk' = disk /\ pb' = pb /\ config' = config
    BY <1>3 DEF Submit
  <2>2. Flags(g, config)
    BY <1>1 DEF Flags
  <2>3. Base'
    BY <1>1, <2>1, <2>2, Types DEF Base, TypeOK, Group, Disks, Asked, Parts, Process
  <2>4. Turn => Turn'
    BY <1>2, <2>1 DEF Turn, Turning, Fewer
  <2>5. Untorn
    BY <2>1 DEF Untorn, Fewer
  <2> QED BY <2>3, <2>4, <2>5 DEF Keeps
<1>4. CASE ~vg.forcedoff
  <2> DEFINE n == [pb EXCEPT ![r] = q]
  <2>1. hd_sa_rtn(hd_sa_strt(Work(g, n), <<r>>), parts, config) /\ disk' = disk
    BY <1>4 DEF Submit
  <2>2. r \in Pbuf /\ r # Cfg /\ Cfg \in Pbuf
    BY PbufAssumption DEF Pbuf
  <2>3. /\ n \in Asked /\ Placed(g, n) /\ n[r] = q /\ q # NULL /\ r \notin Listed(g)
        /\ \A x \in Pbuf : x # r => n[x] = pb[x]
    BY <1>1, <2>2, NewRequest
  <2> HIDE DEF n
  <2>4. /\ <<r>> \in Seq(Pbuf) /\ IsInjective(<<r>>) /\ Range(<<r>>) = {r}
    BY <2>2, OneAndNone
  <2>5. CfgPlace(n, config)
    BY <1>1, <2>2, <2>3 DEF CfgPlace
  <2>6. config.pc # "control" /\ (config.pc = "woken" => g.whl = "held")
    BY <1>1 DEF Flags, LockFree, HoldsLock
  <2>7. (g.whl = "active" <=> g.sa_lbuf # NULL) /\ g.sa_lbuf \in {NULL, g.wheel_idx}
    BY DEF Steady
  <2>8. /\ Base'
        /\ Wide /\ Spinning(g) =>
             /\ Turning(vg')
             /\ \A D : \/ Current(g, D)
                       \/ /\ g.whl = "stopped" /\ config.pc # "waiting"
                          /\ \E x \in Range(<<r>>) : n[x].type = "SA_CONFIGOP"
                       => Current(vg', D)
             /\ \A X : \/ Level(g, X)
                       \/ /\ g.whl = "stopped" /\ Levelled(g, X)
                       \/ /\ g.whl = "stopped" /\ config.pc # "waiting"
                          /\ \E x \in Range(<<r>>) : n[x].type = "SA_CONFIGOP"
                       => Level(vg', X)
        /\ Outside(config') = Outside(config)
        /\ g.whl # "stopped" => vg'.vgsa = g.vgsa
    BY <1>1, <2>1, <2>3, <2>4, <2>5, <2>6, <2>7, StrtRtn
  <2>9. Wide /\ Turn => Turn'
    BY <1>2, <2>1, <2>8 DEF Turn, Turning
  <2>10. Untorn
    BY <1>1, <2>8 DEF Untorn, Fewer, Flags, Steady
  <2> QED BY <2>8, <2>9, <2>10 DEF Keeps
<1> QED BY <1>3, <1>4

(* hd_stalepp, hd_freshpp and hd_ca_wend.                                   *)
LEMMA IoRequestOK == ASSUME Base, IoRequest PROVE Keeps
<1>1. /\ vg \in Group /\ pb \in Asked /\ ppstate \in Parts /\ Placed(vg, pb) /\ Steady(vg)
  BY Types DEF Base, Flags
<1>2. Fewer(vg, vg)
  BY DEF Fewer
<1>3. ASSUME NEW r \in Req, NEW lp \in Lp, NEW m \in SUBSET Mirror, hd_stalepp(r, lp, m)
      PROVE  Keeps
  <2> DEFINE bad == {x \in m : Stale(<<lp, x>>) => Changing(<<lp, x>>)}
             q == [type |-> "SA_STALEPP", lp |-> lp, mir |-> bad]
             parts == [p \in Pp |-> IF p \in {lp} \X bad THEN {"PP_STALE", "PP_CHGING"}
                                                         ELSE ppstate[p]]
  <2>1. LockFree /\ pb[r] = NULL /\ Submit(r, q, parts, vg)
    BY <1>3 DEF hd_stalepp
  <2>2. bad \in SUBSET Mirror
    OBVIOUS
  <2> HIDE DEF bad
  <2>3. q \in Request
    BY <2>2 DEF Request
  <2>4. parts \in Parts
    BY <1>1 DEF Parts
  <2> HIDE DEF q, parts
  <2> QED BY <1>1, <1>2, <2>1, <2>3, <2>4, SubmitOK
<1>4. ASSUME NEW r \in Req, NEW lp \in Lp, NEW m \in SUBSET Mirror, hd_freshpp(r, lp, m)
      PROVE  Keeps
  <2> DEFINE q == [type |-> "SA_FRESHPP", lp |-> lp, mir |-> m]
             parts == [p \in Pp |-> IF p \in {lp} \X m THEN ppstate[p] \ {"PP_STALE"}
                                                       ELSE ppstate[p]]
  <2>1. LockFree /\ pb[r] = NULL /\ Submit(r, q, parts, vg)
    BY <1>4 DEF hd_freshpp
  <2>2. q \in Request
    BY DEF Request
  <2>3. parts \in Parts
    BY <1>1 DEF Parts
  <2> HIDE DEF q, parts
  <2> QED BY <1>1, <1>2, <2>1, <2>2, <2>3, SubmitOK
<1>5. ASSUME NEW r \in Req, NEW p \in Pv, hd_ca_wend(r, p)
      PROVE  Keeps
  <2> DEFINE q == [type |-> "SA_PVMISSING", pv |-> p]
             s == [vg.pvstate EXCEPT ![p] = "PV_MISSING"]
             g == [vg EXCEPT !.pvstate = s]
  <2>1. LockFree /\ pb[r] = NULL /\ Submit(r, q, ppstate, g)
    BY <1>5 DEF hd_ca_wend
  <2>2. q \in Request
    BY DEF Request
  <2>3. vg.pvstate \in [Pv -> {"NULL", "PV_DEFINED", "PV_MISSING"}]
    BY <1>1, GroupFields
  <2>4. s \in [Pv -> {"NULL", "PV_DEFINED", "PV_MISSING"}] /\ \A x \in Pv : s[x] = "PV_DEFINED" => vg.pvstate[x] = "PV_DEFINED"
    BY <2>3
  <2> HIDE DEF q, s
  <2>5. /\ g \in Group /\ g.pvstate = s /\ g.whl = vg.whl /\ g.sa_lbuf = vg.sa_lbuf
        /\ g.wheel_idx = vg.wheel_idx /\ g.whl_seq_num = vg.whl_seq_num /\ g.hld = vg.hld
        /\ g.act = vg.act /\ g.stop = vg.stop /\ g.seq = vg.seq /\ g.vgsa = vg.vgsa
        /\ g.forcedoff = vg.forcedoff /\ g.lsn = vg.lsn
    BY <1>1, <2>4 DEF Group
  <2> HIDE DEF g
  <2>6. Active(g) \subseteq Active(vg)
    <3>1. \A x \in vg.lsn : PvOf(x) \in Pv
      BY <1>1, GroupFields, PvOfIn
    <3> QED BY <3>1, <2>4, <2>5 DEF Active
  <2>7. Placed(g, pb) /\ Steady(g) /\ Fewer(vg, g)
    BY <1>1, <2>5, <2>6 DEF Placed, Listed, Steady, Fewer
  <2> QED BY <1>1, <2>1, <2>2, <2>5, <2>7, SubmitOK
<1> QED BY <1>3, <1>4, <1>5 DEF IoRequest

(* A step that leaves the wheel alone, but for SAs that it takes away.      *)
LEMMA AsideOK ==
  ASSUME Base, vg' \in Group, vg'.hld = vg.hld, vg'.whl = vg.whl, Fewer(vg, vg'),
         config' \in Process, CfgPlace(pb, config'),
         config'.pc = "control" => vg.whl # "active", config'.pc = "woken" => vg.whl = "held",
         vg.forcedoff \/ Outside(config) \subseteq Outside(config'),
         UNCHANGED <<disk, pb, ppstate>>
  PROVE  Keeps
<1>1. /\ vg \in Group /\ pb \in Asked /\ disk \in Disks /\ ppstate \in Parts /\ Steady(vg)
      /\ Placed(vg, pb)
  BY Types DEF Base, Flags
<1>2. Placed(vg', pb') /\ Flags(vg', config') /\ CfgPlace(pb', config')
  BY <1>1 DEF Placed, Listed, Flags, Steady, Fewer
<1>3. Base'
  BY <1>1, <1>2, Types DEF Base, TypeOK, Group, Disks, Asked, Parts, Process
<1>4. Turn => Turning(vg)' /\ Current(vg, disk)'
  BY <1>1, FewerOK DEF Turn, Turning, Fewer
<1>5. ASSUME Level(vg, Outside(config)) PROVE Level(vg', Outside(config'))
  <2> DEFINE X == Outside(config)
             Y == Outside(config')
  <2>1. Levelled(vg', X)
    BY <1>1, <1>5, FewerOK DEF Level
  <2>2. CASE vg.forcedoff
    BY <2>2 DEF Fewer, Level, Levelled
  <2>3. CASE X \subseteq Y
    <3> HIDE DEF X, Y
    <3>1. Levelled(vg', Y)
      BY <2>1, <2>3 DEF Levelled, Even
    <3>2. vg'.whl = "stopped" /\ ~vg'.forcedoff => \A t \in Active(vg') \ Y : vg'.seq[t] = vg'.whl_seq_num
      BY <1>5, <2>3 DEF Level, Fewer, X
    <3> QED BY <3>1, <3>2 DEF Level, Y
  <2> QED BY <2>2, <2>3
<1>6. Turn => Turn'
  BY <1>4, <1>5 DEF Turn
<1>7. Untorn
  BY DEF Untorn, Fewer
<1> QED BY <1>3, <1>6, <1>7 DEF Keeps

LEMMA IdleIn == Idle \in Process
<1>1. 0 \in Pv
  BY SizeAssumption DEF Pv
<1> QED BY <1>1 DEF Idle, Process, ConfigPc, HoldsLock

(* The process returns, or goes from one place to another.                  *)
LEMMA GoOn ==
  ASSUME Base, UNCHANGED <<vg, disk, pb, ppstate>>, config' \in Process, CfgPlace(pb, config'),
         config'.pc = "control" => vg.whl # "active", config'.pc = "woken" => vg.whl = "held",
         vg.forcedoff \/ Outside(config) \subseteq Outside(config')
  PROVE  Keeps
<1>1. vg \in Group
  BY Types DEF Base
<1>2. Fewer(vg, vg')
  BY DEF Fewer
<1> QED BY <1>1, <1>2, AsideOK

(* hd_sa_config leaves without a request.                                   *)
LEMMA LeaveOK ==
  ASSUME Base, pb[Cfg] = NULL, Leave, vg.forcedoff \/ config.op # "HD_KADDVGSA"
  PROVE  Keeps
<1>1. config' = Idle /\ UNCHANGED <<vg, disk, pb, ppstate>>
  BY DEF Leave
<1>2. config'.pc = "idle"
  BY <1>1 DEF Idle
<1>3. CfgPlace(pb, config')
  BY <1>2 DEF CfgPlace, Taking
<1>4. vg.forcedoff \/ Outside(config) \subseteq Outside(config')
  BY DEF Outside
<1> QED BY <1>1, <1>2, <1>3, <1>4, IdleIn, GoOn

LEMMA ReturnOK ==
  ASSUME Base, pb[Cfg] = NULL, config.pc \notin Taking, Return
  PROVE  Keeps
<1> DEFINE g == [vg EXCEPT !.lsn = @ \ SasOf(config.pv)]
<1>1. vg \in Group
  BY Types DEF Base
<1>2. vg' \in {vg, g} /\ config' = Idle /\ UNCHANGED <<disk, pb, ppstate>>
  BY DEF Return
<1>3. g \in Group /\ g.hld = vg.hld /\ g.whl = vg.whl /\ Fewer(vg, g)
  <2>1. vg.lsn \ SasOf(config.pv) \in SUBSET Sa
    BY <1>1, GroupFields
  <2>2. /\ g \in Group /\ g.hld = vg.hld /\ g.whl = vg.whl /\ g.whl_seq_num = vg.whl_seq_num
        /\ g.wheel_idx = vg.wheel_idx /\ g.act = vg.act /\ g.seq = vg.seq /\ g.sa_lbuf = vg.sa_lbuf
        /\ g.vgsa = vg.vgsa /\ g.forcedoff = vg.forcedoff /\ g.stop = vg.stop
        /\ g.pvstate = vg.pvstate /\ g.lsn \subseteq vg.lsn
    BY <1>1, <2>1 DEF Group
  <2> HIDE DEF g
  <2> QED BY <2>2 DEF Fewer, Active
<1> HIDE DEF g
<1>4. vg' \in Group /\ vg'.hld = vg.hld /\ vg'.whl = vg.whl /\ Fewer(vg, vg')
  BY <1>1, <1>2, <1>3 DEF Fewer
<1>5. config'.pc = "idle"
  BY <1>2 DEF Idle
<1>6. CfgPlace(pb, config')
  BY <1>1, <1>5 DEF CfgPlace, Taking
<1>7. Outside(config) \subseteq Outside(config')
  BY DEF Outside
<1> QED BY <1>2, <1>4, <1>5, <1>6, <1>7, IdleIn, AsideOK

(* The steps of the process between its phases.                             *)
LEMMA GotoOK ==
  ASSUME Base, NEW p \in ConfigPc, Goto(p), pb[Cfg] # NULL => p \in Asking,
         p \in Taking <=> config.pc \in Taking, config.pc # "idle",
         p = "control" => vg.whl # "active", p # "woken"
  PROVE  Keeps
<1>1. config \in Process /\ CfgPlace(pb, config)
  BY Types DEF Base
<1>2. /\ config' \in Process /\ config'.pc = p /\ config'.op = config.op /\ config'.sas = config.sas
      /\ config'.qrm = config.qrm /\ config'.rtn = config.rtn
      /\ UNCHANGED <<vg, disk, pb, ppstate>>
  BY <1>1 DEF Goto, Process
<1>3. CfgPlace(pb, config')
  BY <1>1, <1>2 DEF CfgPlace
<1>4. Outside(config') = Outside(config)
  BY <1>2 DEF Outside
<1> QED BY <1>2, <1>3, <1>4, GoOn

LEMMA StepsOK ==
  ASSUME Base, SleepForControl \/ TakeControl \/ CheckDone \/ SleepForDone \/ WakeDone
  PROVE  Keeps
<1>1. CfgPlace(pb, config) /\ Flags(vg, config)
  BY DEF Base
<1>2. {"waiting", "control", "gosleep2", "waiting2"} \subseteq ConfigPc
  BY DEF ConfigPc, HoldsLock
<1>3. CASE SleepForControl
  <2>1. config.pc = "gosleep" /\ Goto("waiting") /\ pb[Cfg] = NULL
    BY <1>1, <1>3 DEF SleepForControl, CfgPlace, Asking
  <2> QED BY <1>2, <2>1, GotoOK DEF Taking
<1>4. CASE TakeControl
  <2>1. config.pc = "woken" /\ Goto("control") /\ pb[Cfg] = NULL /\ vg.whl # "active"
    BY <1>1, <1>4 DEF TakeControl, CfgPlace, Asking, Flags
  <2> QED BY <1>2, <2>1, GotoOK DEF Taking
<1>5. CASE CheckDone
  <2>1. CASE config.rtn = "none"
    <3>1. config.pc = "started" /\ Goto("gosleep2")
      BY <1>5, <2>1 DEF CheckDone
    <3> QED BY <1>2, <3>1, GotoOK DEF Taking, Asking
  <2>2. CASE config.rtn # "none"
    <3>1. Return /\ pb[Cfg] = NULL /\ config.pc \notin Taking
      BY <1>1, <1>5, <2>2 DEF CheckDone, CfgPlace, Taking
    <3> QED BY <3>1, ReturnOK
  <2> QED BY <2>1, <2>2
<1>6. CASE SleepForDone
  <2>1. config.pc = "gosleep2" /\ Goto("waiting2")
    BY <1>6 DEF SleepForDone
  <2> QED BY <1>2, <2>1, GotoOK DEF Taking, Asking
<1>7. CASE WakeDone
  <2>1. Return /\ pb[Cfg] = NULL /\ config.pc \notin Taking
    BY <1>1, <1>7 DEF WakeDone, CfgPlace, Asking, Taking
  <2> QED BY <2>1, ReturnOK
<1> QED BY <1>3, <1>4, <1>5, <1>6, <1>7

(* The image does not matter to the turn of the wheel.                      *)
LEMMA SpinSame ==
  ASSUME NEW g, NEW h, h.forcedoff = g.forcedoff, h.whl_seq_num = g.whl_seq_num,
         h.wheel_idx = g.wheel_idx, h.act = g.act, h.seq = g.seq, h.sa_lbuf = g.sa_lbuf,
         h.stop = g.stop, h.lsn = g.lsn, h.pvstate = g.pvstate
  PROVE  /\ Spinning(g) => Spinning(h)
         /\ \A X : Levelled(g, X) => Levelled(h, X)
<1>1. \A s : Ahead(h, s) = Ahead(g, s) /\ Landing(h, s) = Landing(g, s) /\ Age(h, s) = Age(g, s)
  BY DEF Ahead, Landing, Age
<1>2. \A j : StopAt(h, j) = StopAt(g, j)
  BY <1>1 DEF StopAt
<1>3. Active(h) = Active(g) /\ Near(h) = Near(g)
  BY DEF Active, Near
<1>4. Ordered(g, {}) => Ordered(h, {})
  BY <1>2 DEF Ordered
<1>5. /\ Outdated(g, Landing) => Outdated(h, Landing)
      /\ Outdated(g, Ahead) => Outdated(h, Ahead)
  BY <1>1, <1>2, <1>3 DEF Outdated
<1>6. \A n : (Aged(g, Landing, n) => Aged(h, Landing, n)) /\ (Aged(g, Ahead, n) => Aged(h, Ahead, n))
  BY <1>1, <1>3 DEF Aged
<1>7. \A X : (Even(g, Landing, X) => Even(h, Landing, X)) /\ (Even(g, Ahead, X) => Even(h, Ahead, X))
  BY <1>1, <1>3 DEF Even
<1> QED BY <1>4, <1>5, <1>6, <1>7 DEF Spinning, Levelled

(* hd_sa_onerev: the number is new, so that every SA is to be written.      *)
LEMMA OnerevOK ==
  ASSUME Base, config.pc = "control", NEW g \in Group,
         g.hld = vg.hld, g.act = vg.act, g.whl = vg.whl, g.sa_lbuf = vg.sa_lbuf,
         g.wheel_idx = vg.wheel_idx, hd_sa_onerev(g)
  PROVE  Base' /\ (Wide /\ Spinning(g) => Turn') /\ Untorn
<1> DEFINE h == [g EXCEPT !.whl = IF @ = "held" THEN "stopped" ELSE @]
           q == [type |-> "SA_CONFIGOP"]
           n == [pb EXCEPT ![Cfg] = q]
           c == [config EXCEPT !.pc = "started"]
<1>1. /\ vg \in Group /\ pb \in Asked /\ disk \in Disks /\ ppstate \in Parts /\ config \in Process
      /\ CfgPlace(pb, config) /\ Flags(vg, config) /\ Placed(vg, pb)
  BY Types DEF Base
<1>2. hd_sa_rtn(hd_sa_strt(Work(h, n), <<Cfg>>), ppstate, c) /\ disk' = disk
  BY DEF hd_sa_onerev
<1>3. Cfg \in Pbuf /\ pb[Cfg] = NULL /\ q \in Request
  BY <1>1 DEF Pbuf, CfgPlace, Asking, Request
<1>4. g.whl \in {"stopped", "held"} /\ g.sa_lbuf = NULL
  BY <1>1, GroupFields DEF Flags, Steady
<1>5. /\ h \in Group /\ h.whl = "stopped" /\ h.hld = vg.hld /\ h.act = vg.act
      /\ h.sa_lbuf = NULL /\ h.stop = g.stop /\ h.wheel_idx = g.wheel_idx
      /\ h.whl_seq_num = g.whl_seq_num /\ h.seq = g.seq /\ h.forcedoff = g.forcedoff
      /\ h.lsn = g.lsn /\ h.pvstate = g.pvstate
  BY <1>4 DEF Group
<1> HIDE DEF h
<1>6. Placed(h, pb)
  BY <1>1, <1>5 DEF Placed, Listed
<1>7. /\ n \in Asked /\ Placed(h, n) /\ n[Cfg] = q /\ q # NULL /\ Cfg \notin Listed(h)
      /\ \A x \in Pbuf : x # Cfg => n[x] = pb[x]
  BY <1>1, <1>3, <1>5, <1>6, NewRequest
<1>8. n[Cfg].type = "SA_CONFIGOP"
  BY <1>7
<1> HIDE DEF n, q
<1>9. c \in Process /\ c.pc = "started" /\ c.rtn = config.rtn /\ c.qrm = config.qrm
  BY <1>1 DEF Process, ConfigPc, HoldsLock
<1> HIDE DEF c
<1>10. CfgPlace(n, c)
  BY <1>1, <1>9 DEF CfgPlace, Asking, Taking
<1>11. <<Cfg>> \in Seq(Pbuf) /\ IsInjective(<<Cfg>>) /\ Range(<<Cfg>>) = {Cfg}
  BY <1>3, OneAndNone
<1>12. /\ Base'
       /\ Wide /\ Spinning(h) =>
            /\ Turning(vg')
            /\ \A D : \/ Current(h, D)
                      \/ /\ h.whl = "stopped" /\ config.pc # "waiting"
                         /\ \E r \in Range(<<Cfg>>) : n[r].type = "SA_CONFIGOP"
                      => Current(vg', D)
            /\ \A X : \/ Level(h, X)
                      \/ /\ h.whl = "stopped" /\ Levelled(h, X)
                      \/ /\ h.whl = "stopped" /\ config.pc # "waiting"
                         /\ \E r \in Range(<<Cfg>>) : n[r].type = "SA_CONFIGOP"
                      => Level(vg', X)
       /\ Outside(config') = Outside(c)
  <2>1. \A r \in Range(<<Cfg>>) : r \notin Listed(h) /\ n[r] # NULL
    BY <1>7, <1>11
  <2>2. (h.whl = "active" <=> h.sa_lbuf # NULL) /\ h.sa_lbuf \in {NULL, h.wheel_idx}
    BY <1>5
  <2>3. config.pc # "waiting" /\ c.pc # "control" /\ c.pc # "woken"
    BY <1>9
  <2> QED BY <1>1, <1>2, <1>5, <1>7, <1>9, <1>10, <1>11, <2>1, <2>2, <2>3, StrtRtn
<1>13. Spinning(g) => Spinning(h)
  BY <1>4, <1>5, SpinSame
<1>14. \E r \in Range(<<Cfg>>) : n[r].type = "SA_CONFIGOP"
  BY <1>8, <1>11
<1>15. Untorn
  BY <1>4 DEF Untorn
<1>16. Outside(c) = {}
  BY <1>9 DEF Outside, Taking
<1> QED BY <1>5, <1>12, <1>13, <1>14, <1>15, <1>16 DEF Turn

LEMMA RestartOK ==
  ASSUME Base, config.pc = "control", config.op = "HD_KREDUCE", RestartAndLeave
  PROVE  Keeps
<1> DEFINE g == [vg EXCEPT !.whl = "stopped"]
<1>1. /\ vg \in Group /\ pb \in Asked /\ disk \in Disks /\ ppstate \in Parts
      /\ CfgPlace(pb, config) /\ Flags(vg, config) /\ Placed(vg, pb)
  BY Types DEF Base
<1>2. pb[Cfg] = NULL
  BY <1>1 DEF CfgPlace, Asking
<1>3. CASE vg.whl = "held"
  <2>1. hd_sa_rtn(hd_sa_strt(Work(g, pb), <<>>), ppstate, Idle) /\ disk' = disk
    BY <1>3 DEF RestartAndLeave
  <2>2. /\ g \in Group /\ g.whl = "stopped" /\ g.hld = vg.hld /\ g.act = vg.act /\ g.sa_lbuf = vg.sa_lbuf
        /\ g.stop = vg.stop /\ g.wheel_idx = vg.wheel_idx /\ g.whl_seq_num = vg.whl_seq_num
        /\ g.seq = vg.seq /\ g.vgsa = vg.vgsa /\ g.forcedoff = vg.forcedoff /\ g.lsn = vg.lsn
        /\ g.pvstate = vg.pvstate
    BY <1>1 DEF Group
  <2> HIDE DEF g
  <2>3. Placed(g, pb) /\ Fewer(vg, g) /\ g.sa_lbuf = NULL
    BY <1>1, <1>3, <2>2 DEF Placed, Listed, Fewer, Active, Flags, Steady
  <2>4. Idle.pc = "idle"
    BY DEF Idle
  <2>5. CfgPlace(pb, Idle)
    BY <1>2, <2>4 DEF CfgPlace, Taking
  <2>6. <<>> \in Seq(Pbuf) /\ IsInjective(<<>>) /\ Range(<<>>) = {}
    BY OneAndNone DEF Pbuf
  <2>7. /\ Base'
        /\ Wide /\ Spinning(g) =>
             /\ Turning(vg')
             /\ \A D : \/ Current(g, D)
                       \/ /\ g.whl = "stopped" /\ config.pc # "waiting"
                          /\ \E r \in Range(<<>>) : pb[r].type = "SA_CONFIGOP"
                       => Current(vg', D)
             /\ \A X : \/ Level(g, X)
                       \/ /\ g.whl = "stopped" /\ Levelled(g, X)
                       \/ /\ g.whl = "stopped" /\ config.pc # "waiting"
                          /\ \E r \in Range(<<>>) : pb[r].type = "SA_CONFIGOP"
                       => Level(vg', X)
        /\ Outside(config') = Outside(Idle)
    <3>1. \A r \in Range(<<>>) : r \notin Listed(g) /\ pb[r] # NULL
      BY <2>6
    <3>2. (g.whl = "active" <=> g.sa_lbuf # NULL) /\ g.sa_lbuf \in {NULL, g.wheel_idx}
      BY <2>2, <2>3
    <3>3. config.pc # "waiting"
      OBVIOUS
    <3>4. Idle.pc # "control" /\ Idle.pc # "woken"
      BY <2>4
    <3> QED BY <1>1, <2>1, <2>2, <2>3, <2>5, <2>6, <3>1, <3>2, <3>3, <3>4, IdleIn, StrtRtn
  <2>8. /\ Spinning(vg) => Spinning(g)
        /\ \A D : Current(vg, D) => Current(g, D)
        /\ \A X : Levelled(vg, X) => Levelled(g, X)
    BY <1>1, <2>3, FewerOK
  <2>9. Outside(config) = {} /\ Outside(Idle) = {}
    BY <2>4 DEF Outside, Taking
  <2>10. Wide /\ Turn => Level(vg', Outside(config'))
    BY <2>2, <2>7, <2>8, <2>9 DEF Turn, Turning, Level
  <2>11. Untorn
    BY <2>2, <2>3 DEF Untorn
  <2> QED BY <2>1, <2>7, <2>8, <2>10, <2>11 DEF Keeps, Turn, Turning
<1>4. CASE vg.whl # "held"
  <2>1. Leave
    BY <1>4 DEF RestartAndLeave
  <2> QED BY <1>2, <2>1, LeaveOK
<1> QED BY <1>3, <1>4

(* The process makes its change of the image.                               *)
LEMMA WithControlOK == ASSUME Base, WithControl PROVE Keeps
<1>1. /\ vg \in Group /\ config \in Process /\ CfgPlace(pb, config) /\ config.pc = "control"
  BY Types DEF Base, WithControl
<1>2. pb[Cfg] = NULL /\ config.qrm \in Quorums
      /\ config.op \in {"HD_KADDPV", "HD_KADDPV_again", "HD_KADDVGSA", "HD_MWC_REC",
                        "HD_KDELVGSA", "HD_KEXTEND", "HD_KREDUCE"}
  BY <1>1 DEF CfgPlace, Asking, Taking
<1>3. vg.vgsa \in Image /\ vg.seq \in [Sa -> 0..SEQNUMS - 1] /\ vg.nukesa \in SUBSET Sa
  BY <1>1, GroupFields
<1>4. CASE vg.forcedoff
  <2>1. Leave
    BY <1>4 DEF WithControl
  <2> QED BY <1>2, <1>4, <2>1, LeaveOK
<1>5. ASSUME NEW i \in Image, hd_sa_onerev([vg EXCEPT !.vgsa = i]) PROVE Keeps
  <2> DEFINE g == [vg EXCEPT !.vgsa = i]
  <2>1. /\ g \in Group /\ g.whl = vg.whl /\ g.hld = vg.hld /\ g.act = vg.act /\ g.sa_lbuf = vg.sa_lbuf
        /\ g.stop = vg.stop /\ g.wheel_idx = vg.wheel_idx /\ g.whl_seq_num = vg.whl_seq_num
        /\ g.seq = vg.seq /\ g.forcedoff = vg.forcedoff /\ g.lsn = vg.lsn
        /\ g.pvstate = vg.pvstate
    BY <1>1 DEF Group
  <2>2. hd_sa_onerev(g)
    BY <1>5
  <2> HIDE DEF g
  <2>3. Spinning(vg) => Spinning(g)
    BY <2>1, SpinSame
  <2>4. Base' /\ (Wide /\ Spinning(g) => Turn') /\ Untorn
    BY <1>1, <2>1, <2>2, OnerevOK
  <2> QED BY <2>3, <2>4 DEF Keeps, Turn, Turning
<1>6. ASSUME ~vg.forcedoff, config.op \in {"HD_KADDPV", "HD_KADDPV_again"} PROVE Keeps
  <2> DEFINE S == [s \in Sa |-> IF s \in config.sas /\ ~config.again
                                THEN (vg.whl_seq_num - 1) % SEQNUMS ELSE vg.seq[s]]
             i == [vg.vgsa EXCEPT !.pvmissing = @ \ {config.pv}]
             g == [vg EXCEPT !.quorum_cnt = config.qrm, !.vgsa = i, !.seq = S]
  <2>1. hd_sa_onerev(g)
    <3>1. hd_sa_onerev([vg EXCEPT
            !.quorum_cnt = config.qrm,
            !.vgsa.pvmissing = @ \ {config.pv},
            !.seq = [s \in Sa |-> IF s \in config.sas /\ ~config.again
                                  THEN (vg.whl_seq_num - 1) % SEQNUMS
                                  ELSE @[s]]])
      BY <1>6 DEF WithControl
    <3> QED BY <3>1
  <2>2. (vg.whl_seq_num - 1) % SEQNUMS \in 0..SEQNUMS - 1
    <3>1. vg.whl_seq_num \in 0..SEQNUMS - 1 /\ SEQNUMS \in Nat \ {0}
      BY <1>1, GroupFields, Sizes
    <3> QED BY <3>1, ModMinus
  <2>3. S \in [Sa -> 0..SEQNUMS - 1] /\ i \in Image
    BY <1>3, <2>2 DEF Image
  <2> HIDE DEF S, i
  <2>4. /\ g \in Group /\ g.whl = vg.whl /\ g.hld = vg.hld /\ g.act = vg.act /\ g.sa_lbuf = vg.sa_lbuf
        /\ g.wheel_idx = vg.wheel_idx
    BY <1>1, <1>2, <2>3 DEF Group
  <2> HIDE DEF g
  <2>5. Base' /\ Untorn
    BY <1>1, <2>1, <2>4, OnerevOK
  <2>6. config.op \in ConfigOps
    BY <1>1, <1>6 DEF Process
  <2>7. ~NoNewDisk
    BY <1>6, <2>6 DEF NoNewDisk
  <2> QED BY <2>5, <2>7 DEF Keeps
<1>7. ASSUME ~vg.forcedoff, config.op \in {"HD_KADDVGSA", "HD_MWC_REC"} PROVE Keeps
  <2>1. hd_sa_onerev(vg)
    BY <1>7 DEF WithControl
  <2>2. Base' /\ (Wide /\ Spinning(vg) => Turn') /\ Untorn
    BY <1>1, <2>1, OnerevOK
  <2> QED BY <2>2 DEF Keeps, Turn, Turning
<1>8. ASSUME ~vg.forcedoff, config.op = "HD_KDELVGSA" PROVE Keeps
  <2> DEFINE N == vg.nukesa \cup config.sas
             g == [vg EXCEPT !.nukesa = N]
  <2>1. hd_sa_onerev(g)
    BY <1>8 DEF WithControl
  <2>2. N \in SUBSET Sa
    BY <1>1, <1>3 DEF Process
  <2> HIDE DEF N
  <2>3. /\ g \in Group /\ g.whl = vg.whl /\ g.hld = vg.hld /\ g.act = vg.act /\ g.sa_lbuf = vg.sa_lbuf
        /\ g.stop = vg.stop /\ g.wheel_idx = vg.wheel_idx /\ g.whl_seq_num = vg.whl_seq_num
        /\ g.seq = vg.seq /\ g.forcedoff = vg.forcedoff /\ g.lsn = vg.lsn
        /\ g.pvstate = vg.pvstate
    BY <1>1, <2>2 DEF Group
  <2> HIDE DEF g
  <2>4. Spinning(vg) => Spinning(g)
    BY <2>3, SpinSame
  <2>5. Base' /\ (Wide /\ Spinning(g) => Turn') /\ Untorn
    BY <1>1, <2>1, <2>3, OnerevOK
  <2> QED BY <2>4, <2>5 DEF Keeps, Turn, Turning
<1>9. ASSUME NEW e \in BOOLEAN, hd_sa_onerev([vg EXCEPT !.vgsa.extpp = e]) PROVE Keeps
  <2> DEFINE i == [vg.vgsa EXCEPT !.extpp = e]
  <2>1. i \in Image /\ hd_sa_onerev([vg EXCEPT !.vgsa = i])
    BY <1>3, <1>9 DEF Image
  <2> HIDE DEF i
  <2> QED BY <1>5, <2>1
<1>10. ASSUME ~vg.forcedoff, config.op = "HD_KEXTEND" PROVE Keeps
  <2>1. (\E e \in BOOLEAN : hd_sa_onerev([vg EXCEPT !.vgsa.extpp = e])) \/ Leave
    BY <1>10 DEF WithControl
  <2> QED BY <1>2, <1>9, <1>10, <2>1, LeaveOK
<1>11. ASSUME ~vg.forcedoff, config.op = "HD_KREDUCE" PROVE Keeps
  <2>1. \/ \E e \in {vg.vgsa.extpp, TRUE} : hd_sa_onerev([vg EXCEPT !.vgsa.extpp = e])
        \/ RestartAndLeave \/ Leave
    BY <1>11 DEF WithControl
  <2>2. vg.vgsa.extpp \in BOOLEAN
    BY <1>3 DEF Image
  <2> QED BY <1>1, <1>2, <1>9, <1>11, <2>1, <2>2, LeaveOK, RestartOK
<1> QED BY <1>2, <1>4, <1>6, <1>7, <1>8, <1>10, <1>11

-----------------------------------------------------------------------------
LEMMA SasIn == \A p \in Pv : SasOf(p) \subseteq Sa
<1> SUFFICES ASSUME NEW p \in Pv PROVE SasOf(p) \subseteq Sa
  OBVIOUS
<1>1. MAXPVS \in Nat \ {0} /\ NSa = 2 * MAXPVS /\ p \in 0..MAXPVS - 1
  BY Sizes DEF Pv
<1>2. 2 * p \in 0..NSa - 1 /\ 2 * p + 1 \in 0..NSa - 1
  BY <1>1
<1> QED BY <1>2 DEF SasOf, Sa

LEMMA BeginsOK ==
  ASSUME NEW op \in ConfigOps, NEW p \in Pv, NEW sas \in SUBSET Sa, NEW q \in Quorums,
         NEW x \in ConfigPc
  PROVE  LET c == [Begins(op, p, sas, q) EXCEPT !.pc = x]
         IN  c \in Process /\ c.pc = x /\ c.op = op /\ c.rtn = "none" /\ c.qrm = q /\ c.sas = sas
BY DEF Begins, Idle, Process

LEMMA GetControlOK ==
  GetControl \in {"gosleep", "control"} /\ (GetControl = "control" => vg.whl # "active")
BY DEF GetControl

(* A request that begins with taking control of the wheel.                  *)
ControlOps == {"HD_KADDPV", "HD_KADDPV_again", "HD_KADDVGSA", "HD_MWC_REC",
               "HD_KDELVGSA", "HD_KEXTEND", "HD_KREDUCE"}

LEMMA ConfigMissingOK ==
  ASSUME Base, config.pc = "idle", NEW op \in ConfigOps, NEW p \in Pv, NEW q \in Quorums,
         ConfigMissing(op, p, q)
  PROVE  Keeps
<1> DEFINE req == IF op = "HD_KREMPV"
                  THEN [type |-> "SA_PVREMOVED", pv |-> p, b_work |-> q]
                  ELSE [type |-> "SA_PVMISSING", pv |-> p]
           n == [pb EXCEPT ![Cfg] = req]
           c == [Begins(op, p, {}, q) EXCEPT !.pc = "started"]
<1>1. /\ vg \in Group /\ pb \in Asked /\ disk \in Disks /\ ppstate \in Parts
      /\ CfgPlace(pb, config) /\ Flags(vg, config) /\ Placed(vg, pb)
  BY Types DEF Base
<1>2. hd_sa_rtn(hd_sa_strt(Work(vg, n), <<Cfg>>), ppstate, c) /\ disk' = disk
  BY DEF ConfigMissing
<1>3. Cfg \in Pbuf /\ pb[Cfg] = NULL /\ req \in Request
  BY <1>1 DEF Pbuf, CfgPlace, Asking, Request
<1> HIDE DEF req
<1>4. n \in Asked /\ Placed(vg, n) /\ n[Cfg] = req /\ req # NULL /\ Cfg \notin Listed(vg)
  BY <1>1, <1>3, NewRequest
<1> HIDE DEF n
<1>5. c \in Process /\ c.pc = "started" /\ c.rtn = "none" /\ c.qrm = q
  <2>1. "started" \in ConfigPc /\ {} \in SUBSET Sa
    BY DEF ConfigPc, HoldsLock
  <2> QED BY <2>1, BeginsOK
<1> HIDE DEF c
<1>6. CfgPlace(n, c)
  BY <1>5 DEF CfgPlace, Asking, Taking
<1>7. <<Cfg>> \in Seq(Pbuf) /\ IsInjective(<<Cfg>>) /\ Range(<<Cfg>>) = {Cfg}
  BY <1>3, OneAndNone
<1>8. /\ Base'
      /\ Wide /\ Spinning(vg) =>
           /\ Turning(vg')
           /\ \A D : \/ Current(vg, D)
                     \/ /\ vg.whl = "stopped" /\ config.pc # "waiting"
                        /\ \E r \in Range(<<Cfg>>) : n[r].type = "SA_CONFIGOP"
                     => Current(vg', D)
           /\ \A X : \/ Level(vg, X)
                     \/ /\ vg.whl = "stopped" /\ Levelled(vg, X)
                     \/ /\ vg.whl = "stopped" /\ config.pc # "waiting"
                        /\ \E r \in Range(<<Cfg>>) : n[r].type = "SA_CONFIGOP"
                     => Level(vg', X)
      /\ Outside(config') = Outside(c)
      /\ vg.whl # "stopped" => vg'.vgsa = vg.vgsa
  <2>1. \A r \in Range(<<Cfg>>) : r \notin Listed(vg) /\ n[r] # NULL
    BY <1>4, <1>7
  <2>2. (vg.whl = "active" <=> vg.sa_lbuf # NULL) /\ vg.sa_lbuf \in {NULL, vg.wheel_idx}
    BY <1>1 DEF Flags, Steady
  <2>3. config.pc # "waiting" /\ c.pc # "control" /\ c.pc # "woken"
    BY <1>5
  <2> QED BY <1>1, <1>2, <1>4, <1>5, <1>6, <1>7, <2>1, <2>2, <2>3, StrtRtn
<1>9. Outside(config) = {} /\ Outside(c) = {}
  BY <1>5 DEF Outside, Taking
<1>10. Untorn
  BY <1>1, <1>8 DEF Untorn, Flags, Steady
<1> QED BY <1>2, <1>8, <1>9, <1>10 DEF Keeps, Turn, Turning

(* A PV is entered: the wheel is where it was.                              *)
LEMMA ConfigAddPvOK ==
  ASSUME Base, config.pc = "idle", NEW op \in ConfigOps, NEW p \in Pv, NEW q \in Quorums,
         NEW sas \in SUBSET SasOf(p), ConfigAddPv(op, p, sas, q)
  PROVE  Keeps
<1> DEFINE S == [s \in Sa |-> IF s \in SasOf(p) THEN 0 ELSE vg.seq[s]]
           P == [vg.pvstate EXCEPT ![p] = "PV_DEFINED"]
           L == (vg.lsn \ SasOf(p)) \cup sas
           N == vg.nukesa \ SasOf(p)
           c == [Begins(op, p, sas, q) EXCEPT !.pc = GetControl]
<1>1. /\ vg \in Group /\ pb \in Asked /\ disk \in Disks /\ ppstate \in Parts
      /\ CfgPlace(pb, config) /\ Flags(vg, config) /\ Placed(vg, pb)
  BY Types DEF Base
<1>2. /\ vg' = [vg EXCEPT !.pvstate = P, !.lsn = L, !.nukesa = N, !.seq = S]
      /\ disk' = IF op = "HD_KADDPV" THEN Blank(sas) ELSE disk
      /\ config' = [c EXCEPT !.again = op = "HD_KADDPV_again"]
      /\ UNCHANGED <<pb, ppstate>> /\ op \in {"HD_KADDPV", "HD_KADDPV_again"}
  BY DEF ConfigAddPv
<1>3. SasOf(p) \subseteq Sa /\ 0 \in 0..SEQNUMS - 1
  BY SasIn, Sizes
<1>4. /\ P \in [Pv -> {"NULL", "PV_DEFINED", "PV_MISSING"}] /\ L \in SUBSET Sa /\ N \in SUBSET Sa
      /\ S \in [Sa -> 0..SEQNUMS - 1]
  BY <1>1, <1>3, GroupFields
<1> HIDE DEF P, L, N, S
<1>5. /\ vg' \in Group /\ vg'.whl = vg.whl /\ vg'.hld = vg.hld /\ vg'.act = vg.act
      /\ vg'.sa_lbuf = vg.sa_lbuf /\ vg'.wheel_idx = vg.wheel_idx /\ vg'.vgsa = vg.vgsa
  BY <1>1, <1>2, <1>4 DEF Group
<1>6. disk' \in Disks
  BY <1>1, <1>2 DEF Blank, Disks
<1>7. c \in Process /\ c.pc = GetControl /\ c.op = op /\ c.rtn = "none" /\ c.qrm = q
  <2>1. GetControl \in ConfigPc /\ sas \in SUBSET Sa
    BY <1>3, GetControlOK DEF ConfigPc, HoldsLock
  <2> QED BY <2>1, BeginsOK
<1> HIDE DEF c
<1>8. config' \in Process /\ config'.pc = GetControl /\ config'.op = op /\ config'.rtn = "none" /\ config'.qrm = q
  BY <1>2, <1>7 DEF Process
<1>9. pb[Cfg] = NULL
  BY <1>1 DEF CfgPlace, Asking
<1>10. CfgPlace(pb', config')
  <2>1. config'.pc \in {"gosleep", "control"} /\ config'.op \in ControlOps
    BY <1>2, <1>8, GetControlOK DEF ControlOps
  <2>2. CfgPlace(pb, config')
    BY <1>8, <1>9, <2>1 DEF CfgPlace, ControlOps
  <2> QED BY <1>2, <2>2
<1>11. Flags(vg', config') /\ Placed(vg', pb')
  BY <1>1, <1>2, <1>5, <1>8, GetControlOK DEF Flags, Steady, Placed, Listed
<1>12. Base'
  BY <1>1, <1>2, <1>5, <1>6, <1>8, <1>10, <1>11, Types DEF Base, TypeOK, Group, Disks, Asked, Parts, Process
<1>13. ~NoNewDisk
  BY <1>2 DEF NoNewDisk
<1>14. Untorn
  BY <1>5 DEF Untorn
<1> QED BY <1>12, <1>13, <1>14 DEF Keeps

(* New SAs of a PV that is there: their number is the one before the newest.*)
LEMMA ConfigAddVgsaOK ==
  ASSUME Base, config.pc = "idle", NEW op \in ConfigOps, NEW p \in Pv, NEW q \in Quorums,
         NEW sas \in SUBSET SasOf(p), ConfigAddVgsa(op, p, sas, q)
  PROVE  Keeps
<1> DEFINE k == (vg.whl_seq_num - 1) % SEQNUMS
           S == [s \in Sa |-> IF s \in sas THEN k ELSE vg.seq[s]]
           L == vg.lsn \cup sas
<1>1. /\ vg \in Group /\ pb \in Asked /\ disk \in Disks /\ ppstate \in Parts
      /\ CfgPlace(pb, config) /\ Flags(vg, config) /\ Placed(vg, pb)
  BY Types DEF Base
<1>2. /\ vg' = [vg EXCEPT !.quorum_cnt = q, !.lsn = L, !.seq = S]
      /\ disk' = Blank(sas)
      /\ config' = [Begins(op, p, sas, q) EXCEPT !.pc = GetControl]
      /\ UNCHANGED <<pb, ppstate>> /\ op = "HD_KADDVGSA"
  BY DEF ConfigAddVgsa
<1>3. sas \subseteq Sa
  BY SasIn
<1>4. /\ vg.whl_seq_num \in 0..SEQNUMS - 1 /\ SEQNUMS \in Nat /\ SEQNUMS > 3
      /\ k = IF vg.whl_seq_num = 0 THEN SEQNUMS - 1 ELSE vg.whl_seq_num - 1
      /\ k \in 0..SEQNUMS - 1
  <2>1. vg.whl_seq_num \in 0..SEQNUMS - 1 /\ SEQNUMS \in Nat \ {0} /\ SEQNUMS > 3
    BY <1>1, GroupFields, Sizes
  <2>2. k = IF vg.whl_seq_num = 0 THEN SEQNUMS - 1 ELSE vg.whl_seq_num - 1
    BY <2>1, ModMinus
  <2> HIDE DEF k
  <2> QED BY <2>1, <2>2
<1> HIDE DEF k
<1>5. L \in SUBSET Sa /\ S \in [Sa -> 0..SEQNUMS - 1]
  BY <1>1, <1>3, <1>4, GroupFields
<1> HIDE DEF S, L
<1>6. /\ vg' \in Group /\ vg'.whl = vg.whl /\ vg'.hld = vg.hld /\ vg'.act = vg.act
      /\ vg'.sa_lbuf = vg.sa_lbuf /\ vg'.wheel_idx = vg.wheel_idx /\ vg'.stop = vg.stop
      /\ vg'.whl_seq_num = vg.whl_seq_num /\ vg'.vgsa = vg.vgsa /\ vg'.forcedoff = vg.forcedoff
      /\ vg'.lsn = L /\ vg'.seq = S /\ vg'.pvstate = vg.pvstate
  BY <1>1, <1>2, <1>5 DEF Group
<1>7. disk' \in Disks
  BY <1>1, <1>2 DEF Blank, Disks
<1>8. /\ config' \in Process /\ config'.pc = GetControl /\ config'.op = op /\ config'.rtn = "none"
      /\ config'.qrm = q /\ config'.sas = sas
  <2>1. GetControl \in ConfigPc /\ sas \in SUBSET Sa
    BY <1>3, GetControlOK DEF ConfigPc, HoldsLock
  <2> QED BY <1>2, <2>1, BeginsOK
<1>9. pb[Cfg] = NULL
  BY <1>1 DEF CfgPlace, Asking
<1>10. CfgPlace(pb', config')
  <2>1. config'.pc \in {"gosleep", "control"} /\ config'.op \in ControlOps
    BY <1>2, <1>8, GetControlOK DEF ControlOps
  <2>2. CfgPlace(pb, config')
    BY <1>8, <1>9, <2>1 DEF CfgPlace, ControlOps
  <2> QED BY <1>2, <2>2
<1>11. Flags(vg', config') /\ Placed(vg', pb')
  BY <1>1, <1>2, <1>6, <1>8, GetControlOK DEF Flags, Steady, Placed, Listed
<1>12. Base'
  BY <1>1, <1>2, <1>6, <1>7, <1>8, <1>10, <1>11, Types DEF Base, TypeOK, Group, Disks, Asked, Parts, Process
<1>13. ASSUME Turn PROVE Turn'
  <2> DEFINE g == vg
             h == vg'
  <2>1. \A s : Ahead(h, s) = Ahead(g, s) /\ Landing(h, s) = Landing(g, s)
    BY <1>6 DEF Ahead, Landing
  <2>2. \A j : StopAt(h, j) = StopAt(g, j)
    BY <1>6, <2>1 DEF StopAt
  <2>3. \A s \in Sa : h.seq[s] = IF s \in sas THEN k ELSE g.seq[s]
    BY <1>6 DEF S
  <2>4. \A s \in sas : s \in Sa /\ h.seq[s] # h.whl_seq_num /\ Age(h, s) = 1
    <3>1. \A s \in sas : s \in Sa /\ h.seq[s] = k
      BY <1>3, <2>3
    <3> QED BY <1>4, <1>6, <3>1 DEF Age
  <2>5. \A s \in Sa \ sas : h.seq[s] = g.seq[s] /\ Age(h, s) = Age(g, s)
    BY <1>6, <2>3 DEF Age
  <2>6. /\ \A s \in Active(h) : s \in Sa /\ (s \in sas \/ s \in Active(g))
        /\ \A s \in Near(h) : s \in Sa /\ (s \in sas \/ s \in Near(g))
    <3>1. Active(h) \subseteq Sa /\ Near(h) \subseteq Sa
      BY <1>6, NearIn
    <3>2. Active(h) \subseteq Active(g) \cup sas
      BY <1>6 DEF Active, L
    <3> QED BY <1>6, <3>1, <3>2 DEF Near
  <2>7. \A s \in Sa : Ahead(g, s) \in 1..NSa /\ Landing(g, s) \in 0..NSa - 1
    BY <1>1, AheadIn
  <2>8. Ordered(h, {})
    BY <1>6, <1>13, <2>2 DEF Ordered, Turn, Turning, Spinning
  <2>9. /\ Outdated(g, Landing) => Outdated(h, Landing)
        /\ Outdated(g, Ahead) => Outdated(h, Ahead)
    BY <1>6, <2>1, <2>2, <2>4, <2>5, <2>6 DEF Outdated
  <2>10. ASSUME Aged(g, Landing, 0) PROVE Aged(h, Landing, 0)
    <3>1. SUFFICES ASSUME NEW s \in Near(h) PROVE Age(h, s) <= 2 * (NSa - Landing(g, s)) + 0
      BY <2>1 DEF Aged
    <3>2. CASE s \in sas
      <4>1. s \in Sa /\ Age(h, s) = 1
        BY <2>4, <3>2
      <4>2. Ahead(g, s) \in 1..NSa /\ Landing(g, s) \in 0..NSa - 1 /\ NSa \in Nat
        BY <2>7, <4>1, Sizes
      <4> QED BY <4>1, <4>2
    <3>3. CASE s \notin sas
      <4>1. s \in Near(g) /\ Age(h, s) = Age(g, s)
        BY <2>5, <2>6, <3>1, <3>3
      <4> QED BY <2>10, <4>1 DEF Aged
    <3> QED BY <3>2, <3>3
  <2>11. ASSUME Aged(g, Ahead, 1) PROVE Aged(h, Ahead, 1)
    <3>1. SUFFICES ASSUME NEW s \in Near(h) PROVE Age(h, s) <= 2 * (NSa - Ahead(g, s)) + 1
      BY <2>1 DEF Aged
    <3>2. CASE s \in sas
      <4>1. s \in Sa /\ Age(h, s) = 1
        BY <2>4, <3>2
      <4>2. Ahead(g, s) \in 1..NSa /\ Landing(g, s) \in 0..NSa - 1 /\ NSa \in Nat
        BY <2>7, <4>1, Sizes
      <4> QED BY <4>1, <4>2
    <3>3. CASE s \notin sas
      <4>1. s \in Near(g) /\ Age(h, s) = Age(g, s)
        BY <2>5, <2>6, <3>1, <3>3
      <4> QED BY <2>11, <4>1 DEF Aged
    <3> QED BY <3>2, <3>3
  <2>12. Turning(h)
    BY <1>6, <1>13, <2>8, <2>9, <2>10, <2>11 DEF Turn, Turning, Spinning
  <2>13. Current(h, disk')
    <3>1. SUFFICES ASSUME ~h.forcedoff, NEW s \in Active(h), h.seq[s] = h.whl_seq_num, h.sa_lbuf # s
                   PROVE  disk'[s] = h.vgsa
      BY DEF Current
    <3>2. s \in Sa /\ s \notin sas /\ s \in Active(g) /\ g.seq[s] = g.whl_seq_num
      BY <1>6, <2>4, <2>5, <2>6, <3>1
    <3>3. disk[s] = g.vgsa
      BY <1>6, <1>13, <3>1, <3>2 DEF Turn, Current
    <3>4. disk'[s] = disk[s]
      BY <1>2, <3>2 DEF Blank
    <3> QED BY <1>6, <3>3, <3>4
  <2>14. Outside(config) = {} /\ Outside(config') = sas
    BY <1>2, <1>8, GetControlOK DEF Outside, Taking
  <2>15. /\ Even(g, Landing, {}) => Even(h, Landing, sas)
         /\ Even(g, Ahead, {}) => Even(h, Ahead, sas)
    BY <1>6, <2>1, <2>4, <2>5, <2>6 DEF Even
  <2>16. Level(h, sas)
    BY <1>6, <1>13, <2>5, <2>6, <2>14, <2>15 DEF Turn, Level, Levelled
  <2> QED BY <2>12, <2>13, <2>14, <2>16 DEF Turn
<1>14. Untorn
  BY <1>6 DEF Untorn
<1> QED BY <1>12, <1>13, <1>14 DEF Keeps

LEMMA ConfigDelVgsaOK ==
  ASSUME Base, config.pc = "idle", NEW op \in ConfigOps, NEW p \in Pv, NEW q \in Quorums,
         NEW sas \in SUBSET SasOf(p), ConfigDelVgsa(op, p, sas, q)
  PROVE  Keeps
<1> DEFINE L == vg.lsn \ sas
           g0 == [vg EXCEPT !.quorum_cnt = q]
           g1 == [vg EXCEPT !.quorum_cnt = q, !.lsn = L]
           c == [Begins(op, p, sas, q) EXCEPT !.pc = "gosleep"]
<1>1. vg \in Group /\ config \in Process /\ CfgPlace(pb, config) /\ pb[Cfg] = NULL
  BY Types DEF Base, CfgPlace, Asking
<1>2. /\ vg' \in {g0, g1} /\ config' \in {c, config} /\ UNCHANGED <<disk, pb, ppstate>>
      /\ op = "HD_KDELVGSA"
  BY DEF ConfigDelVgsa
<1>3. L \in SUBSET Sa /\ L \subseteq vg.lsn
  BY <1>1, GroupFields
<1> HIDE DEF L
<1>4. ASSUME NEW g \in {g0, g1} PROVE g \in Group /\ g.hld = vg.hld /\ g.whl = vg.whl /\ Fewer(vg, g)
  <2>1. /\ g \in Group /\ g.hld = vg.hld /\ g.whl = vg.whl /\ g.whl_seq_num = vg.whl_seq_num
        /\ g.wheel_idx = vg.wheel_idx /\ g.act = vg.act /\ g.seq = vg.seq /\ g.sa_lbuf = vg.sa_lbuf
        /\ g.vgsa = vg.vgsa /\ g.forcedoff = vg.forcedoff /\ g.stop = vg.stop
        /\ g.pvstate = vg.pvstate /\ g.lsn \subseteq vg.lsn
    BY <1>1, <1>3, Zenon DEF Group
  <2> HIDE DEF g0, g1
  <2> QED BY <2>1 DEF Fewer, Active
<1> HIDE DEF g0, g1
<1>5. vg' \in Group /\ vg'.hld = vg.hld /\ vg'.whl = vg.whl /\ Fewer(vg, vg')
  BY <1>2, <1>4 DEF Fewer
<1>6. c \in Process /\ c.pc = "gosleep" /\ c.op = op /\ c.rtn = "none" /\ c.qrm = q
  <2>1. "gosleep" \in ConfigPc /\ sas \in SUBSET Sa
    BY SasIn DEF ConfigPc, HoldsLock
  <2> QED BY <2>1, BeginsOK
<1> HIDE DEF c
<1>7. config' \in Process /\ config'.pc \in {"gosleep", "idle"}
  BY <1>1, <1>2, <1>6
<1>8. CfgPlace(pb, config')
  <2>1. CfgPlace(pb, c)
    BY <1>1, <1>2, <1>6 DEF CfgPlace
  <2> QED BY <1>1, <1>2, <2>1
<1>9. Outside(config) = {}
  BY DEF Outside, Taking
<1> QED BY <1>2, <1>5, <1>7, <1>8, <1>9, AsideOK

LEMMA ConfigDelPvOK ==
  ASSUME Base, config.pc = "idle", NEW op \in ConfigOps, NEW p \in Pv, NEW q \in Quorums,
         ConfigDelPv(op, p, q)
  PROVE  Keeps
<1> DEFINE L == vg.lsn \ SasOf(p)
           N == vg.nukesa \ SasOf(p)
           P == [vg.pvstate EXCEPT ![p] = "NULL"]
           g == [vg EXCEPT !.quorum_cnt = q, !.pvstate = P, !.lsn = L, !.nukesa = N]
<1>1. vg \in Group /\ config \in Process /\ CfgPlace(pb, config)
  BY Types DEF Base
<1>2. vg' = g /\ config' = config /\ UNCHANGED <<disk, pb, ppstate>>
  BY DEF ConfigDelPv
<1>3. /\ L \in SUBSET Sa /\ L \subseteq vg.lsn /\ N \in SUBSET Sa
      /\ P \in [Pv -> {"NULL", "PV_DEFINED", "PV_MISSING"}]
      /\ \A x \in Pv : P[x] = "PV_DEFINED" => vg.pvstate[x] = "PV_DEFINED"
  BY <1>1, GroupFields
<1> HIDE DEF L, N, P
<1>4. /\ g \in Group /\ g.hld = vg.hld /\ g.whl = vg.whl /\ g.whl_seq_num = vg.whl_seq_num
      /\ g.wheel_idx = vg.wheel_idx /\ g.act = vg.act /\ g.seq = vg.seq /\ g.sa_lbuf = vg.sa_lbuf
      /\ g.vgsa = vg.vgsa /\ g.forcedoff = vg.forcedoff /\ g.stop = vg.stop
      /\ g.pvstate = P /\ g.lsn = L
  BY <1>1, <1>3 DEF Group
<1> HIDE DEF g
<1>5. Fewer(vg, g)
  <2>1. \A x \in vg.lsn : PvOf(x) \in Pv
    BY <1>1, GroupFields, PvOfIn
  <2>2. Active(g) \subseteq Active(vg)
    BY <1>3, <1>4, <2>1 DEF Active
  <2> QED BY <1>4, <2>2 DEF Fewer
<1>6. vg' \in Group /\ vg'.hld = vg.hld /\ vg'.whl = vg.whl /\ Fewer(vg, vg')
  BY <1>2, <1>4, <1>5 DEF Fewer
<1>7. config' \in Process /\ config'.pc = "idle" /\ CfgPlace(pb, config')
  BY <1>1, <1>2
<1>8. Outside(config) = {}
  BY DEF Outside, Taking
<1> QED BY <1>2, <1>6, <1>7, <1>8, AsideOK

LEMMA ConfigImageOK ==
  ASSUME Base, config.pc = "idle", NEW op \in ConfigOps, ConfigImage(op)
  PROVE  Keeps
<1> DEFINE c == [Begins(op, 0, {}, vg.quorum_cnt) EXCEPT !.pc = GetControl]
<1>1. pb[Cfg] = NULL /\ vg.quorum_cnt \in Quorums
  BY Types, GroupFields DEF Base, CfgPlace, Asking
<1>2. config' = c /\ UNCHANGED <<vg, disk, pb, ppstate>> /\ op \in ControlOps
  BY DEF ConfigImage, ControlOps
<1>3. c \in Process /\ c.pc = GetControl /\ c.op = op /\ c.rtn = "none" /\ c.qrm = vg.quorum_cnt
  <2>1. GetControl \in ConfigPc /\ {} \in SUBSET Sa /\ 0 \in Pv
    BY GetControlOK, SizeAssumption DEF ConfigPc, HoldsLock, Pv
  <2> HIDE DEF c
  <2> QED BY <1>1, <2>1, BeginsOK DEF c
<1> HIDE DEF c
<1>4. CfgPlace(pb, c)
  BY <1>1, <1>2, <1>3, GetControlOK DEF CfgPlace, ControlOps
<1>5. Outside(config) = {}
  BY DEF Outside, Taking
<1> QED BY <1>2, <1>3, <1>4, <1>5, GetControlOK, GoOn

LEMMA ConfigOK == ASSUME Base, hd_sa_config PROVE Keeps
<1>1. PICK op \in ConfigOps, p \in Pv, q \in Quorums :
        \/ ConfigMissing(op, p, q)
        \/ ConfigDelPv(op, p, q)
        \/ ConfigImage(op)
        \/ \E sas \in SUBSET SasOf(p) : \/ ConfigAddPv(op, p, sas, q)
                                        \/ ConfigAddVgsa(op, p, sas, q)
                                        \/ ConfigDelVgsa(op, p, sas, q)
  BY DEF hd_sa_config
<1>2. config.pc = "idle"
  BY DEF hd_sa_config
<1> QED BY <1>1, <1>2, ConfigMissingOK, ConfigDelPvOK, ConfigImageOK, ConfigAddPvOK,
           ConfigAddVgsaOK, ConfigDelVgsaOK

-----------------------------------------------------------------------------
LEMMA HdVgsaInit == Init => Base /\ Turn
<1> SUFFICES ASSUME Init PROVE Base /\ Turn
  OBVIOUS
<1> DEFINE clean == [pvmissing |-> {}, stalepp |-> {}, extpp |-> FALSE]
<1>1. PICK q \in Quorums :
       vg = [whl |-> "stopped", forcedoff |-> FALSE, wheel_idx |-> 0,
             whl_seq_num |-> 0, hld |-> <<>>, act |-> <<>>,
             stop |-> [r \in Pbuf |-> 0], vgsa |-> clean,
             quorum_cnt |-> q, sa_lbuf |-> NULL,
             pvstate |-> [p \in Pv |-> IF p \in InitPv THEN "PV_DEFINED"
                                                       ELSE "NULL"],
             lsn |-> InitSa, nukesa |-> {}, seq |-> [s \in Sa |-> 0]]
  BY DEF Init
<1>2. /\ disk = [s \in Sa |-> clean] /\ pb = [r \in Pbuf |-> NULL]
      /\ ppstate = [p \in Pp |-> {}] /\ config = Idle
  BY DEF Init
<1>3. clean \in Image
  BY DEF Image
<1> HIDE DEF clean
<1>4. 0 \in Sa /\ 0 \in 0..SEQNUMS - 1 /\ InitSa \in SUBSET Sa /\ <<>> \in Seq(Pbuf)
      /\ <<>> \in Seq(Seq(Pbuf))
  BY Sizes, InitAssumption
<1>5. /\ vg.whl = "stopped" /\ ~vg.forcedoff /\ vg.wheel_idx = 0 /\ vg.whl_seq_num = 0
      /\ vg.hld = <<>> /\ vg.act = <<>> /\ vg.vgsa = clean /\ vg.sa_lbuf = NULL
      /\ vg.seq = [s \in Sa |-> 0] /\ vg.lsn = InitSa
  BY <1>1
<1>6. vg \in Group
  <2>1. /\ [r \in Pbuf |-> 0] \in [Pbuf -> Sa] /\ [s \in Sa |-> 0] \in [Sa -> 0..SEQNUMS - 1]
        /\ [p \in Pv |-> IF p \in InitPv THEN "PV_DEFINED" ELSE "NULL"] \in
             [Pv -> {"NULL", "PV_DEFINED", "PV_MISSING"}]
    BY <1>4
  <2> QED BY <1>1, <1>3, <1>4, <2>1 DEF Group
<1>7. /\ disk \in Disks /\ pb \in Asked /\ ppstate \in Parts /\ config \in Process
  BY <1>2, <1>3, IdleIn DEF Disks, Asked, Parts
<1>8. Placed(vg, pb) /\ Flags(vg, config) /\ CfgPlace(pb, config)
  <2>1. config.pc = "idle" /\ pb[Cfg] = NULL
    BY <1>2 DEF Idle, Pbuf
  <2>2. IsInjective(<<>>) /\ Range(<<>>) = {} /\ DOMAIN <<>> = {}
    BY DEF IsInjective, Range
  <2>3. Listed(vg) = {}
    BY <1>5, <2>2 DEF Listed, Range
  <2> QED BY <1>5, <2>1, <2>2, <2>3 DEF Placed, Flags, Steady, CfgPlace, Taking
<1>9. Base
  BY <1>6, <1>7, <1>8, Types DEF Base
<1>10. \A s \in Sa : Age(vg, s) = 0 /\ Landing(vg, s) \in 0..NSa - 1
  <2>1. \A s \in Sa : Age(vg, s) = 0
    BY <1>5 DEF Age
  <2> QED BY <1>6, <2>1, AheadIn
<1>11. Aged(vg, Landing, 0)
  <2>1. SUFFICES ASSUME NEW s \in Near(vg) PROVE Age(vg, s) <= 2 * (NSa - Landing(vg, s)) + 0
    BY DEF Aged
  <2>2. s \in Sa
    BY <1>6, NearIn
  <2>3. Age(vg, s) = 0 /\ Landing(vg, s) \in 0..NSa - 1
    BY <1>10, <2>2
  <2> QED BY <2>3, Sizes
<1>12. DOMAIN vg.act = {}
  BY <1>5
<1>13. Turning(vg)
  BY <1>5, <1>11, <1>12 DEF Turning, Spinning, Ordered, Outdated
<1>14. Current(vg, disk)
  <2>1. Active(vg) \subseteq Sa
    BY <1>6, NearIn
  <2> QED BY <1>2, <1>5, <2>1 DEF Current
<1>15. Level(vg, Outside(config))
  <2>1. \A s \in Active(vg) : vg.seq[s] = vg.whl_seq_num
    BY <1>5, <1>6, NearIn
  <2> QED BY <2>1 DEF Level, Levelled, Even
<1> QED BY <1>9, <1>13, <1>14, <1>15 DEF Turn

LEMMA HdVgsaNext == ASSUME Base, [Next]_vars PROVE Keeps
<1>1. ASSUME UNCHANGED vars PROVE Keeps
  <2>1. config \in Process /\ CfgPlace(pb, config) /\ Flags(vg, config)
    BY Types DEF Base
  <2> QED BY <1>1, <2>1, GoOn DEF vars, Flags
<1>2. ASSUME ConfigStep PROVE Keeps
  BY <1>2, StepsOK, WithControlOK DEF ConfigStep
<1> QED BY <1>1, <1>2, IoRequestOK, IodoneOK, ConfigOK DEF Next

(* Every variable keeps the shape of the driver's structures.               *)
THEOREM HdVgsaTypeOK == Spec => []TypeOK
<1>1. Init => Base
  BY HdVgsaInit
<1>2. Base /\ [Next]_vars => Base'
  BY HdVgsaNext DEF Keeps
<1>3. Base => TypeOK
  BY DEF Base
<1> QED BY <1>1, <1>2, <1>3, PTL DEF Spec

(* The invariant of the whole revolution.                                   *)
LEMMA HdVgsaTurn == ASSUME Wide, NoNewDisk PROVE Spec => [](Base /\ Turn)
<1>1. Init => Base /\ Turn
  BY HdVgsaInit
<1>2. Base /\ Turn /\ [Next]_vars => (Base /\ Turn)'
  BY HdVgsaNext DEF Keeps
<1> QED BY <1>1, <1>2, PTL DEF Spec

(* The wheel is active exactly while an SA is written, and when it stops    *)
(* every request has been returned: the SA with the newest number at which  *)
(* hd_sa_cont() stops it is behind the stops of all of them.                *)
THEOREM HdVgsaNobodyStranded ==
  ASSUME Wide, NoNewDisk
  PROVE  Spec => []NobodyStranded
<1>1. Base /\ Turn => NobodyStranded
  <2>1. SUFFICES ASSUME Base, Turn PROVE NobodyStranded
    OBVIOUS
  <2>2. vg.whl = "active" <=> vg.sa_lbuf # NULL
    BY <2>1 DEF Base, Flags, Steady
  <2>3. ASSUME vg.whl = "stopped" PROVE Listed(vg) = {}
    <3>1. vg.hld = <<>> /\ vg.act = <<>>
      BY <2>1, <2>3 DEF Base, Flags, Steady, Turn, Turning
    <3>2. Range(<<>>) = {}
      BY DEF Range
    <3> QED BY <3>1, <3>2 DEF Listed
  <2> QED BY <2>2, <2>3 DEF NobodyStranded
<1> QED BY <1>1, HdVgsaTurn, PTL

(* The number of an SA stands for the image it holds, although the number   *)
(* is kept in 16 bits.                                                      *)
THEOREM HdVgsaNewestIsCurrent ==
  ASSUME Wide, NoNewDisk
  PROVE  Spec => []NewestIsCurrent
<1>1. Base /\ Turn => NewestIsCurrent
  BY DEF Turn, Current, NewestIsCurrent, InService
<1> QED BY <1>1, HdVgsaTurn, PTL

(* The wheel stops at an SA with the newest number, and the SAs that it has *)
(* left since that number was made have it too: those before it are all.    *)
THEOREM HdVgsaStoppedIsCurrent ==
  ASSUME Wide, NoNewDisk
  PROVE  Spec => []StoppedIsCurrent
<1>1. Base /\ Turn => StoppedIsCurrent
  <2>1. SUFFICES ASSUME Base, Turn, vg.whl = "stopped", ~vg.forcedoff, config.pc # "control",
                        NEW s \in InService
                 PROVE  disk[s] = vg.vgsa
    BY DEF StoppedIsCurrent
  <2>2. CfgPlace(pb, config) /\ vg.sa_lbuf = NULL /\ vg \in Group
    BY <2>1, Types DEF Base, Flags, Steady
  <2>3. Outside(config) \subseteq Joining
    BY <2>2 DEF Outside, Joining, CfgPlace
  <2>4. s \in Active(vg) /\ s \notin Outside(config)
    BY <2>1, <2>3 DEF InService
  <2>5. vg.seq[s] = vg.whl_seq_num
    BY <2>1, <2>4 DEF Turn, Level
  <2>6. vg.sa_lbuf # s
    BY <2>2, <2>4, NearIn, Sizes
  <2> QED BY <2>1, <2>4, <2>5, <2>6 DEF Turn, Current
<1> QED BY <1>1, HdVgsaTurn, PTL

(* The memory image is the source of the write under way, and nobody        *)
(* changes it meanwhile: the requests wait on sa_hld_lst, and a process     *)
(* with control has found the wheel stopped or held.                        *)
THEOREM HdVgsaImageStable == Spec => ImageStable
<1>1. Init => Base
  BY HdVgsaInit
<1>2. Base /\ [Next]_vars => Base'
  BY HdVgsaNext DEF Keeps
<1>3. Base /\ [Next]_vars =>
        LET s == vg.sa_lbuf IN
        s # NULL /\ vg'.vgsa # vg.vgsa => SaWriteEnds /\ (disk'[s] = vg.vgsa \/ s \notin Active(vg'))
  BY HdVgsaNext DEF Keeps, Untorn
<1> QED BY <1>1, <1>2, <1>3, PTL DEF Spec, ImageStable

-----------------------------------------------------------------------------
(* What the theorems about the recorded changes suppose: no request takes   *)
(* SAs away while the wheel may be held or roll on.                         *)
SasStay ==
  /\ ConfigOps \subseteq {"HD_KADDVGSA", "HD_MWC_REC", "HD_KEXTEND", "HD_KREDUCE"}
  /\ "SA_PVMISSING" \in IoTypes => ConfigOps = {}

(* What a request asks for the copy p, and what an SA must hold for it.     *)
IsStale(P, p) == "PP_STALE" \in P[p]
IsChanging(P, p) == "PP_CHGING" \in P[p]
Marks(q, r, p) == q[r].type = "SA_STALEPP" /\ p \in {q[r].lp} \X q[r].mir
Clears(q, r, p) == q[r].type = "SA_FRESHPP" /\ p \in {q[r].lp} \X q[r].mir
Carries(a, v, d) ==
  /\ a # NULL /\ a.type = "SA_STALEPP" /\ d # NULL => {a.lp} \X a.mir \subseteq d.stalepp
  /\ a # NULL /\ a.type = "SA_CONFIGOP" => d # NULL /\ d.extpp = v
Good(q, v, D) == {x \in Pbuf \X Sa : Carries(q[x[1]], v, D[x[2]])}

(* A request on hold after the n-th is to mark a copy stale.                *)
Marker(w, n, p) == \E i \in 1..Len(w.vg.hld) : i > n /\ Marks(w.pb, w.vg.hld[i], p)

(* A stale copy is marked in the memory image, or will be by a request on   *)
(* hold; and a request on hold that clears it comes before those that mark  *)
(* it, none of which has become active.                                     *)
Bound(w, n, P) ==
  /\ \A p \in Pp : IsStale(P, p) => p \in w.vg.vgsa.stalepp \/ Marker(w, n, p)
  /\ \A p \in Pp, i \in 1..Len(w.vg.hld) :
       i > n /\ Clears(w.pb, w.vg.hld[i], p) =>
         /\ IsStale(P, p) => Marker(w, i, p)
         /\ \A k \in 1..Len(w.vg.hld) : k > n /\ Marks(w.pb, w.vg.hld[k], p) => i < k
         /\ \A r \in Begun(w) : ~Marks(w.pb, r, p)
  /\ \A p \in Pp : \A r \in Begun(w) : Marks(w.pb, r, p) => p \in w.vg.vgsa.stalepp

LEMMA BoundNext ==
  ASSUME NEW w, NEW d, NEW P, NEW n \in Nat, Len(w.vg.hld) \in Nat, n < Len(w.vg.hld),
         d.pb = w.pb, d.vg.hld = w.vg.hld, Begun(d) \subseteq Begun(w) \cup {w.vg.hld[n + 1]},
         \A p \in Pp : p \in d.vg.vgsa.stalepp <=>
           \/ Marks(w.pb, w.vg.hld[n + 1], p)
           \/ p \in w.vg.vgsa.stalepp /\ ~Clears(w.pb, w.vg.hld[n + 1], p),
         Bound(w, n, P)
  PROVE  Bound(d, n + 1, P)
<1> DEFINE hld == w.vg.hld
           L == Len(hld)
           r == hld[n + 1]
           q == w.pb
           M(i, p) == Marks(q, hld[i], p)
           C(i, p) == Clears(q, hld[i], p)
<1>1. L \in Nat /\ n + 1 \in 1..L /\ d.vg.hld = hld /\ d.pb = q
  OBVIOUS
<1>2. \A k, p : Marker(d, k, p) <=> \E i \in 1..L : i > k /\ M(i, p)
  BY <1>1 DEF Marker
<1>3. \A k, p : Marker(w, k, p) <=> \E i \in 1..L : i > k /\ M(i, p)
  BY DEF Marker
<1>4. \A p \in Pp : p \in d.vg.vgsa.stalepp <=> M(n + 1, p) \/ (p \in w.vg.vgsa.stalepp /\ ~C(n + 1, p))
  OBVIOUS
<1>5. ~(M(n + 1, 0) /\ C(n + 1, 0)) /\ \A p : ~(M(n + 1, p) /\ C(n + 1, p))
  BY DEF Marks, Clears
<1>6. /\ \A p \in Pp : IsStale(P, p) => p \in w.vg.vgsa.stalepp \/ Marker(w, n, p)
      /\ \A p \in Pp, i \in 1..L :
           i > n /\ C(i, p) =>
             /\ IsStale(P, p) => Marker(w, i, p)
             /\ \A k \in 1..L : k > n /\ M(k, p) => i < k
             /\ \A x \in Begun(w) : ~Marks(q, x, p)
      /\ \A p \in Pp : \A x \in Begun(w) : Marks(q, x, p) => p \in w.vg.vgsa.stalepp
  BY DEF Bound
<1>7. \A x \in Begun(d) : \A p : Marks(q, x, p) => M(n + 1, p) \/ \E y \in Begun(w) : y = x /\ Marks(q, y, p)
  OBVIOUS
<1> HIDE DEF M, C, L
<1>8. ASSUME NEW p \in Pp, IsStale(P, p) PROVE p \in d.vg.vgsa.stalepp \/ Marker(d, n + 1, p)
  <2>1. CASE C(n + 1, p)
    <3>1. Marker(w, n + 1, p)
      BY <1>1, <1>6, <1>8, <2>1
    <3> QED BY <3>1, <1>2, <1>3
  <2>2. CASE ~C(n + 1, p) /\ ~(p \in w.vg.vgsa.stalepp)
    <3>1. PICK i \in 1..L : i > n /\ M(i, p)
      BY <1>3, <1>6, <1>8, <2>2
    <3>2. i = n + 1 \/ i > n + 1
      BY <3>1, <1>1
    <3> QED BY <3>1, <3>2, <1>2, <1>4
  <2> QED BY <2>1, <2>2, <1>4
<1>9. ASSUME NEW p \in Pp, NEW i \in 1..L, i > n + 1, C(i, p)
      PROVE  /\ IsStale(P, p) => Marker(d, i, p)
             /\ \A k \in 1..L : k > n + 1 /\ M(k, p) => i < k
             /\ \A x \in Begun(d) : ~Marks(q, x, p)
  <2>1. i > n /\ \A k \in 1..L : k > n + 1 => k > n
    BY <1>1, <1>9
  <2>2. ~(i < n + 1) /\ n + 1 > n
    BY <1>1, <1>9
  <2>3. ~M(n + 1, p)
    BY <1>1, <1>6, <1>9, <2>1, <2>2
  <2> QED BY <1>2, <1>3, <1>6, <1>7, <1>9, <2>1, <2>3
<1>10. ASSUME NEW p \in Pp, NEW x \in Begun(d), Marks(q, x, p) PROVE p \in d.vg.vgsa.stalepp
  <2>1. CASE M(n + 1, p)
    BY <2>1, <1>4
  <2>2. CASE ~M(n + 1, p)
    <3>1. x \in Begun(w) /\ p \in w.vg.vgsa.stalepp
      BY <1>6, <1>7, <1>10, <2>2
    <3>2. n + 1 > n
      BY <1>1
    <3>3. ~C(n + 1, p)
      BY <1>1, <1>6, <1>10, <3>1, <3>2
    <3> QED BY <1>4, <3>1, <3>3
  <2> QED BY <2>1, <2>2
<1> QED BY <1>1, <1>8, <1>9, <1>10 DEF Bound, M, C, L

LEMMA BoundSame ==
  ASSUME NEW w, NEW d, NEW P, NEW n,
         d.pb = w.pb, d.vg.hld = w.vg.hld, d.vg.vgsa.stalepp = w.vg.vgsa.stalepp,
         Begun(d) \subseteq Begun(w), Bound(w, n, P)
  PROVE  Bound(d, n, P)
BY DEF Bound, Marker

(* What has been returned is on all SAs; and what the requests on the lists *)
(* of the wheel ask for: the I/O handlers mark a PV missing before they ask,*)
(* and one request stands for another only if it carries what that asks.    *)
Returned(w, G) == \A r \in w.ok, s \in Active(w.vg) : <<r, s>> \in G

Missing(g, q) ==
  \A r \in Pbuf : q[r] # NULL /\ q[r].type \in {"SA_PVMISSING", "SA_PVREMOVED"} =>
                    g.pvstate[q[r].pv] # "PV_DEFINED"
Inherits(q, G) ==
  \A h \in Pbuf, r \in Pbuf, s \in Sa :
    q[h] # NULL /\ q[r] # NULL /\ Piggybacks(q[h], q[r]) /\ <<h, s>> \in G => <<r, s>> \in G

LEMMA GoodInherits == ASSUME NEW q, NEW v, NEW D PROVE Inherits(q, Good(q, v, D))
<1> SUFFICES ASSUME NEW h \in Pbuf, NEW r \in Pbuf, NEW s \in Sa,
                    q[h] # NULL, q[r] # NULL, Piggybacks(q[h], q[r]), Carries(q[h], v, D[s])
             PROVE  Carries(q[r], v, D[s])
  BY DEF Inherits, Good
<1>1. q[h].type = q[r].type /\ q[r].type # "SA_CONFIGOP"
  BY DEF Piggybacks
<1>2. CASE q[r].type = "SA_STALEPP"
  <2>1. q[h].lp = q[r].lp /\ q[r].mir \subseteq q[h].mir
    BY <1>2 DEF Piggybacks
  <2> QED BY <1>1, <1>2, <2>1 DEF Carries
<1>3. CASE q[r].type # "SA_STALEPP"
  BY <1>1, <1>3 DEF Carries
<1> QED BY <1>2, <1>3

(* What a request of the I/O handlers changes when it becomes active.       *)
LEMMA ApplyImage ==
  ASSUME NEW w \in Copy, NEW q \in Request,
         q.type \in {"SA_PVMISSING", "SA_PVREMOVED"} => w.vg.pvstate[q.pv] # "PV_DEFINED"
  PROVE  LET d == Apply(w, q)
         IN  /\ d.vg.pvstate = w.vg.pvstate /\ d.vg.vgsa.extpp = w.vg.vgsa.extpp
             /\ \A p : p \in d.vg.vgsa.stalepp <=>
                  \/ q.type = "SA_STALEPP" /\ p \in {q.lp} \X q.mir
                  \/ /\ p \in w.vg.vgsa.stalepp
                     /\ ~(q.type = "SA_FRESHPP" /\ p \in {q.lp} \X q.mir)
<1> DEFINE g == w.vg
<1>1. /\ g \in Group /\ g.vgsa \in Image
      /\ g.pvstate \in [Pv -> {"NULL", "PV_DEFINED", "PV_MISSING"}]
  BY CopyFields, GroupFields
<1>2. CASE q.type \in {"SA_PVMISSING", "SA_PVREMOVED"}
  <2> DEFINE p == q.pv
             v == IF g.pvstate[p] = "NULL" THEN g.pvstate[p] ELSE "PV_MISSING"
             s == [g.pvstate EXCEPT ![p] = v]
             m == [g.vgsa EXCEPT !.pvmissing = @ \cup {p}]
             h == [g EXCEPT !.pvstate = s, !.vgsa = m]
             d == [w EXCEPT !.vg = h]
             e == IF q.type = "SA_PVREMOVED" THEN [d EXCEPT !.vg.quorum_cnt = q.b_work] ELSE d
  <2>1. p \in Pv
    BY <1>2 DEF Request
  <2>2. SETSA_PVMISS(w, p) = d
    BY DEF SETSA_PVMISS, Copy, Group
  <2>3. s = g.pvstate
    <3>1. g.pvstate[p] \in {"NULL", "PV_MISSING"}
      BY <1>1, <1>2, <2>1
    <3>2. v = g.pvstate[p]
      BY <3>1
    <3> HIDE DEF v
    <3> QED BY <1>1, <2>1, <3>2
  <2>4. m.stalepp = g.vgsa.stalepp /\ m.extpp = g.vgsa.extpp /\ m \in Image
    BY <1>1, <2>1 DEF Image
  <2> HIDE DEF m, s
  <2>5. h.pvstate = g.pvstate /\ h.vgsa = m /\ h \in Group
    BY <1>1, <2>3, <2>4 DEF Group
  <2> HIDE DEF h
  <2>6. d \in Copy /\ d.vg = h
    BY <2>5 DEF Copy
  <2> HIDE DEF d
  <2>7. e.vg.pvstate = g.pvstate /\ e.vg.vgsa = m /\ e \in Copy
    <3>1. CASE q.type = "SA_PVREMOVED"
      <4> DEFINE k == [h EXCEPT !.quorum_cnt = q.b_work]
      <4>1. q.b_work \in Quorums
        BY <3>1 DEF Request
      <4>2. e = [d EXCEPT !.vg = k]
        BY <3>1, <2>6
      <4>3. k.pvstate = g.pvstate /\ k.vgsa = m /\ k \in Group
        BY <2>5, <4>1 DEF Group
      <4> HIDE DEF k
      <4> QED BY <2>6, <4>2, <4>3 DEF Copy
    <3>2. CASE q.type # "SA_PVREMOVED"
      BY <2>5, <2>6, <3>2
    <3> QED BY <3>1, <3>2
  <2>8. Apply(w, q) = hd_sa_qrmchk(e)
    BY <1>2, <2>2 DEF Apply
  <2> HIDE DEF e
  <2> DEFINE f == e.vg.forcedoff \/ Cardinality(Active(e.vg)) < e.vg.quorum_cnt
             k == [e.vg EXCEPT !.forcedoff = f]
  <2>9. hd_sa_qrmchk(e) = [e EXCEPT !.vg = k]
    BY DEF hd_sa_qrmchk
  <2>10. k.pvstate = g.pvstate /\ k.vgsa = m
    <3> HIDE DEF f
    <3>1. e.vg \in Group
      BY <2>7, CopyFields
    <3> QED BY <2>7, <3>1 DEF Group
  <2> HIDE DEF k
  <2>11. Apply(w, q).vg = k
    BY <2>7, <2>8, <2>9 DEF Copy
  <2> QED BY <1>2, <2>4, <2>10, <2>11
<1>3. ASSUME NEW x \in SUBSET Pp, Apply(w, q) = [w EXCEPT !.vg.vgsa.stalepp = x]
      PROVE  LET d == Apply(w, q)
             IN  d.vg.pvstate = g.pvstate /\ d.vg.vgsa.extpp = g.vgsa.extpp /\ d.vg.vgsa.stalepp = x
  <2> DEFINE i == [g.vgsa EXCEPT !.stalepp = x]
             h == [g EXCEPT !.vgsa = i]
  <2>1. i.stalepp = x /\ i.extpp = g.vgsa.extpp
    BY <1>1 DEF Image
  <2>2. Apply(w, q) = [w EXCEPT !.vg = h]
    BY <1>3
  <2> HIDE DEF i
  <2>3. h.pvstate = g.pvstate /\ h.vgsa = i
    BY <1>1 DEF Group
  <2> HIDE DEF h
  <2>4. [w EXCEPT !.vg = h].vg = h
    BY DEF Copy
  <2> QED BY <2>1, <2>2, <2>3, <2>4
<1>4. CASE q.type = "SA_STALEPP"
  <2> DEFINE x == g.vgsa.stalepp \cup ({q.lp} \X q.mir)
  <2>1. {q.lp} \X q.mir \subseteq Pp
    BY <1>4 DEF Request, Pp
  <2>2. x \in SUBSET Pp
    BY <1>1, <2>1 DEF Image
  <2>3. Apply(w, q) = [w EXCEPT !.vg.vgsa.stalepp = x]
    BY <1>4 DEF Apply
  <2> QED BY <1>3, <1>4, <2>2, <2>3
<1>5. CASE q.type = "SA_FRESHPP"
  <2> DEFINE x == g.vgsa.stalepp \ ({q.lp} \X q.mir)
  <2>2. x \in SUBSET Pp
    BY <1>1 DEF Image
  <2>3. Apply(w, q) = [w EXCEPT !.vg.vgsa.stalepp = x]
    BY <1>5 DEF Apply
  <2>4. \A p : p \in x <=> p \in g.vgsa.stalepp /\ ~(p \in {q.lp} \X q.mir)
    OBVIOUS
  <2>5. q.type # "SA_STALEPP"
    BY <1>5
  <2> HIDE DEF x
  <2> QED BY <1>3, <1>5, <2>2, <2>3, <2>4, <2>5
<1>6. CASE q.type = "SA_CONFIGOP"
  <2>1. Apply(w, q) = w
    BY <1>6 DEF Apply
  <2> QED BY <2>1, <1>6
<1>7. q.type \in {"SA_PVMISSING", "SA_PVREMOVED", "SA_STALEPP", "SA_FRESHPP", "SA_CONFIGOP"}
  BY DEF Request
<1> QED BY <1>2, <1>4, <1>5, <1>6, <1>7

LEMMA PiggybackRec ==
  ASSUME NEW w \in Copy, NEW R, Apart(w.vg.act, w.pb, w.ok \cup w.err, R),
         NEW r \in Pbuf, r \in R, NEW k \in 1..Len(w.vg.act),
         Piggybacks(w.pb[First(w.vg.act[k])], w.pb[r]),
         NEW G, Inherits(w.pb, G), Written(w.vg, w.fresh, G),
         \A p \in Pp : \A x \in Begun(w) : Marks(w.pb, x, p) => p \in w.vg.vgsa.stalepp
  PROVE  LET d == [w EXCEPT !.vg.act[k] = Append(@, r)]
         IN  /\ d.vg.pvstate = w.vg.pvstate /\ d.vg.vgsa = w.vg.vgsa /\ d.fresh = w.fresh
             /\ \A p \in Pp : Marks(w.pb, r, p) => p \in w.vg.vgsa.stalepp
             /\ \A p \in Pp : ~Clears(w.pb, r, p)
             /\ Begun(d) \subseteq Begun(w) \cup {r}
             /\ Written(d.vg, d.fresh, G)
<1> DEFINE g == w.vg
           A == g.act
           b == [A EXCEPT ![k] = Append(@, r)]
           h == [g EXCEPT !.act = b]
           d == [w EXCEPT !.vg = h]
           c == First(A[k])
<1>1. g \in Group /\ A \in Seq(Seq(Pbuf)) /\ DOMAIN A = 1..Len(A)
  BY CopyFields, GroupFields
<1>2. /\ \A j \in 1..Len(A) : A[j] \in Seq(Pbuf) /\ A[j] # <<>> /\ First(A[j]) \in Range(A[j])
      /\ \A j \in 1..Len(A) : \A x \in Range(A[j]) : w.pb[x] # NULL
      /\ w.pb[r] # NULL
  <2> DEFINE D == w.ok \cup w.err
             q == w.pb
  <2>1. A \in Seq(Seq(Pbuf)) /\ Apart(A, q, D, R)
    BY <1>1
  <2> HIDE DEF A, D, q
  <2>2. \A j \in 1..Len(A) : A[j] \in Seq(Pbuf) /\ A[j] # <<>> /\ First(A[j]) \in Range(A[j])
    BY <2>1, NotFirst
  <2>3. DOMAIN A = 1..Len(A)
    BY <2>1
  <2> QED BY <2>1, <2>2, <2>3 DEF Apart, q
<1>3. [w EXCEPT !.vg.act[k] = Append(@, r)] = d
  OBVIOUS
<1>4. Append(A[k], r) \in Seq(Pbuf) /\ Range(Append(A[k], r)) = Range(A[k]) \cup {r}
  BY <1>2, RangeAppend
<1>5. First(Append(A[k], r)) = c
  BY <1>2, FirstAppend
<1>6. /\ b \in Seq(Seq(Pbuf)) /\ DOMAIN b = 1..Len(A)
      /\ \A j \in 1..Len(A) : b[j] = IF j = k THEN Append(A[k], r) ELSE A[j]
  <2>1. k \in 1..Len(A)
    OBVIOUS
  <2> HIDE DEF A
  <2> QED BY <1>1, <1>4, <2>1
<1>7. /\ \A j \in 1..Len(A) : First(b[j]) = First(A[j])
      /\ \A j \in 1..Len(A) : j # k => Range(b[j]) = Range(A[j])
      /\ Range(b[k]) = Range(A[k]) \cup {r}
  BY <1>4, <1>5, <1>6
<1> HIDE DEF b
<1>8. /\ h.act = b /\ h.wheel_idx = g.wheel_idx /\ h.stop = g.stop /\ h.vgsa = g.vgsa
      /\ h.lsn = g.lsn /\ h.pvstate = g.pvstate
  BY <1>1 DEF Group
<1> HIDE DEF h
<1>9. d.vg = h /\ d.fresh = w.fresh /\ d.ok = w.ok /\ d.pb = w.pb
  BY DEF Copy
<1> HIDE DEF d
<1>10. c \in Range(A[k]) /\ c \in Pbuf /\ w.pb[c] # NULL
  <2>1. c \in Range(A[k]) /\ A[k] \in Seq(Pbuf)
    BY <1>2
  <2> QED BY <2>1, <1>2, RangeIn
<1>11. \A x : x \in Begun(w) <=> x \in w.ok \/ \E j \in 1..Len(A) : x \in Range(A[j])
  <2>1. Range(A) = {A[j] : j \in 1..Len(A)}
    BY <1>1 DEF Range
  <2> HIDE DEF A
  <2> QED BY <2>1 DEF Begun, A
<1>12. \A x : x \in Begun(d) <=> x \in w.ok \/ \E j \in 1..Len(A) : x \in Range(b[j])
  <2>1. Range(b) = {b[j] : j \in 1..Len(A)}
    BY <1>6 DEF Range
  <2> QED BY <2>1, <1>8, <1>9 DEF Begun
<1>13. Begun(d) \subseteq Begun(w) \cup {r}
  BY <1>7, <1>11, <1>12
<1>14. ASSUME NEW p \in Pp PROVE ~Clears(w.pb, r, p) /\ (Marks(w.pb, r, p) => p \in g.vgsa.stalepp)
  <2>1. ~Clears(w.pb, r, p)
    BY DEF Clears, Piggybacks
  <2>2. Marks(w.pb, r, p) => Marks(w.pb, c, p)
    BY DEF Marks, Piggybacks
  <2>3. c \in Begun(w)
    BY <1>10, <1>11
  <2> QED BY <2>1, <2>2, <2>3
<1>15. Active(h) = Active(g) /\ \A s : Ahead(h, s) = Ahead(g, s)
  BY <1>8 DEF Active, Ahead
<1>16. \A j \in 1..Len(A) : StopAt(h, j) = StopAt(g, j)
  BY <1>7, <1>8, <1>15 DEF StopAt
<1>17. Written(h, w.fresh, G)
  <2> SUFFICES ASSUME NEW j \in 1..Len(A), First(b[j]) \notin w.fresh,
                      NEW x \in Range(b[j]), NEW s \in Active(h),
                      s # h.wheel_idx, Ahead(h, s) >= StopAt(h, j)
               PROVE  <<x, s>> \in G
    BY <1>6, <1>8 DEF Written
  <2>1. s \in Active(g) /\ s # g.wheel_idx /\ Ahead(g, s) >= StopAt(g, j) /\ First(A[j]) \notin w.fresh
    BY <1>7, <1>8, <1>15, <1>16
  <2>2. \A y \in Range(A[j]) : <<y, s>> \in G
    BY <1>1, <2>1 DEF Written
  <2>3. CASE j # k \/ x # r
    BY <1>7, <2>2, <2>3
  <2>4. CASE j = k /\ x = r
    <3>1. <<c, s>> \in G
      BY <1>10, <2>2, <2>4
    <3>2. s \in Sa
      BY <1>1, <2>1, NearIn
    <3> QED BY <3>1, <3>2, <1>2, <1>10, <2>4 DEF Inherits
  <2> QED BY <2>3, <2>4
<1> QED BY <1>3, <1>8, <1>9, <1>13, <1>14, <1>17

LEMMA NewActiveRec ==
  ASSUME NEW w \in Copy, NEW R, Apart(w.vg.act, w.pb, w.ok \cup w.err, R),
         NEW r \in Pbuf, r \in R, Missing(w.vg, w.pb),
         NEW G, Written(w.vg, w.fresh, G)
  PROVE  LET e == [w EXCEPT !.vg.act = Append(@, <<r>>), !.fresh = @ \cup {r}]
             d == Apply(hd_sa_update(e), w.pb[r])
         IN  /\ d.vg.pvstate = w.vg.pvstate /\ d.vg.vgsa.extpp = w.vg.vgsa.extpp
             /\ d.fresh = w.fresh \cup {r}
             /\ \A p \in Pp : p \in d.vg.vgsa.stalepp <=>
                  \/ Marks(w.pb, r, p)
                  \/ p \in w.vg.vgsa.stalepp /\ ~Clears(w.pb, r, p)
             /\ Begun(d) \subseteq Begun(w) \cup {r}
             /\ Written(d.vg, d.fresh, G)
<1> DEFINE g == w.vg
           A == g.act
           b == Append(A, <<r>>)
           f == [g EXCEPT !.act = b]
           e == [w EXCEPT !.vg = f, !.fresh = @ \cup {r}]
           u == hd_sa_update(e)
           d == Apply(u, w.pb[r])
           h == d.vg
<1>1. g \in Group /\ A \in Seq(Seq(Pbuf)) /\ DOMAIN A = 1..Len(A) /\ Len(A) \in Nat
  BY CopyFields, GroupFields
<1>2. /\ b \in Seq(Seq(Pbuf)) /\ DOMAIN b = 1..Len(A) + 1 /\ First(b[Len(A) + 1]) = r
      /\ \A j \in 1..Len(A) : b[j] = A[j]
      /\ b[Len(A) + 1] = <<r>> /\ Range(<<r>>) = {r}
  <2>1. <<r>> \in Seq(Pbuf) /\ Range(<<r>>) = {r} /\ First(<<r>>) = r
    BY DEF Range, First
  <2> HIDE DEF A
  <2> QED BY <1>1, <2>1
<1>3. [w EXCEPT !.vg.act = Append(@, <<r>>), !.fresh = @ \cup {r}] = e
  OBVIOUS
<1>4. w.pb[r] \in Request
  <2>1. w.pb[r] # NULL
    BY DEF Apart
  <2> QED BY <2>1, CopyFields DEF Asked
<1> HIDE DEF b
<1>5. /\ f \in Group /\ f.act = b
      /\ f.wheel_idx = g.wheel_idx /\ f.stop = g.stop /\ f.vgsa = g.vgsa
      /\ f.lsn = g.lsn /\ f.pvstate = g.pvstate
  BY <1>1, <1>2 DEF Group
<1> HIDE DEF f
<1>6. /\ e \in Copy /\ e.vg = f /\ e.pb = w.pb /\ e.ok = w.ok /\ e.fresh = w.fresh \cup {r}
  BY <1>5 DEF Copy
<1> HIDE DEF e
<1>7. /\ u \in Copy /\ u.pb = w.pb /\ u.ok = w.ok /\ u.fresh = w.fresh \cup {r}
      /\ u.vg = [f EXCEPT !.whl_seq_num = u.vg.whl_seq_num]
  BY <1>6, UpdateOK
<1> HIDE DEF u
<1>8. /\ u.vg.act = b /\ u.vg.wheel_idx = g.wheel_idx /\ u.vg.stop = g.stop
      /\ u.vg.vgsa = g.vgsa /\ u.vg.lsn = g.lsn /\ u.vg.pvstate = g.pvstate
  BY <1>5, <1>7, NumberOnly
<1>9. w.pb[r].type \in {"SA_PVMISSING", "SA_PVREMOVED"} => u.vg.pvstate[w.pb[r].pv] # "PV_DEFINED"
  <2>1. w.pb[r] # NULL
    BY DEF Apart
  <2> QED BY <2>1, <1>8 DEF Missing
<1>10. /\ Marked(u, d) /\ h.pvstate = u.vg.pvstate /\ h.vgsa.extpp = u.vg.vgsa.extpp
       /\ \A p : p \in h.vgsa.stalepp <=>
            \/ w.pb[r].type = "SA_STALEPP" /\ p \in {w.pb[r].lp} \X w.pb[r].mir
            \/ /\ p \in u.vg.vgsa.stalepp
               /\ ~(w.pb[r].type = "SA_FRESHPP" /\ p \in {w.pb[r].lp} \X w.pb[r].mir)
  BY <1>4, <1>7, <1>9, ApplyOK, ApplyImage
<1> HIDE DEF d
<1>11. /\ h.act = b /\ h.wheel_idx = g.wheel_idx /\ h.stop = g.stop /\ h.lsn = g.lsn
       /\ h.pvstate = g.pvstate /\ d.fresh = w.fresh \cup {r} /\ d.ok = w.ok
       /\ h.vgsa.extpp = g.vgsa.extpp
  BY <1>7, <1>8, <1>10 DEF Marked
<1>12. \A p \in Pp : p \in h.vgsa.stalepp <=>
         Marks(w.pb, r, p) \/ (p \in g.vgsa.stalepp /\ ~Clears(w.pb, r, p))
  BY <1>8, <1>10 DEF Marks, Clears
<1> HIDE DEF h
<1>13. Begun(d) \subseteq Begun(w) \cup {r}
  <2>1. Range(A) = {A[j] : j \in 1..Len(A)} /\ Range(b) = {b[j] : j \in 1..Len(A) + 1}
    BY <1>1, <1>2 DEF Range
  <2>2. \A x : x \in Begun(w) <=> x \in w.ok \/ \E j \in 1..Len(A) : x \in Range(A[j])
    <3> HIDE DEF A
    <3> QED BY <2>1 DEF Begun, A
  <2>3. \A x : x \in Begun(d) <=> x \in w.ok \/ \E j \in 1..Len(A) + 1 : x \in Range(b[j])
    BY <2>1, <1>11 DEF Begun, h
  <2>4. \A j \in 1..Len(A) + 1 : j \in 1..Len(A) \/ j = Len(A) + 1
    <3> DEFINE n == Len(A)
    <3> HIDE DEF n
    <3>1. n \in Nat => \A j \in 1..n + 1 : j \in 1..n \/ j = n + 1
      OBVIOUS
    <3> QED BY <1>1, <3>1 DEF n
  <2> QED BY <1>2, <2>2, <2>3, <2>4
<1>14. Active(h) = Active(g) /\ \A s : Ahead(h, s) = Ahead(g, s)
  BY <1>11 DEF Active, Ahead
<1>15. Written(h, d.fresh, G)
  <2> SUFFICES ASSUME NEW j \in 1..Len(A) + 1, First(b[j]) \notin d.fresh,
                      NEW x \in Range(b[j]), NEW s \in Active(h),
                      s # h.wheel_idx, Ahead(h, s) >= StopAt(h, j)
               PROVE  <<x, s>> \in G
    BY <1>2, <1>11 DEF Written
  <2>1. j \in 1..Len(A)
    <3>1. j # Len(A) + 1
      BY <1>2, <1>11
    <3> QED BY <3>1, <1>1
  <2>2. b[j] = A[j] /\ First(A[j]) \notin w.fresh
    BY <1>2, <1>11, <2>1
  <2>3. StopAt(h, j) = StopAt(g, j)
    BY <1>11, <1>14, <2>2 DEF StopAt
  <2> QED BY <1>1, <1>11, <1>14, <2>1, <2>2, <2>3 DEF Written
<1> QED BY <1>3, <1>11, <1>12, <1>13, <1>15 DEF h, d, u

LEMMA ActivateRec ==
  ASSUME NEW w \in Copy, NEW R, Apart(w.vg.act, w.pb, w.ok \cup w.err, R),
         NEW r \in Pbuf, r \in R, Missing(w.vg, w.pb),
         NEW G, Inherits(w.pb, G), Written(w.vg, w.fresh, G),
         \A p \in Pp : \A x \in Begun(w) : Marks(w.pb, x, p) => p \in w.vg.vgsa.stalepp
  PROVE  LET d == Activate(w, r)
         IN  /\ d.vg.pvstate = w.vg.pvstate /\ d.vg.vgsa.extpp = w.vg.vgsa.extpp
             /\ d.fresh \subseteq w.fresh \cup {r}
             /\ \A p \in Pp : p \in d.vg.vgsa.stalepp <=>
                  \/ Marks(w.pb, r, p)
                  \/ p \in w.vg.vgsa.stalepp /\ ~Clears(w.pb, r, p)
             /\ Begun(d) \subseteq Begun(w) \cup {r}
             /\ Written(d.vg, d.fresh, G)
<1> DEFINE act == w.vg.act
           like == {j \in DOMAIN act : Piggybacks(w.pb[act[j][1]], w.pb[r])}
<1>1. act \in Seq(Seq(Pbuf))
  BY CopyFields, GroupFields
<1>2. CASE like # {}
  <2> DEFINE k == Min(like)
  <2>1. like \in SUBSET Nat /\ \A j \in like : j \in 1..Len(act)
    BY <1>1
  <2>2. k \in like
    <3> HIDE DEF like
    <3> QED BY <1>2, <2>1, MinIn
  <2>3. k \in 1..Len(w.vg.act) /\ Piggybacks(w.pb[First(w.vg.act[k])], w.pb[r])
    BY <2>1, <2>2, Zenon DEF First
  <2>4. Activate(w, r) = [w EXCEPT !.vg.act[k] = Append(@, r)]
    BY <1>2 DEF Activate
  <2> HIDE DEF k
  <2> DEFINE d == [w EXCEPT !.vg.act[k] = Append(@, r)]
  <2>6. /\ d.vg.pvstate = w.vg.pvstate /\ d.vg.vgsa = w.vg.vgsa /\ d.fresh = w.fresh
        /\ \A p \in Pp : Marks(w.pb, r, p) => p \in w.vg.vgsa.stalepp
        /\ \A p \in Pp : ~Clears(w.pb, r, p)
        /\ Begun(d) \subseteq Begun(w) \cup {r}
        /\ Written(d.vg, d.fresh, G)
    BY <2>3, PiggybackRec, Zenon
  <2> HIDE DEF d
  <2> QED BY <2>4, <2>6 DEF d
<1>3. CASE like = {}
  <2>1. Activate(w, r) = Apply(hd_sa_update([w EXCEPT !.vg.act = Append(@, <<r>>), !.fresh = @ \cup {r}]), w.pb[r])
    BY <1>3, Zenon DEF Activate
  <2> DEFINE e == [w EXCEPT !.vg.act = Append(@, <<r>>), !.fresh = @ \cup {r}]
             d == Apply(hd_sa_update(e), w.pb[r])
  <2>2. /\ d.vg.pvstate = w.vg.pvstate /\ d.vg.vgsa.extpp = w.vg.vgsa.extpp
        /\ d.fresh = w.fresh \cup {r}
        /\ \A p \in Pp : p \in d.vg.vgsa.stalepp <=>
             \/ Marks(w.pb, r, p)
             \/ p \in w.vg.vgsa.stalepp /\ ~Clears(w.pb, r, p)
        /\ Begun(d) \subseteq Begun(w) \cup {r}
        /\ Written(d.vg, d.fresh, G)
    BY NewActiveRec, Zenon
  <2> HIDE DEF d
  <2> QED BY <2>1, <2>2 DEF d
<1> QED BY <1>2, <1>3

(* The requests on hold become active one by one.                           *)
LEMMA MoveHeldSteps ==
  ASSUME NEW w, w.vg.hld \in Seq(Pbuf)
  PROVE  \E f : /\ f[0] = w
                /\ \A k \in 1..Len(w.vg.hld) : f[k] = Activate(f[k - 1], w.vg.hld[k])
                /\ MoveHeld(w) = [f[Len(w.vg.hld)] EXCEPT !.vg.hld = <<>>]
<1> DEFINE hld == w.vg.hld
           n == Len(hld)
           IsMoved(h, k) == h = [i \in 0..k |-> IF i = 0 THEN w ELSE Activate(h[i - 1], hld[i])]
           T == {k \in 0..n : \E h : IsMoved(h, k)}
           f == CHOOSE h : IsMoved(h, n)
<1>1. n \in Nat
  OBVIOUS
<1>2. MoveHeld(w) = [f[n] EXCEPT !.vg.hld = <<>>]
  BY Zenon DEF MoveHeld
<1> HIDE DEF n, hld
<1>5. T = 0..n
  <2>1. 0 \in T
    <3>1. IsMoved([i \in 0..0 |-> w], 0)
      OBVIOUS
    <3>2. 0 \in 0..n /\ \E h : IsMoved(h, 0)
      <4> HIDE DEF IsMoved
      <4> QED BY <1>1, <3>1
    <3> QED BY <3>2, Zenon
  <2>2. ASSUME NEW k \in 1..n, k - 1 \in T PROVE k \in T
    <3>1. PICK h : IsMoved(h, k - 1)
      BY <2>2, Zenon
    <3>2. k - 1 \in Nat /\ k \in 0..n
      BY <1>1
    <3> DEFINE x == [i \in 0..k |-> IF i = 0 THEN w ELSE Activate(h[i - 1], hld[i])]
    <3>3. ASSUME NEW i \in 0..(k - 1) PROVE x[i] = h[i]
      <4>1. h[i] = IF i = 0 THEN w ELSE Activate(h[i - 1], hld[i])
        BY <3>1
      <4>2. x[i] = IF i = 0 THEN w ELSE Activate(h[i - 1], hld[i])
        BY <3>2
      <4> QED BY <4>1, <4>2
    <3>4. ASSUME NEW i \in 0..k, i # 0 PROVE h[i - 1] = x[i - 1]
      <4>1. i - 1 \in 0..(k - 1)
        BY <3>4
      <4> HIDE DEF x
      <4> QED BY <3>3, <4>1
    <3>5. IsMoved(x, k)
      BY <3>4
    <3> HIDE DEF x, IsMoved
    <3> QED BY <3>2, <3>5
  <2> HIDE DEF T
  <2>3. T \in SUBSET (0..n)
    BY DEF T
  <2> QED BY <1>1, <2>1, <2>2, <2>3, IntervalInduction
<1>6. IsMoved(f, n)
  <2>1. n \in T
    <3> HIDE DEF T
    <3> QED BY <1>1, <1>5
  <2>2. \E h : IsMoved(h, n)
    BY <2>1, Zenon
  <2> QED BY <2>2, Zenon
<1> HIDE DEF f
<1>7. f[0] = w /\ \A k \in 1..n : f[k] = Activate(f[k - 1], hld[k])
  <2>1. 0 \in 0..n /\ \A k \in 1..n : k \in 0..n /\ k # 0
    BY <1>1
  <2> QED BY <1>6, <2>1
<1> QED BY <1>2, <1>7 DEF n, hld

LEMMA MoveHeldRec ==
  ASSUME NEW w, Sane(w), Missing(w.vg, w.pb), NEW G, Inherits(w.pb, G),
         Written(w.vg, w.fresh, G), NEW P, Bound(w, 0, P)
  PROVE  LET d == MoveHeld(w)
         IN  /\ d.vg.pvstate = w.vg.pvstate /\ d.vg.vgsa.extpp = w.vg.vgsa.extpp
             /\ d.fresh \subseteq w.fresh \cup Range(w.vg.hld)
             /\ Begun(d) \subseteq Begun(w) \cup Range(w.vg.hld)
             /\ Bound(d, 0, P) /\ Written(d.vg, d.fresh, G)
             /\ \A p \in Pp : IsStale(P, p) => p \in d.vg.vgsa.stalepp
<1> DEFINE hld == w.vg.hld
           n == Len(hld)
           Rest(k) == {hld[i] : i \in k + 1..n}
           Like(d, k) == /\ d \in Copy /\ Apart(d.vg.act, d.pb, d.ok \cup d.err, Rest(k))
                         /\ d.pb = w.pb /\ d.vg.hld = hld
                         /\ d.vg.pvstate = w.vg.pvstate /\ d.vg.vgsa.extpp = w.vg.vgsa.extpp
                         /\ d.fresh \subseteq w.fresh \cup Range(hld)
                         /\ Begun(d) \subseteq Begun(w) \cup Range(hld)
                         /\ Bound(d, k, P) /\ Written(d.vg, d.fresh, G)
<1>1. w \in Copy /\ hld \in Seq(Pbuf) /\ n \in Nat /\ IsInjective(hld)
  BY CopyFields, GroupFields DEF Sane, Placed
<1>2. PICK f : /\ f[0] = w
               /\ \A k \in 1..n : f[k] = Activate(f[k - 1], hld[k])
               /\ MoveHeld(w) = [f[n] EXCEPT !.vg.hld = <<>>]
  BY <1>1, MoveHeldSteps
<1> DEFINE K == {k \in 0..n : Like(f[k], k)}
<1>3. DOMAIN hld = 1..n /\ \A i \in 1..n : hld[i] \in Pbuf /\ hld[i] \in Range(hld)
  BY <1>1 DEF Range
<1>4. \A i, j \in 1..n : hld[i] = hld[j] => i = j
  BY <1>1, <1>3 DEF IsInjective
<1>5. w.vg.hld = hld /\ Len(hld) = n
  OBVIOUS
<1> HIDE DEF n, hld
<1>6. Like(w, 0)
  <2>1. Rest(0) = Range(hld)
    BY <1>3 DEF Range
  <2>2. Apart(w.vg.act, w.pb, w.ok \cup w.err, Range(hld))
    BY <1>1, <1>5, ApartSane
  <2> HIDE DEF Rest
  <2> QED BY <1>1, <1>5, <2>1, <2>2
<1>7. ASSUME NEW k \in 1..n, Like(f[k - 1], k - 1) PROVE Like(f[k], k)
  <2> DEFINE d == f[k - 1]
             r == hld[k]
             e == Activate(d, r)
  <2>1. r \in Pbuf /\ r \in Rest(k - 1)
    <3>1. k \in (k - 1) + 1..n
      BY <1>1
    <3> QED BY <3>1, <1>3
  <2>2. Rest(k) = Rest(k - 1) \ {r}
    <3>1. (k - 1) + 1..n = {k} \cup (k + 1..n)
      BY <1>1
    <3>2. \A i \in k + 1..n : hld[i] # r
      BY <1>1, <1>4
    <3> QED BY <3>1, <3>2
  <2> HIDE DEF Rest
  <2>3. /\ d \in Copy /\ Apart(d.vg.act, d.pb, d.ok \cup d.err, Rest(k - 1))
        /\ d.pb = w.pb /\ d.vg.hld = hld
        /\ d.vg.pvstate = w.vg.pvstate /\ d.vg.vgsa.extpp = w.vg.vgsa.extpp
        /\ d.fresh \subseteq w.fresh \cup Range(hld)
        /\ Begun(d) \subseteq Begun(w) \cup Range(hld)
        /\ Bound(d, k - 1, P) /\ Written(d.vg, d.fresh, G)
    BY <1>7
  <2>4. f[k] = e
    BY <1>2
  <2>5. hld[(k - 1) + 1] = r /\ k - 1 \in Nat /\ k - 1 < n /\ (k - 1) + 1 = k
    BY <1>1
  <2> HIDE DEF d, r
  <2>6. /\ e \in Copy /\ Apart(e.vg.act, e.pb, e.ok \cup e.err, Rest(k - 1) \ {r}) /\ Activated(d, e)
        /\ e.vg.hld = d.vg.hld
    BY <2>1, <2>3, ActivateOK
  <2>7. Missing(d.vg, d.pb) /\ Inherits(d.pb, G)
    BY <2>3 DEF Missing
  <2>8. \A p \in Pp : \A x \in Begun(d) : Marks(d.pb, x, p) => p \in d.vg.vgsa.stalepp
    BY <2>3 DEF Bound
  <2>9. /\ e.vg.pvstate = d.vg.pvstate /\ e.vg.vgsa.extpp = d.vg.vgsa.extpp
        /\ e.fresh \subseteq d.fresh \cup {r}
        /\ \A p \in Pp : p \in e.vg.vgsa.stalepp <=>
             \/ Marks(d.pb, r, p)
             \/ p \in d.vg.vgsa.stalepp /\ ~Clears(d.pb, r, p)
        /\ Begun(e) \subseteq Begun(d) \cup {r}
        /\ Written(e.vg, e.fresh, G)
    BY <2>1, <2>3, <2>7, <2>8, ActivateRec
  <2> HIDE DEF e
  <2>10. e.pb = d.pb
    BY <2>6 DEF Activated
  <2>11. Bound(e, (k - 1) + 1, P)
    <3> DEFINE x == k - 1
    <3>1. /\ x \in Nat /\ Len(d.vg.hld) \in Nat /\ x < Len(d.vg.hld) /\ d.vg.hld[x + 1] = r
          /\ Bound(d, x, P)
      BY <1>1, <1>5, <2>3, <2>5
    <3> HIDE DEF x
    <3>2. Bound(e, x + 1, P)
      BY <2>6, <2>9, <2>10, <3>1, BoundNext
    <3> QED BY <3>2 DEF x
  <2>12. e.fresh \subseteq w.fresh \cup Range(hld) /\ Begun(e) \subseteq Begun(w) \cup Range(hld)
    BY <1>3, <2>3, <2>9 DEF r
  <2> QED BY <2>2, <2>3, <2>4, <2>5, <2>6, <2>9, <2>10, <2>11, <2>12
<1> HIDE DEF Like
<1>8. K = 0..n
  <2>1. 0 \in K
    BY <1>1, <1>2, <1>6
  <2>2. ASSUME NEW k \in 1..n, k - 1 \in K PROVE k \in K
    BY <2>2, <1>1, <1>7
  <2>3. K \in SUBSET (0..n)
    OBVIOUS
  <2> HIDE DEF K
  <2> QED BY <1>1, <2>1, <2>2, <2>3, IntervalInduction
<1>9. Like(f[n], n)
  <2>1. n \in K
    <3> HIDE DEF K
    <3> QED BY <1>1, <1>8
  <2> QED BY <2>1
<1> DEFINE m == f[n]
           h == [m.vg EXCEPT !.hld = <<>>]
           d == [m EXCEPT !.vg = h]
<1>10. MoveHeld(w) = d
  BY <1>2
<1>11. /\ m \in Copy /\ m.pb = w.pb /\ m.vg.hld = hld
       /\ m.vg.pvstate = w.vg.pvstate /\ m.vg.vgsa.extpp = w.vg.vgsa.extpp
       /\ m.fresh \subseteq w.fresh \cup Range(hld)
       /\ Begun(m) \subseteq Begun(w) \cup Range(hld)
       /\ Bound(m, n, P) /\ Written(m.vg, m.fresh, G)
  BY <1>9 DEF Like
<1> HIDE DEF m
<1>12. /\ h.hld = <<>> /\ h.act = m.vg.act /\ h.stop = m.vg.stop /\ h.wheel_idx = m.vg.wheel_idx
       /\ h.vgsa = m.vg.vgsa /\ h.lsn = m.vg.lsn /\ h.pvstate = m.vg.pvstate
  <2>1. m.vg \in Group
    BY <1>11, CopyFields
  <2> QED BY <2>1 DEF Group
<1> HIDE DEF h
<1>13. d.vg = h /\ d.pb = m.pb /\ d.ok = m.ok /\ d.fresh = m.fresh
  BY <1>11 DEF Copy
<1> HIDE DEF d
<1>14. Written(d.vg, d.fresh, G)
  <2>1. Active(h) = Active(m.vg) /\ \A s : Ahead(h, s) = Ahead(m.vg, s)
    BY <1>12 DEF Active, Ahead
  <2>2. \A j : StopAt(h, j) = StopAt(m.vg, j)
    BY <1>12, <2>1 DEF StopAt
  <2> QED BY <1>11, <1>12, <1>13, <2>1, <2>2 DEF Written
<1>15. \A p : ~Marker(m, n, p)
  BY <1>1, <1>5, <1>11 DEF Marker
<1>16. ASSUME NEW p \in Pp, IsStale(P, p) PROVE p \in d.vg.vgsa.stalepp
  BY <1>11, <1>12, <1>13, <1>15, <1>16 DEF Bound
<1>17. Begun(d) = Begun(m)
  BY <1>12, <1>13 DEF Begun
<1>18. Bound(d, 0, P)
  <2>1. 1..Len(d.vg.hld) = {}
    BY <1>12, <1>13
  <2> QED BY <1>11, <1>12, <1>13, <1>16, <1>17, <2>1 DEF Bound
<1> QED BY <1>10, <1>11, <1>12, <1>13, <1>14, <1>16, <1>17, <1>18 DEF hld

(* Where the wheel may leave an SA that cannot be written: at the start,    *)
(* where the new requests, without a stop yet, seem to stop; or it returns  *)
(* nothing that has to be recorded.                                         *)
Sited(w, G) ==
  \/ w.vg.wheel_idx \in Active(w.vg) \cup {0}
  \/ \A r \in Begun(w) \cup Range(w.vg.hld), s \in Active(w.vg) : <<r, s>> \in G

LEMMA ArriveRec ==
  ASSUME NEW m, Sane(m), m.vg.nukesa = {}, Ordered(m.vg, m.fresh),
         NEW G, Written(m.vg, m.fresh, G), Returned(m, G), Sited(m, G),
         \A r \in m.fresh : m.vg.stop[r] = 0
  PROVE  LET a == IF m.vg.wheel_idx \in Active(m.vg) THEN m ELSE hd_sa_whladv(m)
         IN  /\ Written(a.vg, m.fresh, G) /\ Returned(a, G) /\ Begun(a) \subseteq Begun(m)
             /\ a.vg.nukesa = {} /\ a.vg.lsn = m.vg.lsn
             /\ \/ a.vg.wheel_idx \in Active(a.vg)
                \/ a.vg.wheel_idx = m.vg.wheel_idx /\ Active(a.vg) = {}
<1>1. m \in Copy /\ m.vg \in Group /\ Placed(m.vg, m.pb)
  BY CopyFields DEF Sane
<1>2. CASE m.vg.wheel_idx \in Active(m.vg)
  BY <1>2
<1>3. CASE m.vg.wheel_idx \notin Active(m.vg)
  <2> DEFINE a == hd_sa_whladv(m)
             g == m.vg
             A == g.act
  <2>1. Delivers(m, a)
    BY WhladvOK
  <2> HIDE DEF a
  <2>2. \A j \in DOMAIN A : \A r \in Range(A[j]) : r \in Begun(m)
    BY DEF Begun, Range
  <2>3. \A s \in Active(g) : s \in Sa /\ s # g.wheel_idx /\ Ahead(g, s) < NSa
    BY <1>1, <1>3, NearIn, AheadIn
  <2>4. \A j \in DOMAIN A : First(A[j]) \in Pbuf
    BY <1>1, Heads
  <2>5. Full(g, G)
    <3> SUFFICES ASSUME NEW j \in DOMAIN A, NEW r \in Range(A[j]), NEW s \in Active(g),
                        Ahead(g, s) >= StopAt(g, j)
                 PROVE  <<r, s>> \in G
      BY DEF Full
    <3>1. CASE \A x \in Begun(m), y \in Active(g) : <<x, y>> \in G
      BY <2>2, <3>1
    <3>2. CASE g.wheel_idx = 0
      <4>1. CASE First(A[j]) \notin m.fresh
        BY <2>3, <4>1 DEF Written
      <4>2. CASE First(A[j]) \in m.fresh
        <5>1. StopAt(g, j) = Ahead(g, g.wheel_idx)
          BY <3>2, <4>2 DEF StopAt
        <5>2. Ahead(g, g.wheel_idx) = NSa
          BY <1>1, GroupFields, AheadIn
        <5>3. Ahead(g, s) \in 1..NSa /\ NSa \in Nat
          BY <1>1, <2>3, AheadIn, Sizes
        <5> QED BY <2>3, <5>1, <5>2, <5>3
      <4> QED BY <4>1, <4>2
    <3> QED BY <1>3, <3>1, <3>2 DEF Sited
  <2>6. Returned(a, G)
    <3> SUFFICES ASSUME NEW r \in a.ok, NEW s \in Active(a.vg) PROVE <<r, s>> \in G
      BY DEF Returned
    <3>1. s \in Active(g)
      BY <2>1 DEF Delivers
    <3> QED BY <2>1, <2>5, <3>1 DEF Delivers, Returned
  <2> QED BY <1>3, <2>1, <2>5, <2>6 DEF Delivers, a
<1> QED BY <1>2, <1>3

LEMMA RollRec ==
  ASSUME NEW m, Sane(m), m.vg.nukesa = {}, Ordered(m.vg, m.fresh),
         NEW G, Written(m.vg, m.fresh, G), Returned(m, G), Sited(m, G),
         \A r \in m.fresh : m.vg.stop[r] = 0, NEW P, Bound(m, 0, P)
  PROVE  LET d == Roll(m)
         IN  /\ Written(d.vg, {}, G) /\ Returned(d, G) /\ Bound(d, 0, P)
             /\ d.vg.nukesa = {} /\ d.vg.lsn = m.vg.lsn /\ d.vg.pvstate = m.vg.pvstate
             /\ d.vg.vgsa = m.vg.vgsa /\ d.vg.hld = m.vg.hld /\ d.err = m.err
             /\ \/ d.vg.wheel_idx \in Active(d.vg)
                \/ d.vg.wheel_idx = m.vg.wheel_idx /\ Active(d.vg) = {}
<1> DEFINE a == IF m.vg.wheel_idx \in Active(m.vg) THEN m ELSE hd_sa_whladv(m)
           g == a.vg
           i == g.wheel_idx
           S == [r \in Pbuf |-> IF r \in m.fresh THEN i ELSE g.stop[r]]
           h == [g EXCEPT !.stop = S]
           b == [a EXCEPT !.vg = h]
           h0 == [h EXCEPT !.whl = "stopped"]
           h1 == [h EXCEPT !.sa_lbuf = i, !.seq = [g.seq EXCEPT ![i] = g.whl_seq_num]]
           d0 == [b EXCEPT !.vg = h0]
           d1 == [b EXCEPT !.vg = h1]
<1>1. /\ Sane(a) /\ Advanced(m, a)
      /\ Written(g, m.fresh, G) /\ Returned(a, G) /\ Begun(a) \subseteq Begun(m)
      /\ g.nukesa = {} /\ g.lsn = m.vg.lsn
      /\ \/ i \in Active(g)
         \/ i = m.vg.wheel_idx /\ Active(g) = {}
  BY ArriveOK, ArriveRec
<1>2. Roll(m) = IF b.vg.seq[i] = b.vg.whl_seq_num THEN [b EXCEPT !.vg.whl = "stopped"] ELSE hd_sa_wrt(b)
  BY DEF Roll
<1> HIDE DEF a
<1>3. a \in Copy /\ g \in Group /\ i \in Sa /\ Placed(g, a.pb) /\ S \in [Pbuf -> Sa]
  <2>1. a \in Copy
    BY <1>1 DEF Sane
  <2>2. a.vg \in Group
    BY <2>1, CopyFields
  <2>3. i \in Sa /\ g.stop \in [Pbuf -> Sa]
    BY <2>2, GroupFields
  <2> QED BY <1>1, <2>1, <2>2, <2>3 DEF Sane
<1> HIDE DEF S
<1>5. /\ h \in Group /\ h.stop = S /\ h.wheel_idx = i /\ h.whl_seq_num = g.whl_seq_num /\ h.seq = g.seq
      /\ h.hld = g.hld /\ h.act = g.act /\ h.vgsa = g.vgsa
      /\ h.lsn = g.lsn /\ h.nukesa = g.nukesa /\ h.pvstate = g.pvstate
  BY <1>3 DEF Group
<1>4. /\ h0 = [g EXCEPT !.stop = S, !.whl = "stopped"]
      /\ h1 = [g EXCEPT !.stop = S, !.sa_lbuf = i, !.seq = [g.seq EXCEPT ![i] = g.whl_seq_num]]
  BY <1>3 DEF Group
<1> HIDE DEF h
<1>6. b \in Copy /\ b.vg = h /\ b.pb = a.pb /\ b.ok = a.ok /\ b.err = a.err
  BY <1>3, <1>5 DEF Copy
<1>7. Roll(m) = IF g.seq[i] = g.whl_seq_num THEN d0 ELSE d1
  <2>1. [b EXCEPT !.vg.whl = "stopped"] = d0
    BY <1>6
  <2>2. hd_sa_wrt(b) = d1
    BY <1>5, <1>6, Zenon DEF hd_sa_wrt
  <2> HIDE DEF b, d0, d1
  <2> QED BY <1>2, <1>5, <1>6, <2>1, <2>2
<1>8. ASSUME NEW x \in {h0, h1}
      PROVE  /\ x.stop = S /\ x.wheel_idx = i /\ x.hld = g.hld /\ x.act = g.act /\ x.vgsa = g.vgsa
             /\ x.lsn = g.lsn /\ x.nukesa = g.nukesa /\ x.pvstate = g.pvstate
  <2> HIDE DEF h0, h1
  <2> QED BY <1>3, <1>4 DEF Group
<1> HIDE DEF h0, h1
<1>9. /\ d0.vg = h0 /\ d0.pb = a.pb /\ d0.ok = a.ok /\ d0.err = a.err
      /\ d1.vg = h1 /\ d1.pb = a.pb /\ d1.ok = a.ok /\ d1.err = a.err
  BY <1>6 DEF Copy
<1> HIDE DEF b, d0, d1
<1>10. \A j \in DOMAIN g.act : First(g.act[j]) \in Pbuf
  BY <1>3, Heads
<1>11. \A s \in Active(g) : s \in Sa /\ (s # i => Ahead(g, s) \in Int /\ ~(Ahead(g, s) >= NSa)) /\ Ahead(g, i) = NSa
  <2>1. \A s \in Sa : Ahead(g, s) \in 1..NSa /\ Ahead(g, i) = NSa /\ (s # i => Ahead(g, s) < NSa)
    BY <1>3, AheadIn
  <2> QED BY <1>3, <2>1, NearIn, Sizes
<1>12. a.pb = m.pb /\ g.vgsa = m.vg.vgsa /\ g.hld = m.vg.hld /\ g.pvstate = m.vg.pvstate /\ a.err = m.err
  BY <1>1 DEF Advanced
<1>13. ASSUME NEW d, NEW x \in {h0, h1}, d.vg = x, d.pb = a.pb, d.ok = a.ok, d.err = a.err
       PROVE  /\ Written(d.vg, {}, G) /\ Returned(d, G) /\ Bound(d, 0, P)
              /\ d.vg.nukesa = {} /\ d.vg.lsn = m.vg.lsn /\ d.vg.pvstate = m.vg.pvstate
              /\ d.vg.vgsa = m.vg.vgsa /\ d.vg.hld = m.vg.hld /\ d.err = m.err
              /\ \/ d.vg.wheel_idx \in Active(d.vg)
                 \/ d.vg.wheel_idx = m.vg.wheel_idx /\ Active(d.vg) = {}
  <2>1. /\ x.stop = S /\ x.wheel_idx = i /\ x.hld = g.hld /\ x.act = g.act /\ x.vgsa = g.vgsa
        /\ x.lsn = g.lsn /\ x.nukesa = g.nukesa /\ x.pvstate = g.pvstate
    BY <1>8
  <2>2. Active(x) = Active(g) /\ \A s : Ahead(x, s) = Ahead(g, s)
    BY <2>1 DEF Active, Ahead
  <2>3. \A j \in DOMAIN g.act : StopAt(x, j) = IF First(g.act[j]) \in m.fresh THEN Ahead(g, i) ELSE StopAt(g, j)
    BY <1>10, <2>1, <2>2 DEF StopAt, S
  <2>4. Written(x, {}, G)
    <3> SUFFICES ASSUME NEW j \in DOMAIN g.act, NEW r \in Range(g.act[j]), NEW s \in Active(g),
                        s # i, Ahead(g, s) >= StopAt(x, j)
                 PROVE  <<r, s>> \in G
      BY <2>1, <2>2 DEF Written
    <3>1. First(g.act[j]) \notin m.fresh
      BY <1>11, <2>3
    <3> QED BY <1>1, <2>3, <3>1 DEF Written
  <2>5. Returned(d, G)
    BY <1>1, <1>13, <2>2 DEF Returned
  <2>6. Begun(d) \subseteq Begun(m)
    <3>1. Begun(d) = Begun(a)
      BY <1>13, <2>1 DEF Begun
    <3> QED BY <1>1, <3>1
  <2>7. Bound(d, 0, P)
    BY <1>12, <1>13, <2>1, <2>6, BoundSame
  <2> QED BY <1>1, <1>12, <1>13, <2>1, <2>2, <2>4, <2>5, <2>7
<1> QED BY <1>7, <1>9, <1>13

(* What a working copy keeps while the requests in G are on their SAs.      *)
Settled(g, P) ==
  \A p \in Pp : IsStale(P, p) /\ ~IsChanging(P, p) => p \in g.vgsa.stalepp
Fresh0(g) == \A r \in Range(g.hld) : g.stop[r] = 0
Carrying(w, P, G) ==
  /\ Written(w.vg, {}, G) /\ Returned(w, G) /\ Bound(w, 0, P) /\ Settled(w.vg, P)
  /\ w.vg.nukesa = {} /\ Fresh0(w.vg) /\ w.err = {}
Alike(g, h) == h.lsn = g.lsn /\ h.pvstate = g.pvstate /\ h.vgsa.extpp = g.vgsa.extpp

LEMMA ContRec ==
  ASSUME NEW w, Sane(w), w.fresh = {}, ~w.woken, w.vg.sa_lbuf = NULL, w.vg.whl = "active",
         Wide, Landed(w), NEW G, Inherits(w.pb, G), Missing(w.vg, w.pb), Sited(w, G),
         NEW P, Carrying(w, P, G), ~hd_sa_cont(w).vg.forcedoff
  PROVE  LET d == hd_sa_cont(w)
         IN  /\ Carrying(d, P, G) /\ Alike(w.vg, d.vg)
             /\ \/ d.vg.wheel_idx \in Active(d.vg)
                \/ d.vg.wheel_idx = w.vg.wheel_idx /\ (Active(d.vg) = {} \/ d.vg.whl = "held")
<1>1. w \in Copy /\ w.vg \in Group
  BY CopyFields DEF Sane
<1>2. CASE config.pc = "waiting"
  <2> DEFINE h == [w.vg EXCEPT !.whl = "held"]
             d == [w EXCEPT !.vg = h, !.woken = TRUE]
  <2>1. hd_sa_cont(w) = d
    BY <1>2 DEF hd_sa_cont
  <2>2. /\ h.whl = "held" /\ h.hld = w.vg.hld /\ h.act = w.vg.act
        /\ h.wheel_idx = w.vg.wheel_idx /\ h.vgsa = w.vg.vgsa /\ h.stop = w.vg.stop
        /\ h.lsn = w.vg.lsn /\ h.pvstate = w.vg.pvstate /\ h.nukesa = w.vg.nukesa
    BY <1>1 DEF Group
  <2> HIDE DEF h
  <2>3. d.vg = h /\ d.pb = w.pb /\ d.ok = w.ok /\ d.err = w.err
    BY <1>1 DEF Copy
  <2> HIDE DEF d
  <2>4. Active(h) = Active(w.vg) /\ \A s : Ahead(h, s) = Ahead(w.vg, s)
    BY <2>2 DEF Active, Ahead
  <2>5. \A j : StopAt(h, j) = StopAt(w.vg, j)
    BY <2>2, <2>4 DEF StopAt
  <2>6. Written(h, {}, G)
    BY <2>2, <2>4, <2>5 DEF Carrying, Written
  <2>7. Begun(d) = Begun(w)
    BY <2>2, <2>3 DEF Begun
  <2>8. Bound(d, 0, P)
    BY <2>2, <2>3, <2>7, BoundSame DEF Carrying
  <2>9. Returned(d, G) /\ Settled(h, P) /\ Fresh0(h)
    BY <2>2, <2>3, <2>4 DEF Carrying, Returned, Settled, Fresh0
  <2> QED BY <2>1, <2>2, <2>3, <2>6, <2>8, <2>9 DEF Carrying, Alike
<1>3. CASE config.pc # "waiting"
  <2> DEFINE m == MoveHeld(w)
             d == Roll(m)
  <2>1. hd_sa_cont(w) = IF m.vg.forcedoff THEN ReturnAll(m) ELSE d
    BY <1>3 DEF hd_sa_cont
  <2>2. /\ Sane(m) /\ Activated(w, m) /\ m.vg.hld = <<>>
        /\ Ready(w) /\ Wide => Ready(m)
    BY MoveHeldOK
  <2>3. /\ m.vg.pvstate = w.vg.pvstate /\ m.vg.vgsa.extpp = w.vg.vgsa.extpp
        /\ m.fresh \subseteq w.fresh \cup Range(w.vg.hld)
        /\ Begun(m) \subseteq Begun(w) \cup Range(w.vg.hld)
        /\ Bound(m, 0, P) /\ Written(m.vg, m.fresh, G)
        /\ \A p \in Pp : IsStale(P, p) => p \in m.vg.vgsa.stalepp
    BY MoveHeldRec DEF Carrying
  <2> HIDE DEF m
  <2>4. ~m.vg.forcedoff
    <3>1. ReturnAll(m).vg.forcedoff = m.vg.forcedoff
      <4>1. m \in Copy /\ m.vg \in Group
        BY <2>2, CopyFields DEF Sane
      <4> QED BY <4>1 DEF ReturnAll, Copy, Group
    <3> QED BY <2>1, <3>1
  <2>5. /\ m.vg.nukesa = {} /\ m.vg.lsn = w.vg.lsn /\ m.vg.stop = w.vg.stop /\ m.ok = w.ok /\ m.err = {}
        /\ m.vg.wheel_idx = w.vg.wheel_idx
    BY <2>2 DEF Activated, Carrying
  <2>6. Ready(m)
    BY <1>1, <2>2, LandedReady
  <2>7. Active(m.vg) = Active(w.vg)
    BY <2>3, <2>5 DEF Active
  <2>8. Returned(m, G)
    BY <2>5, <2>7 DEF Returned, Carrying
  <2>9. \A r \in m.fresh : m.vg.stop[r] = 0
    BY <2>3, <2>5 DEF Carrying, Fresh0
  <2>10. Sited(m, G)
    <3>1. Range(m.vg.hld) = {}
      BY <2>2 DEF Range
    <3> QED BY <2>3, <2>5, <2>7, <3>1 DEF Sited
  <2>11. Ordered(m.vg, m.fresh)
    BY <2>6 DEF Ready
  <2>12. /\ Written(d.vg, {}, G) /\ Returned(d, G) /\ Bound(d, 0, P)
         /\ d.vg.nukesa = {} /\ d.vg.lsn = m.vg.lsn /\ d.vg.pvstate = m.vg.pvstate
         /\ d.vg.vgsa = m.vg.vgsa /\ d.vg.hld = m.vg.hld /\ d.err = m.err
         /\ \/ d.vg.wheel_idx \in Active(d.vg)
            \/ d.vg.wheel_idx = m.vg.wheel_idx /\ Active(d.vg) = {}
    BY <2>2, <2>3, <2>5, <2>8, <2>9, <2>10, <2>11, RollRec
  <2>13. hd_sa_cont(w) = d
    BY <2>1, <2>4
  <2> HIDE DEF d
  <2>14. Settled(d.vg, P)
    BY <2>3, <2>12 DEF Settled
  <2>15. Fresh0(d.vg)
    BY <2>2, <2>12 DEF Fresh0, Range
  <2> QED BY <2>3, <2>5, <2>12, <2>13, <2>14, <2>15 DEF Carrying, Alike
<1> QED BY <1>2, <1>3

(* A request is put on hold.                                                *)
WithList(w, list) == [w EXCEPT !.vg.hld = @ \o list]

LEMMA StrtRec ==
  ASSUME NEW w, Sane(w), w.fresh = {}, ~w.woken, ~w.updated,
         w.vg.whl = "active" <=> w.vg.sa_lbuf # NULL, w.vg.sa_lbuf \in {NULL, w.vg.wheel_idx},
         NEW list \in Seq(Pbuf), IsInjective(list),
         \A r \in Range(list) : r \notin Listed(w.vg) \cup w.ok \cup w.err /\ w.pb[r] # NULL,
         Wide, Spinning(w.vg), NEW G, Inherits(w.pb, G), Missing(w.vg, w.pb),
         NEW P, Written(w.vg, {}, G), Returned(w, G), Settled(w.vg, P),
         w.vg.nukesa = {}, Fresh0(w.vg), w.err = {}, Bound(WithList(w, list), 0, P),
         w.vg.whl = "stopped" => Sited(WithList(w, list), G),
         ~hd_sa_strt(w, list).vg.forcedoff
  PROVE  LET d == hd_sa_strt(w, list)
         IN  /\ Carrying(d, P, G) /\ Alike(w.vg, d.vg)
             /\ \/ d.vg.wheel_idx \in Active(d.vg)
                \/ /\ d.vg.wheel_idx = w.vg.wheel_idx
                   /\ Active(d.vg) = {} \/ d.vg.whl = "held" \/ w.vg.whl # "stopped"
<1> DEFINE g == w.vg
           L == g.hld \o list
           S == [r \in Pbuf |-> IF r \in Range(list) THEN 0 ELSE g.stop[r]]
           h == [g EXCEPT !.hld = L, !.stop = S]
           h1 == [h EXCEPT !.whl = "active"]
           e == [w EXCEPT !.vg = h]
           e1 == [e EXCEPT !.vg = h1]
           l == WithList(w, list)
<1>1. /\ w \in Copy /\ g \in Group /\ Placed(g, w.pb)
      /\ \A r \in w.ok \cup w.err : w.pb[r] # NULL /\ r \notin Listed(g)
  BY CopyFields DEF Sane
<1>2. hd_sa_strt(w, list) = IF h.whl = "stopped" THEN hd_sa_cont(e1) ELSE e
  <2> DEFINE x == [w EXCEPT !.vg.hld = @ \o list,
                            !.vg.stop = [r \in Pbuf |-> IF r \in Range(list) THEN 0 ELSE @[r]]]
  <2>1. hd_sa_strt(w, list) = IF x.vg.whl = "stopped" THEN hd_sa_cont([x EXCEPT !.vg.whl = "active"]) ELSE x
    BY Zenon DEF hd_sa_strt
  <2>2. x = e
    OBVIOUS
  <2> HIDE DEF x
  <2>3. e.vg = h
    BY <1>1 DEF Copy
  <2>4. [e EXCEPT !.vg.whl = "active"] = e1
    BY <2>3
  <2> HIDE DEF e, e1, h
  <2> QED BY <2>1, <2>2, <2>3, <2>4
<1>3. L \in Seq(Pbuf) /\ Range(L) = Range(g.hld) \cup Range(list) /\ IsInjective(L)
  <2>1. g.hld \in Seq(Pbuf) /\ IsInjective(g.hld)
    BY <1>1, GroupFields DEF Placed
  <2>2. Range(g.hld) \cap Range(list) = {}
    BY DEF Listed
  <2>3. Len(list) \in Nat /\ list \in [1..Len(list) -> Pbuf]
    OBVIOUS
  <2> QED BY <2>1, <2>2, <2>3, RangeConcat
<1>16. /\ l.vg.hld = L /\ l.vg.act = g.act /\ l.vg.vgsa = g.vgsa /\ l.vg.wheel_idx = g.wheel_idx
       /\ l.vg.lsn = g.lsn /\ l.vg.pvstate = g.pvstate /\ l.pb = w.pb /\ l.ok = w.ok
  BY <1>1 DEF WithList, Copy, Group
<1> HIDE DEF l
<1>4. S \in [Pbuf -> Sa]
  <2>1. 0 \in Sa
    BY Sizes
  <2>2. g.stop \in [Pbuf -> Sa]
    BY <1>1, GroupFields
  <2> QED BY <2>1, <2>2
<1> HIDE DEF L
<1>5. \A j \in DOMAIN g.act : S[First(g.act[j])] = g.stop[First(g.act[j])]
  <2>1. SUFFICES ASSUME NEW j \in DOMAIN g.act PROVE S[First(g.act[j])] = g.stop[First(g.act[j])]
    OBVIOUS
  <2>2. First(g.act[j]) \in Pbuf /\ First(g.act[j]) \in Listed(g)
    BY <1>1, <2>1, Heads
  <2>3. First(g.act[j]) \notin Range(list)
    BY <2>2
  <2> HIDE DEF g
  <2> QED BY <2>2, <2>3
<1>17. \A r \in Range(L) : S[r] = 0
  <2>1. \A r \in Range(L) : r \in Pbuf
    BY <1>3, RangeIn
  <2> QED BY <1>3, <2>1 DEF Fresh0
<1> HIDE DEF S
<1>6. ASSUME NEW x \in {h, h1}
      PROVE  /\ x \in Group /\ x.hld = L /\ x.stop = S /\ x.act = g.act /\ x.sa_lbuf = g.sa_lbuf
             /\ x.wheel_idx = g.wheel_idx /\ x.whl_seq_num = g.whl_seq_num /\ x.seq = g.seq
             /\ x.vgsa = g.vgsa /\ x.forcedoff = g.forcedoff /\ x.lsn = g.lsn /\ x.pvstate = g.pvstate
             /\ x.nukesa = g.nukesa
  <2>1. /\ h \in Group /\ h.hld = L /\ h.stop = S /\ h.act = g.act /\ h.sa_lbuf = g.sa_lbuf
        /\ h.wheel_idx = g.wheel_idx /\ h.whl_seq_num = g.whl_seq_num /\ h.seq = g.seq
        /\ h.vgsa = g.vgsa /\ h.forcedoff = g.forcedoff /\ h.lsn = g.lsn /\ h.pvstate = g.pvstate
        /\ h.nukesa = g.nukesa
    BY <1>1, <1>3, <1>4 DEF Group
  <2> HIDE DEF h
  <2>2. /\ h1 \in Group /\ h1.hld = L /\ h1.stop = S /\ h1.act = g.act /\ h1.sa_lbuf = g.sa_lbuf
        /\ h1.wheel_idx = g.wheel_idx /\ h1.whl_seq_num = g.whl_seq_num /\ h1.seq = g.seq
        /\ h1.vgsa = g.vgsa /\ h1.forcedoff = g.forcedoff /\ h1.lsn = g.lsn /\ h1.pvstate = g.pvstate
        /\ h1.nukesa = g.nukesa
    BY <2>1 DEF Group
  <2> HIDE DEF h1
  <2> QED BY <2>1, <2>2
<1>7. h.whl = g.whl /\ h1.whl = "active"
  BY <1>1 DEF Group
<1> HIDE DEF h, h1
<1>8. ASSUME NEW x \in {h, h1} PROVE Fewer(g, x) /\ Placed(x, w.pb) /\ Listed(x) = Listed(g) \cup Range(list)
  <2>1. Fewer(g, x)
    BY <1>5, <1>6 DEF Fewer, Active
  <2>2. Listed(x) = Listed(g) \cup Range(list)
    BY <1>3, <1>6 DEF Listed
  <2>3. \A j \in DOMAIN g.act : Range(g.act[j]) \subseteq Listed(g)
    BY <1>1, Heads
  <2>4. \A j \in DOMAIN g.act : Range(g.act[j]) \cap Range(x.hld) = {}
    BY <2>3, <1>1, <1>3, <1>6 DEF Placed
  <2>5. Placed(x, w.pb)
    BY <2>2, <2>4, <1>1, <1>3, <1>6 DEF Placed
  <2> QED BY <2>1, <2>2, <2>5
<1>9. /\ e \in Copy /\ e.vg = h /\ e.pb = w.pb /\ e.ok = w.ok /\ e.err = w.err
      /\ e.fresh = {} /\ ~e.woken /\ ~e.updated
  BY <1>1, <1>6 DEF Copy
<1> HIDE DEF e
<1>10. /\ e1 \in Copy /\ e1.vg = h1 /\ e1.pb = w.pb /\ e1.ok = w.ok /\ e1.err = w.err
       /\ e1.fresh = {} /\ ~e1.woken /\ ~e1.updated
  BY <1>9, <1>6 DEF Copy
<1> HIDE DEF e1
<1>11. Sane(e1)
  BY <1>1, <1>8, <1>10 DEF Sane
<1>18. ASSUME NEW x, x \in {e, e1}
       PROVE  Carrying(x, P, G) /\ Alike(g, x.vg) /\ x.vg.wheel_idx = g.wheel_idx /\ Missing(x.vg, w.pb)
  <2> DEFINE k == x.vg
  <2>1. /\ k \in {h, h1} /\ x.pb = w.pb /\ x.ok = w.ok /\ x.err = w.err
    BY <1>9, <1>10, <1>18
  <2>2. /\ k.hld = L /\ k.stop = S /\ k.act = g.act /\ k.wheel_idx = g.wheel_idx
        /\ k.vgsa = g.vgsa /\ k.lsn = g.lsn /\ k.pvstate = g.pvstate /\ k.nukesa = g.nukesa
    BY <1>6, <2>1
  <2> HIDE DEF k
  <2>3. Active(k) = Active(g) /\ \A s : Ahead(k, s) = Ahead(g, s)
    BY <2>2 DEF Active, Ahead
  <2>4. \A j \in DOMAIN g.act : StopAt(k, j) = StopAt(g, j)
    BY <1>5, <2>2, <2>3 DEF StopAt
  <2>5. Written(k, {}, G)
    BY <2>2, <2>3, <2>4 DEF Written
  <2>6. Returned(x, G) /\ Settled(k, P)
    BY <2>1, <2>2, <2>3 DEF Returned, Settled, k
  <2>7. Begun(x) = Begun(l)
    BY <1>16, <2>1, <2>2 DEF Begun, k
  <2>8. x.pb = l.pb /\ x.vg.hld = l.vg.hld /\ x.vg.vgsa.stalepp = l.vg.vgsa.stalepp /\ Bound(l, 0, P)
    BY <1>16, <2>1, <2>2 DEF k, l
  <2>9. Bound(x, 0, P)
    BY <2>7, <2>8, BoundSame
  <2>10. Fresh0(k) /\ Missing(k, w.pb)
    BY <1>17, <2>2 DEF Fresh0, Missing
  <2> QED BY <2>1, <2>2, <2>5, <2>6, <2>9, <2>10 DEF Carrying, Alike, k
<1>12. CASE g.whl = "stopped"
  <2>1. hd_sa_strt(w, list) = hd_sa_cont(e1) /\ e1.vg.sa_lbuf = NULL /\ e1.vg.whl = "active"
    BY <1>2, <1>6, <1>7, <1>10, <1>12
  <2>2. Landed(e1)
    <3>1. Spinning(h1)
      BY <1>1, <1>8, FewerOK
    <3>2. h1.sa_lbuf = NULL
      BY <1>10, <2>1
    <3> QED BY <3>1, <3>2, <1>10 DEF Landed, Spinning
  <2>3. Sited(e1, G)
    <3>1. Begun(e1) = Begun(l) /\ Active(e1.vg) = Active(l.vg)
      BY <1>6, <1>10, <1>16 DEF Begun, Active
    <3>2. e1.vg.wheel_idx = l.vg.wheel_idx /\ e1.vg.hld = l.vg.hld
      BY <1>6, <1>10, <1>16
    <3>3. Sited(l, G)
      BY <1>12 DEF l
    <3> QED BY <3>1, <3>2, <3>3 DEF Sited
  <2>4. Carrying(e1, P, G) /\ Alike(g, e1.vg) /\ e1.vg.wheel_idx = g.wheel_idx /\ Missing(e1.vg, e1.pb)
    BY <1>10, <1>18
  <2>6. Inherits(e1.pb, G)
    BY <1>10
  <2> DEFINE d == hd_sa_cont(e1)
  <2>5. /\ Carrying(d, P, G) /\ Alike(e1.vg, d.vg)
        /\ \/ d.vg.wheel_idx \in Active(d.vg)
           \/ d.vg.wheel_idx = e1.vg.wheel_idx /\ (Active(d.vg) = {} \/ d.vg.whl = "held")
    BY <1>10, <1>11, <2>1, <2>2, <2>3, <2>4, <2>6, ContRec
  <2> HIDE DEF d
  <2> QED BY <2>1, <2>4, <2>5 DEF Alike, d
<1>13. CASE g.whl # "stopped"
  <2>1. hd_sa_strt(w, list) = e
    BY <1>2, <1>7, <1>13
  <2> QED BY <1>9, <1>13, <1>18, <2>1
<1> QED BY <1>12, <1>13

(* The state between two steps: what the disks hold for the requests that   *)
(* the wheel carries, and for those that have been returned.                *)
OnDisks(g, P, D) ==
  \A p \in Pp : IsStale(P, p) /\ ~IsChanging(P, p) =>
    \A s \in Active(g) : D[s] # NULL => p \in D[s].stalepp
Ours(q) == \A r \in Pbuf : q[r] # NULL => (q[r].type = "SA_CONFIGOP" <=> r = Cfg)
Records(g, q, P, D) ==
  /\ Written(g, {}, Good(q, g.vgsa.extpp, D)) /\ Bound(Work(g, q), 0, P)
  /\ Settled(g, P) /\ OnDisks(g, P, D) /\ g.nukesa = {} /\ Fresh0(g)
  /\ Missing(g, q) /\ Ours(q)

(* The SAs that a running request adds, and what its process may rely on.   *)
Adds(c) == IF c.op = "HD_KADDVGSA" /\ c.rtn # "ok" THEN c.sas ELSE {}
Relies(g, c, D) ==
  /\ \A s \in Active(g) \ Adds(c) : D[s] # NULL
  /\ c.rtn = "ok" => \A s \in Active(g) : D[s] # NULL /\ D[s].extpp = g.vgsa.extpp
  /\ c.rtn # "error"
  /\ c.pc = "woken2" => c.rtn = "ok"
  /\ c.pc = "idle" => c.op = "none"

LEMMA BoundAgain ==
  ASSUME NEW w, NEW d, NEW P, NEW Q, d.vg.hld = w.vg.hld, Begun(d) \subseteq Begun(w),
         \A r \in Begun(d) \cup Range(w.vg.hld) : d.pb[r] = w.pb[r],
         d.vg.vgsa.stalepp = w.vg.vgsa.stalepp,
         \A p \in Pp : IsStale(Q, p) <=> IsStale(P, p), Bound(w, 0, P),
         DOMAIN w.vg.hld = 1..Len(w.vg.hld)
  PROVE  Bound(d, 0, Q)
<1>1. \A i \in 1..Len(w.vg.hld) : d.pb[w.vg.hld[i]] = w.pb[w.vg.hld[i]]
  BY DEF Range
<1>3. \A i \in 1..Len(w.vg.hld) : \A p :
        /\ Marks(d.pb, w.vg.hld[i], p) <=> Marks(w.pb, w.vg.hld[i], p)
        /\ Clears(d.pb, w.vg.hld[i], p) <=> Clears(w.pb, w.vg.hld[i], p)
  BY <1>1 DEF Marks, Clears
<1>2. \A n, p : Marker(d, n, p) <=> Marker(w, n, p)
  BY <1>3 DEF Marker
<1>4. \A r \in Begun(d) : \A p : r \in Begun(w) /\ (Marks(d.pb, r, p) <=> Marks(w.pb, r, p))
  BY DEF Marks
<1> QED BY <1>2, <1>3, <1>4 DEF Bound

(* hd_sa_rtn: the requests that it returns are on the disks.                *)
LEMMA RtnRec ==
  ASSUME NEW d, Sane(d), NEW parts \in Parts, NEW c \in Process, CfgPlace(d.pb, c),
         hd_sa_rtn(d, parts, c), d.woken => c.pc = "waiting", NEW D,
         Carrying(d, parts, Good(d.pb, d.vg.vgsa.extpp, D)), OnDisks(d.vg, parts, D),
         Missing(d.vg, d.pb), Ours(d.pb), Relies(d.vg, c, D)
  PROVE  /\ Records(vg', pb', ppstate', D) /\ Relies(vg', config', D)
         /\ vg'.wheel_idx = d.vg.wheel_idx /\ vg'.whl = d.vg.whl /\ Active(vg') = Active(d.vg)
<1> DEFINE done == d.ok \cup d.err
           settled == UNION {{d.pb[r].lp} \X d.pb[r].mir : r \in {q \in done : d.pb[q].type = "SA_STALEPP"}}
           g == d.vg
           S == [r \in Pbuf |-> IF r \in done THEN 0 ELSE g.stop[r]]
           v == g.vgsa.extpp
           G == Good(d.pb, v, D)
<1>1. /\ d \in Copy /\ g \in Group /\ Placed(g, d.pb) /\ done \subseteq Pbuf
      /\ \A r \in done : d.pb[r] # NULL /\ r \notin Listed(g)
  BY CopyFields DEF Sane
<1>2. /\ vg' = [g EXCEPT !.stop = S]
      /\ pb' = [r \in Pbuf |-> IF r \in done THEN NULL ELSE d.pb[r]]
      /\ ppstate' = [p \in Pp |-> IF p \in settled THEN parts[p] \ {"PP_CHGING"} ELSE parts[p]]
      /\ config' = [c EXCEPT
           !.rtn = IF Cfg \in d.ok THEN "ok" ELSE IF Cfg \in d.err THEN "error" ELSE @,
           !.pc = IF d.woken THEN "woken"
                  ELSE IF Cfg \in done /\ @ = "waiting2" THEN "woken2" ELSE @]
  BY DEF hd_sa_rtn
<1>3. d.err = {} /\ done = d.ok
  BY DEF Carrying
<1>4. \A p : p \in settled => \E r \in d.ok : Marks(d.pb, r, p)
  BY <1>3 DEF Marks
<1> HIDE DEF settled
<1>5. Listed(g) \subseteq Pbuf /\ g.hld \in Seq(Pbuf) /\ g.act \in Seq(Seq(Pbuf))
  BY <1>1, GroupFields, Heads
<1>6. \A r \in Listed(g) : pb'[r] = d.pb[r] /\ S[r] = g.stop[r]
  BY <1>1, <1>2, <1>5
<1>7. /\ vg'.hld = g.hld /\ vg'.act = g.act /\ vg'.stop = S /\ vg'.wheel_idx = g.wheel_idx
      /\ vg'.vgsa = g.vgsa /\ vg'.lsn = g.lsn /\ vg'.pvstate = g.pvstate /\ vg'.nukesa = g.nukesa
      /\ vg'.whl = g.whl
  BY <1>1, <1>2 DEF Group
<1> HIDE DEF S, done
<1>8. Active(vg') = Active(g) /\ Active(g) \subseteq Sa
  BY <1>1, <1>7, NearIn DEF Active
<1>9. \A j \in DOMAIN g.act : g.act[j] # <<>> /\ First(g.act[j]) \in Listed(g)
  BY <1>1, Heads
<1>10. \A j \in DOMAIN g.act : Range(g.act[j]) \subseteq Listed(g)
  <2>1. \A j \in DOMAIN g.act : g.act[j] \in Range(g.act)
    BY DEF Range
  <2> QED BY <2>1 DEF Listed
<1>11. Range(g.hld) \subseteq Listed(g)
  BY DEF Listed
<1>12. Written(vg', {}, Good(pb', v, D))
  <2>1. SUFFICES ASSUME NEW j \in DOMAIN g.act, NEW r \in Range(g.act[j]), NEW s \in Active(g),
                        s # g.wheel_idx, Ahead(vg', s) >= StopAt(vg', j)
                 PROVE  <<r, s>> \in Good(pb', v, D)
    BY <1>7, <1>8 DEF Written
  <2>2. Ahead(vg', s) = Ahead(g, s) /\ StopAt(vg', j) = StopAt(g, j)
    BY <1>6, <1>7, <1>9 DEF Ahead, StopAt
  <2>3. <<r, s>> \in G
    BY <2>1, <2>2 DEF Carrying, Written
  <2>4. pb'[r] = d.pb[r]
    BY <1>6, <1>10
  <2> QED BY <2>3, <2>4 DEF Good
<1>13. \A p \in Pp : /\ IsStale(ppstate', p) <=> IsStale(parts, p)
                     /\ p \notin settled => (IsChanging(ppstate', p) <=> IsChanging(parts, p))
  BY <1>2 DEF IsStale, IsChanging
<1>14. Bound(Work(vg', pb'), 0, ppstate')
  <2> DEFINE e == Work(vg', pb')
  <2>1. e.vg = vg' /\ e.pb = pb' /\ e.ok = {}
    BY DEF Work
  <2> HIDE DEF e
  <2>2. Begun(e) \subseteq Begun(d) /\ Begun(e) \subseteq Listed(g)
    BY <1>7, <2>1 DEF Begun, Listed
  <2>3. \A r \in Begun(e) \cup Range(g.hld) : e.pb[r] = d.pb[r]
    BY <1>6, <1>11, <2>1, <2>2
  <2>4. DOMAIN g.hld = 1..Len(g.hld)
    BY <1>5
  <2>5. Bound(d, 0, parts)
    BY DEF Carrying
  <2> QED BY <1>7, <1>13, <2>1, <2>2, <2>3, <2>4, <2>5, BoundAgain DEF e
<1>15. ASSUME NEW p \in Pp, p \in settled
       PROVE  p \in g.vgsa.stalepp /\ \A s \in Active(g) : D[s] # NULL => p \in D[s].stalepp
  <2>1. PICK r \in d.ok : Marks(d.pb, r, p)
    BY <1>4, <1>15
  <2>2. r \in Begun(d) /\ r \in Pbuf /\ d.pb[r] # NULL
    BY <1>1, <1>3, <2>1 DEF Begun
  <2>3. p \in g.vgsa.stalepp
    BY <2>1, <2>2 DEF Carrying, Bound
  <2>4. ASSUME NEW s \in Active(g), D[s] # NULL PROVE p \in D[s].stalepp
    <3>1. <<r, s>> \in G
      BY <2>4 DEF Carrying, Returned
    <3>2. Carries(d.pb[r], v, D[s])
      BY <3>1 DEF Good
    <3> QED BY <2>1, <2>2, <2>4, <3>2 DEF Carries, Marks
  <2> QED BY <2>3, <2>4
<1>16. Settled(vg', ppstate')
  BY <1>7, <1>13, <1>15 DEF Settled, Carrying
<1>17. OnDisks(vg', ppstate', D)
  BY <1>8, <1>13, <1>15 DEF OnDisks
<1>18. Fresh0(vg')
  BY <1>6, <1>7, <1>11 DEF Fresh0, Carrying
<1>19. Missing(vg', pb') /\ Ours(pb')
  <2>1. \A r \in Pbuf : pb'[r] # NULL => pb'[r] = d.pb[r]
    BY <1>2
  <2>2. Ours(pb')
    BY <2>1 DEF Ours
  <2>3. Missing(vg', pb')
    BY <1>7, <2>1 DEF Missing
  <2> QED BY <2>2, <2>3
<1>20. Records(vg', pb', ppstate', D)
  BY <1>7, <1>12, <1>14, <1>16, <1>17, <1>18, <1>19 DEF Records, Carrying
<1>21. /\ config'.op = c.op /\ config'.sas = c.sas
       /\ config'.rtn = IF Cfg \in d.ok THEN "ok" ELSE IF Cfg \in d.err THEN "error" ELSE c.rtn
       /\ config'.pc = IF d.woken THEN "woken"
                       ELSE IF Cfg \in done /\ c.pc = "waiting2" THEN "woken2" ELSE c.pc
  BY <1>2 DEF Process
<1>22. Relies(vg', config', D)
  <2>1. CASE Cfg \in d.ok
    <3>1. Cfg \in Pbuf /\ d.pb[Cfg] # NULL /\ d.pb[Cfg].type = "SA_CONFIGOP"
      BY <1>1, <1>3, <2>1 DEF Ours
    <3>2. ASSUME NEW s \in Active(g) PROVE D[s] # NULL /\ D[s].extpp = v
      <4>1. <<Cfg, s>> \in G
        BY <2>1 DEF Carrying, Returned
      <4>2. Carries(d.pb[Cfg], v, D[s])
        BY <4>1 DEF Good
      <4> QED BY <3>1, <4>2 DEF Carries
    <3>3. config'.pc # "idle" /\ config'.rtn = "ok"
      BY <1>21, <2>1, <3>1 DEF CfgPlace, Asking
    <3> QED BY <1>7, <1>8, <3>2, <3>3 DEF Relies
  <2>2. CASE Cfg \notin d.ok
    <3>1. config'.rtn = c.rtn /\ config'.pc \in {c.pc, "woken"} /\ (config'.pc = "woken" \/ config'.pc = c.pc)
      BY <1>3, <1>21, <2>2
    <3> QED BY <1>7, <1>8, <1>21, <3>1 DEF Relies, Adds
  <2> QED BY <2>1, <2>2
<1> QED BY <1>7, <1>8, <1>20, <1>22

(* What a process relies on depends on few fields.                          *)
LEMMA AlikeSame ==
  ASSUME NEW g, NEW h, Alike(g, h), NEW q, NEW P, NEW c, NEW D
  PROVE  /\ Active(h) = Active(g)
         /\ OnDisks(g, P, D) => OnDisks(h, P, D)
         /\ Missing(g, q) => Missing(h, q)
         /\ Relies(g, c, D) => Relies(h, c, D)
<1>1. Active(h) = Active(g)
  BY DEF Active, Alike
<1>2. OnDisks(g, P, D) => OnDisks(h, P, D)
  BY <1>1 DEF OnDisks
<1>3. Missing(g, q) => Missing(h, q)
  BY DEF Missing, Alike
<1>4. Relies(g, c, D) => Relies(h, c, D)
  BY <1>1 DEF Relies, Alike
<1> QED BY <1>1, <1>2, <1>3, <1>4

(* hd_sa_strt and the return of what it finds done.                         *)
LEMMA StrtRtnRec ==
  ASSUME NEW g \in Group, NEW q \in Asked, Placed(g, q),
         g.whl = "active" <=> g.sa_lbuf # NULL, g.sa_lbuf \in {NULL, g.wheel_idx},
         NEW list \in Seq(Pbuf), IsInjective(list),
         \A r \in Range(list) : r \notin Listed(g) /\ q[r] # NULL,
         NEW parts \in Parts, NEW c \in Process, CfgPlace(q, c),
         config.pc = "waiting" => c.pc = "waiting",
         hd_sa_rtn(hd_sa_strt(Work(g, q), list), parts, c), Wide, Spinning(g), ~vg'.forcedoff,
         NEW D, Written(g, {}, Good(q, g.vgsa.extpp, D)), Settled(g, parts), OnDisks(g, parts, D),
         g.nukesa = {}, Fresh0(g), Missing(g, q), Ours(q), Relies(g, c, D),
         Bound(WithList(Work(g, q), list), 0, parts),
         g.whl = "stopped" => Sited(WithList(Work(g, q), list), Good(q, g.vgsa.extpp, D))
  PROVE  /\ Records(vg', pb', ppstate', D) /\ Relies(vg', config', D)
         /\ Active(vg') = Active(g) /\ (g.whl # "stopped" => vg'.whl = g.whl)
         /\ \/ vg'.wheel_idx \in Active(vg')
            \/ /\ vg'.wheel_idx = g.wheel_idx
               /\ Active(vg') = {} \/ vg'.whl = "held" \/ g.whl # "stopped"
<1> DEFINE w == Work(g, q)
           d == hd_sa_strt(w, list)
           G == Good(q, g.vgsa.extpp, D)
<1>1. /\ w \in Copy /\ w.vg = g /\ w.pb = q /\ w.ok = {} /\ w.err = {} /\ w.fresh = {}
      /\ ~w.updated /\ ~w.woken /\ Sane(w)
  BY WorkOK
<1>2. hd_sa_rtn(d, parts, c)
  OBVIOUS
<1>3. \A r \in Range(list) : r \notin Listed(w.vg) \cup w.ok \cup w.err /\ w.pb[r] # NULL
  BY <1>1
<1>4. Bound(WithList(w, list), 0, parts) /\ (g.whl = "stopped" => Sited(WithList(w, list), G))
  OBVIOUS
<1>5. Inherits(w.pb, G) /\ Returned(w, G)
  BY <1>1, GoodInherits DEF Returned
<1> HIDE DEF w
<1>6. /\ Sane(d) /\ d.pb = w.pb
      /\ d.woken => config.pc = "waiting" /\ d.vg.whl = "held"
      /\ w.vg.whl # "stopped" => d.vg.whl = w.vg.whl /\ d.vg.vgsa = w.vg.vgsa
  BY <1>1, <1>3, StrtOK
<1>7. vg'.forcedoff = d.vg.forcedoff
  <2>1. d.vg \in Group
    BY <1>6, CopyFields DEF Sane
  <2> QED BY <1>2, <2>1 DEF hd_sa_rtn, Group
<1>8. ~hd_sa_strt(w, list).vg.forcedoff
  BY <1>7
<1>9. /\ Carrying(d, parts, G) /\ Alike(w.vg, d.vg)
      /\ \/ d.vg.wheel_idx \in Active(d.vg)
         \/ /\ d.vg.wheel_idx = w.vg.wheel_idx
            /\ Active(d.vg) = {} \/ d.vg.whl = "held" \/ w.vg.whl # "stopped"
  BY <1>1, <1>3, <1>4, <1>5, <1>8, StrtRec
<1> HIDE DEF d, G
<1>10. /\ Active(d.vg) = Active(g) /\ OnDisks(d.vg, parts, D) /\ Missing(d.vg, d.pb)
       /\ Relies(d.vg, c, D)
  BY <1>1, <1>6, <1>9, AlikeSame
<1>11. Carrying(d, parts, Good(d.pb, d.vg.vgsa.extpp, D))
  BY <1>1, <1>6, <1>9 DEF Alike, G
<1>12. CfgPlace(d.pb, c) /\ (d.woken => c.pc = "waiting") /\ Ours(d.pb)
  BY <1>1, <1>6
<1>13. /\ Records(vg', pb', ppstate', D) /\ Relies(vg', config', D)
       /\ vg'.wheel_idx = d.vg.wheel_idx /\ vg'.whl = d.vg.whl /\ Active(vg') = Active(d.vg)
  BY <1>2, <1>6, <1>10, <1>11, <1>12, RtnRec
<1> QED BY <1>1, <1>6, <1>9, <1>10, <1>13

LEMMA ContForced ==
  ASSUME NEW w, Sane(w), w.vg.forcedoff PROVE hd_sa_cont(w).vg.forcedoff
<1>1. w \in Copy /\ w.vg \in Group
  BY CopyFields DEF Sane
<1>2. CASE config.pc = "waiting"
  <2> DEFINE h == [w.vg EXCEPT !.whl = "held"]
             d == [w EXCEPT !.vg = h, !.woken = TRUE]
  <2>1. hd_sa_cont(w) = d
    BY <1>2 DEF hd_sa_cont
  <2>2. h.forcedoff = w.vg.forcedoff
    BY <1>1 DEF Group
  <2> HIDE DEF h
  <2>3. d.vg = h
    BY <1>1 DEF Copy
  <2> HIDE DEF d
  <2> QED BY <2>1, <2>2, <2>3
<1>3. CASE config.pc # "waiting"
  <2> DEFINE m == MoveHeld(w)
  <2>1. Sane(m) /\ m.vg.forcedoff
    BY MoveHeldOK DEF Activated
  <2>2. hd_sa_cont(w) = ReturnAll(m)
    BY <1>3, <2>1 DEF hd_sa_cont
  <2> HIDE DEF m
  <2>3. m \in Copy /\ m.vg \in Group
    BY <2>1, CopyFields DEF Sane
  <2>4. ReturnAll(m).vg.forcedoff = m.vg.forcedoff
    BY <2>3 DEF ReturnAll, Copy, Group
  <2> QED BY <2>1, <2>2, <2>4
<1> QED BY <1>2, <1>3

(* Where the wheel stands: at an SA that is there, or at the start.  While  *)
(* it stands elsewhere none is there.                                       *)
Site(g) ==
  /\ ConfigOps # {} => g.wheel_idx \in Active(g) \cup {0}
  /\ g.whl = "stopped" => g.wheel_idx \in Active(g) \cup {0} \/ Active(g) = {}

Recording ==
  ~vg.forcedoff => Records(vg, pb, ppstate, disk) /\ Relies(vg, config, disk) /\ Site(vg)

(* The end of a write: when it failed its PV is missing, and the volume     *)
(* group goes on only if an SA is left.                                     *)
LEMMA EndRec ==
  ASSUME Base, NEW error \in BOOLEAN, hd_sa_iodone(error)
  PROVE  LET s == vg.sa_lbuf
             w == Work([vg EXCEPT !.sa_lbuf = NULL], pb)
             e == IF error
                  THEN hd_sa_update(hd_sa_qrmchk(SETSA_PVMISS(w, PvOf(s))))
                  ELSE w
         IN  /\ e.ok = {} /\ e.err = {} /\ e.vg.hld = vg.hld /\ e.vg.act = vg.act
             /\ e.vg.stop = vg.stop /\ e.vg.wheel_idx = vg.wheel_idx /\ e.vg.nukesa = vg.nukesa
             /\ e.vg.vgsa.stalepp = vg.vgsa.stalepp /\ e.vg.vgsa.extpp = vg.vgsa.extpp
             /\ Active(e.vg) \subseteq Active(vg) /\ (vg.forcedoff => e.vg.forcedoff)
             /\ \A p \in Pv : e.vg.pvstate[p] = "PV_DEFINED" => vg.pvstate[p] = "PV_DEFINED"
             /\ error => s \notin Active(e.vg) /\ (~e.vg.forcedoff => Active(e.vg) # {})
             /\ ~error => Active(e.vg) = Active(vg) /\ e.vg.vgsa = vg.vgsa
<1> DEFINE s == vg.sa_lbuf
           v == [vg EXCEPT !.sa_lbuf = NULL]
           w == Work(v, pb)
           m == SETSA_PVMISS(w, PvOf(s))
           k == hd_sa_qrmchk(m)
           e == IF error THEN hd_sa_update(k) ELSE w
           Same(h) == /\ h.hld = vg.hld /\ h.act = vg.act /\ h.stop = vg.stop
                      /\ h.wheel_idx = vg.wheel_idx /\ h.nukesa = vg.nukesa
                      /\ h.vgsa.stalepp = vg.vgsa.stalepp /\ h.vgsa.extpp = vg.vgsa.extpp
                      /\ h.lsn = vg.lsn /\ (vg.forcedoff => h.forcedoff)
                      /\ \A p \in Pv : h.pvstate[p] = "PV_DEFINED" => vg.pvstate[p] = "PV_DEFINED"
<1>1. /\ vg \in Group /\ pb \in Asked /\ Placed(vg, pb) /\ Steady(vg)
  BY Types DEF Base, Flags
<1>2. s \in Sa /\ PvOf(s) \in Pv
  BY <1>1, GroupFields, PvOfIn DEF Steady, hd_sa_iodone
<1>3. /\ v \in Group /\ v.hld = vg.hld /\ v.act = vg.act /\ v.stop = vg.stop
      /\ v.wheel_idx = vg.wheel_idx /\ v.nukesa = vg.nukesa /\ v.vgsa = vg.vgsa
      /\ v.forcedoff = vg.forcedoff /\ v.lsn = vg.lsn /\ v.pvstate = vg.pvstate
      /\ v.quorum_cnt = vg.quorum_cnt
  BY <1>1 DEF Group
<1> HIDE DEF v
<1>4. Same(v) /\ Active(v) = Active(vg)
  BY <1>3 DEF Active
<1>5. /\ w \in Copy /\ w.vg = v /\ w.ok = {} /\ w.err = {}
  BY <1>1, <1>3, WorkOK
<1> HIDE DEF w
<1>6. Marked(w, m) /\ s \notin Active(m.vg) /\ Same(m.vg)
  <2> DEFINE P == PvOf(s)
             y == IF v.pvstate[P] = "NULL" THEN v.pvstate[P] ELSE "PV_MISSING"
             t == [v.pvstate EXCEPT ![P] = y]
             n == [v.vgsa EXCEPT !.pvmissing = @ \cup {P}]
             h == [v EXCEPT !.pvstate = t, !.vgsa = n]
             d == [w EXCEPT !.vg = h]
  <2>1. v.pvstate \in [Pv -> {"NULL", "PV_DEFINED", "PV_MISSING"}] /\ v.vgsa \in Image
    BY <1>3, GroupFields
  <2>2. \A p \in Pv : t[p] = "PV_DEFINED" => v.pvstate[p] = "PV_DEFINED"
    BY <1>2, <2>1
  <2>3. n.stalepp = v.vgsa.stalepp /\ n.extpp = v.vgsa.extpp
    BY <2>1 DEF Image
  <2>4. m = d
    BY <1>5 DEF SETSA_PVMISS, Copy, Group
  <2> HIDE DEF t, n
  <2>5. /\ h.hld = v.hld /\ h.act = v.act /\ h.stop = v.stop /\ h.wheel_idx = v.wheel_idx
        /\ h.nukesa = v.nukesa /\ h.vgsa = n /\ h.pvstate = t /\ h.lsn = v.lsn
        /\ h.forcedoff = v.forcedoff
    BY <1>3 DEF Group
  <2> HIDE DEF h
  <2>6. d.vg = h
    BY <1>5 DEF Copy
  <2> HIDE DEF d
  <2>7. Same(m.vg)
    BY <1>3, <2>2, <2>3, <2>4, <2>5, <2>6
  <2>8. Marked(w, m) /\ s \notin Active(m.vg)
    BY <1>2, <1>5, PvMissOK
  <2> QED BY <2>7, <2>8
<1> HIDE DEF m
<1>7. m \in Copy /\ m.vg \in Group /\ m.ok = {} /\ m.err = {}
  BY <1>5, <1>6, CopyFields DEF Marked
<1>8. /\ k \in Copy /\ k.ok = {} /\ k.err = {} /\ Same(k.vg) /\ Active(k.vg) = Active(m.vg)
      /\ k.vg.forcedoff = (m.vg.forcedoff \/ Cardinality(Active(m.vg)) < m.vg.quorum_cnt)
  <2> DEFINE f == m.vg.forcedoff \/ Cardinality(Active(m.vg)) < m.vg.quorum_cnt
             h == [m.vg EXCEPT !.forcedoff = f]
             d == [m EXCEPT !.vg = h]
  <2>1. k = d
    BY <1>7 DEF hd_sa_qrmchk, Copy, Group
  <2>2. f \in BOOLEAN /\ (m.vg.forcedoff => f)
    OBVIOUS
  <2>3. h.forcedoff = f
    BY <1>7 DEF Group
  <2> HIDE DEF f
  <2>4. /\ h.hld = m.vg.hld /\ h.act = m.vg.act /\ h.stop = m.vg.stop /\ h.wheel_idx = m.vg.wheel_idx
        /\ h.nukesa = m.vg.nukesa /\ h.vgsa = m.vg.vgsa /\ h.pvstate = m.vg.pvstate /\ h.lsn = m.vg.lsn
    BY <1>7 DEF Group
  <2> HIDE DEF h
  <2>5. d.vg = h /\ d.ok = m.ok /\ d.err = m.err
    BY <1>7 DEF Copy
  <2> HIDE DEF d
  <2>6. k \in Copy
    BY <1>7, QrmchkOK DEF Marked
  <2>7. Same(k.vg)
    BY <1>6, <2>1, <2>2, <2>3, <2>4, <2>5
  <2>8. Active(k.vg) = Active(m.vg)
    BY <2>1, <2>4, <2>5 DEF Active
  <2> QED BY <1>7, <2>1, <2>3, <2>5, <2>6, <2>7, <2>8 DEF f
<1> HIDE DEF k
<1>9. /\ e.ok = {} /\ e.err = {} /\ Same(e.vg)
      /\ Active(e.vg) \subseteq Active(vg)
      /\ error => s \notin Active(e.vg) /\ (~e.vg.forcedoff => Active(e.vg) # {})
      /\ ~error => Active(e.vg) = Active(vg) /\ e.vg.vgsa = vg.vgsa
  <2>1. CASE error
    <3> DEFINE u == hd_sa_update(k)
    <3>1. /\ u.ok = {} /\ u.err = {} /\ u.vg = [k.vg EXCEPT !.whl_seq_num = u.vg.whl_seq_num]
      BY <1>8, UpdateOK
    <3>2. e = u
      BY <2>1
    <3> HIDE DEF u, e
    <3>3. k.vg \in Group
      BY <1>8, CopyFields
    <3> DEFINE n == u.vg.whl_seq_num
               h == u.vg
    <3>4. h = [k.vg EXCEPT !.whl_seq_num = n]
      BY <3>1
    <3> HIDE DEF n, h
    <3>5. /\ h.wheel_idx = k.vg.wheel_idx /\ h.hld = k.vg.hld /\ h.act = k.vg.act /\ h.stop = k.vg.stop
          /\ h.lsn = k.vg.lsn /\ h.nukesa = k.vg.nukesa /\ h.pvstate = k.vg.pvstate
          /\ h.forcedoff = k.vg.forcedoff /\ h.vgsa = k.vg.vgsa /\ Active(h) = Active(k.vg)
      BY <3>3, <3>4, NumberOnly
    <3>6. Same(h)
      BY <1>8, <3>5
    <3>7. Active(h) \subseteq Active(vg)
      <4>1. Active(m.vg) \subseteq Active(w.vg)
        BY <1>6 DEF Marked
      <4> QED BY <1>4, <1>5, <1>8, <3>5, <4>1
    <3>8. ~h.forcedoff => Active(h) # {}
      <4>1. SUFFICES ASSUME ~h.forcedoff, Active(h) = {} PROVE FALSE
        OBVIOUS
      <4>2. Active(m.vg) = {}
        BY <1>8, <3>5, <4>1
      <4>3. m.vg.quorum_cnt \in Nat \ {0}
        BY <1>7, GroupFields, QuorumAssumption
      <4>4. Cardinality(Active(m.vg)) = 0
        BY <4>2, FS_EmptySet
      <4>5. Cardinality(Active(m.vg)) < m.vg.quorum_cnt
        BY <4>3, <4>4
      <4> QED BY <1>8, <3>5, <4>1, <4>5
    <3>9. s \notin Active(h)
      BY <1>6, <1>8, <3>5
    <3> QED BY <2>1, <3>1, <3>2, <3>6, <3>7, <3>8, <3>9 DEF h
  <2>2. CASE ~error
    <3>1. e = w
      BY <2>2
    <3> HIDE DEF e
    <3> QED BY <1>3, <1>4, <1>5, <2>2, <3>1
  <2> QED BY <2>1, <2>2
<1> QED BY <1>9 DEF k, m, w, v

LEMMA IodoneRec ==
  ASSUME Base, Turn, Wide, Recording, NEW error \in BOOLEAN, hd_sa_iodone(error)
  PROVE  Recording'
<1> DEFINE s == vg.sa_lbuf
           w == Work([vg EXCEPT !.sa_lbuf = NULL], pb)
           e == IF error
                THEN hd_sa_update(hd_sa_qrmchk(SETSA_PVMISS(w, PvOf(s))))
                ELSE w
           D == IF error THEN disk ELSE [disk EXCEPT ![s] = vg.vgsa]
           x == hd_sa_whladv(e)
           d == hd_sa_cont(x)
           v == vg.vgsa.extpp
           G == Good(pb, v, D)
<1>1. /\ Sane(e) /\ e.pb = pb /\ e.fresh = {} /\ ~e.woken
      /\ e.vg.sa_lbuf = NULL /\ e.vg.whl = "active"
      /\ Ordered(e.vg, {})
      /\ ~e.vg.forcedoff =>
           /\ \A y \in Near(e.vg) : Age(e.vg, y) <= 2 * (NSa - Ahead(e.vg, y)) + 2
           /\ ~e.updated => Outdated(e.vg, Ahead)
           /\ e.updated => AllOld(e.vg)
  BY EndOfWrite, Zenon
<1>2. /\ e.ok = {} /\ e.err = {} /\ e.vg.hld = vg.hld /\ e.vg.act = vg.act
      /\ e.vg.stop = vg.stop /\ e.vg.wheel_idx = vg.wheel_idx /\ e.vg.nukesa = vg.nukesa
      /\ e.vg.vgsa.stalepp = vg.vgsa.stalepp /\ e.vg.vgsa.extpp = vg.vgsa.extpp
      /\ Active(e.vg) \subseteq Active(vg) /\ (vg.forcedoff => e.vg.forcedoff)
      /\ \A p \in Pv : e.vg.pvstate[p] = "PV_DEFINED" => vg.pvstate[p] = "PV_DEFINED"
      /\ error => s \notin Active(e.vg) /\ (~e.vg.forcedoff => Active(e.vg) # {})
      /\ ~error => Active(e.vg) = Active(vg) /\ e.vg.vgsa = vg.vgsa
  BY EndRec, Zenon
<1>3. hd_sa_rtn(d, ppstate, config) /\ disk' = D
  BY Zenon DEF hd_sa_iodone
<1>4. /\ vg \in Group /\ pb \in Asked /\ disk \in Disks /\ ppstate \in Parts /\ config \in Process
      /\ CfgPlace(pb, config) /\ Placed(vg, pb) /\ Steady(vg)
  BY Types DEF Base, Flags
<1>5. /\ s = vg.wheel_idx /\ s \in Sa /\ vg.vgsa \in Image /\ vg.vgsa # NULL
      /\ Active(vg) \subseteq Sa /\ vg.act \in Seq(Seq(Pbuf)) /\ vg.hld \in Seq(Pbuf)
  BY <1>4, GroupFields, NullAssumption, NearIn DEF Steady, hd_sa_iodone
<1>6. \A t \in Active(e.vg) : \/ t # s /\ D[t] = disk[t]
                              \/ t = s /\ D[t] = vg.vgsa /\ ~error
  <2>1. \A t \in Active(e.vg) : t \in Sa
    BY <1>2, <1>5
  <2> QED BY <1>2, <1>4, <1>5, <2>1 DEF Disks
<1> HIDE DEF e, D
<1>7. /\ Sane(x) /\ Advanced(e, x) /\ Delivers(e, x)
  BY <1>1, WhladvOK
<1>8. /\ x.pb = pb /\ x.fresh = {} /\ ~x.woken /\ x.vg.sa_lbuf = NULL /\ x.vg.whl = "active"
      /\ Landed(x)
  BY <1>1, AdvanceOK
<1> HIDE DEF x
<1>9. /\ Sane(d) /\ d.pb = pb /\ (d.woken => config.pc = "waiting")
  BY <1>7, <1>8, ContOK
<1>10. SUFFICES ASSUME ~vg'.forcedoff
                PROVE  Records(vg, pb, ppstate, disk)' /\ Relies(vg, config, disk)' /\ Site(vg)'
  BY DEF Recording
<1>11. ~hd_sa_cont(x).vg.forcedoff
  <2>1. d.vg \in Group
    BY <1>9, CopyFields DEF Sane
  <2>2. vg'.forcedoff = d.vg.forcedoff
    <3> HIDE DEF d
    <3> QED BY <1>3, <2>1 DEF hd_sa_rtn, Group
  <2> QED BY <1>10, <2>2
<1>12. ~x.vg.forcedoff /\ ~e.vg.forcedoff /\ ~vg.forcedoff
  BY <1>2, <1>7, <1>11, ContForced DEF Advanced
<1>13. Records(vg, pb, ppstate, disk) /\ Relies(vg, config, disk) /\ Site(vg)
  BY <1>12 DEF Recording
<1> HIDE DEF d
<1>14. Full(e.vg, G)
  <2>1. SUFFICES ASSUME NEW j \in DOMAIN vg.act, NEW r \in Range(vg.act[j]), NEW t \in Active(e.vg),
                        Ahead(e.vg, t) >= StopAt(e.vg, j)
                 PROVE  <<r, t>> \in G
    BY <1>2 DEF Full
  <2>2. Ahead(e.vg, t) = Ahead(vg, t) /\ StopAt(e.vg, j) = StopAt(vg, j)
    BY <1>2 DEF Ahead, StopAt
  <2>3. r \in Begun(Work(vg, pb)) /\ r \in Pbuf /\ t \in Sa /\ t \in Active(vg)
    <3>1. vg.act[j] \in Range(vg.act)
      BY DEF Range
    <3>2. Work(vg, pb).vg = vg
      BY DEF Work
    <3>3. r \in Listed(vg) /\ Listed(vg) \subseteq Pbuf
      BY <1>4, <3>1, Heads DEF Listed
    <3> QED BY <1>2, <1>5, <3>1, <3>2, <3>3 DEF Begun
  <2>4. CASE t # s
    <3>1. <<r, t>> \in Good(pb, v, disk) /\ D[t] = disk[t]
      BY <1>5, <1>6, <1>13, <2>1, <2>2, <2>3, <2>4 DEF Records, Written
    <3> QED BY <3>1, <2>3 DEF Good
  <2>5. CASE t = s
    <3>1. D[t] = vg.vgsa
      BY <1>6, <2>5
    <3>2. pb[r].type = "SA_STALEPP" => {pb[r].lp} \X pb[r].mir \subseteq vg.vgsa.stalepp
      <4>1. SUFFICES ASSUME pb[r] # NULL, pb[r].type = "SA_STALEPP", NEW p \in {pb[r].lp} \X pb[r].mir
                     PROVE  p \in vg.vgsa.stalepp
        <5>1. pb[r] # NULL
          <6>1. vg.act[j] \in Range(vg.act)
            BY DEF Range
          <6>2. r \in Listed(vg)
            BY <6>1 DEF Listed
          <6> QED BY <1>4, <6>2 DEF Placed
        <5> QED BY <5>1
      <4>2. Marks(pb, r, p)
        BY <4>1 DEF Marks
      <4>3. pb[r] \in Request
        BY <1>4, <2>3, <4>1 DEF Asked
      <4>4. pb[r].lp \in Lp /\ pb[r].mir \subseteq Mirror
        BY <4>1, <4>3 DEF Request
      <4>5. p \in Pp
        BY <4>4 DEF Pp
      <4>6. Work(vg, pb).vg = vg /\ Work(vg, pb).pb = pb
        BY DEF Work
      <4> QED BY <1>13, <2>3, <4>2, <4>5, <4>6 DEF Records, Bound
    <3>3. Carries(pb[r], v, D[t])
      BY <1>5, <3>1, <3>2 DEF Carries
    <3> QED BY <3>3, <2>3 DEF Good
  <2> QED BY <2>4, <2>5
<1>15. /\ x.vg.nukesa = {} /\ Active(x.vg) = Active(e.vg)
       /\ \/ x.vg.wheel_idx \in Active(x.vg)
          \/ x.vg.wheel_idx = vg.wheel_idx /\ Active(x.vg) = {}
       /\ Returned(x, G) /\ Written(x.vg, {}, G) /\ Begun(x) \subseteq Begun(Work(vg, pb))
  <2>1. e.vg.nukesa = {}
    BY <1>2, <1>13 DEF Records
  <2>2. /\ x.vg.nukesa = {} /\ Active(x.vg) = Active(e.vg)
        /\ \/ x.vg.wheel_idx \in Active(x.vg)
           \/ x.vg.wheel_idx = vg.wheel_idx /\ Active(x.vg) = {}
        /\ \A r \in x.ok : r \in e.ok \/ \A t \in Active(x.vg) : <<r, t>> \in G
        /\ Ordered(e.vg, e.fresh) => Written(x.vg, e.fresh, G)
    BY <1>2, <1>7, <1>14, <2>1 DEF Delivers
  <2>3. Returned(x, G) /\ Written(x.vg, {}, G)
    BY <1>1, <1>2, <2>2 DEF Returned
  <2>4. Work(vg, pb).vg = vg /\ Work(vg, pb).ok = {}
    BY DEF Work
  <2>5. Begun(x) \subseteq Begun(Work(vg, pb))
    BY <1>2, <1>7, <2>4 DEF Delivers, Begun
  <2> QED BY <2>2, <2>3, <2>5
<1>16. /\ x.vg.hld = vg.hld /\ x.vg.stop = vg.stop /\ x.vg.vgsa = e.vg.vgsa
       /\ x.vg.pvstate = e.vg.pvstate /\ x.err = {}
  BY <1>2, <1>7 DEF Advanced
<1>17. Bound(x, 0, ppstate)
  <2>1. Work(vg, pb).vg = vg /\ Work(vg, pb).pb = pb
    BY DEF Work
  <2>2. DOMAIN vg.hld = 1..Len(vg.hld) /\ Bound(Work(vg, pb), 0, ppstate)
    BY <1>5, <1>13 DEF Records
  <2> QED BY <1>2, <1>8, <1>15, <1>16, <2>1, <2>2, BoundAgain
<1>18. Carrying(x, ppstate, G)
  BY <1>2, <1>13, <1>15, <1>16, <1>17 DEF Carrying, Settled, Fresh0, Records
<1>19. Missing(x.vg, x.pb)
  <2>1. SUFFICES ASSUME NEW r \in Pbuf, pb[r] # NULL, pb[r].type \in {"SA_PVMISSING", "SA_PVREMOVED"}
                 PROVE  e.vg.pvstate[pb[r].pv] # "PV_DEFINED"
    BY <1>8, <1>16 DEF Missing
  <2>2. pb[r] \in Request
    BY <1>4, <2>1 DEF Asked
  <2>3. pb[r].pv \in Pv
    BY <2>1, <2>2 DEF Request
  <2> QED BY <1>2, <1>13, <2>1, <2>3 DEF Records, Missing
<1>20. Sited(x, G)
  BY <1>15 DEF Sited
<1>21. Inherits(x.pb, G)
  BY <1>8, GoodInherits
<1>22. /\ Carrying(d, ppstate, G) /\ Alike(x.vg, d.vg)
       /\ \/ d.vg.wheel_idx \in Active(d.vg)
          \/ d.vg.wheel_idx = x.vg.wheel_idx /\ (Active(d.vg) = {} \/ d.vg.whl = "held")
  <2> HIDE DEF G
  <2> QED BY <1>7, <1>8, <1>11, <1>18, <1>19, <1>20, <1>21, ContRec DEF d
<1>23. Active(d.vg) = Active(e.vg) /\ d.vg.vgsa.extpp = v /\ Missing(d.vg, d.pb)
  BY <1>2, <1>8, <1>9, <1>15, <1>16, <1>19, <1>22, AlikeSame DEF Alike
<1>24. OnDisks(d.vg, ppstate, D)
  <2>1. SUFFICES ASSUME NEW p \in Pp, IsStale(ppstate, p), ~IsChanging(ppstate, p),
                        NEW t \in Active(e.vg), D[t] # NULL
                 PROVE  p \in D[t].stalepp
    BY <1>23 DEF OnDisks
  <2>2. t \in Active(vg) /\ p \in vg.vgsa.stalepp /\ (disk[t] # NULL => p \in disk[t].stalepp)
    BY <1>2, <1>13, <2>1 DEF Records, Settled, OnDisks
  <2> QED BY <1>6, <2>1, <2>2
<1>25. Relies(d.vg, config, D)
  <2>1. ASSUME NEW t \in Active(e.vg)
        PROVE  /\ t \in Active(vg) /\ (disk[t] # NULL => D[t] # NULL)
               /\ disk[t] # NULL /\ disk[t].extpp = v => D[t].extpp = v
    BY <1>2, <1>5, <1>6, <2>1
  <2> QED BY <1>13, <1>23, <2>1 DEF Relies
<1>26. Carrying(d, ppstate, Good(d.pb, d.vg.vgsa.extpp, D)) /\ Ours(d.pb)
  BY <1>9, <1>13, <1>22, <1>23 DEF Records
<1>27. /\ Records(vg', pb', ppstate', D) /\ Relies(vg', config', D)
       /\ vg'.wheel_idx = d.vg.wheel_idx /\ vg'.whl = d.vg.whl /\ Active(vg') = Active(d.vg)
  BY <1>3, <1>4, <1>9, <1>23, <1>24, <1>25, <1>26, RtnRec
<1>28. Site(vg')
  <2>1. ConfigOps # {} => vg'.wheel_idx \in Active(vg') \cup {0}
    <3>1. SUFFICES ASSUME ConfigOps # {}, d.vg.wheel_idx \notin Active(e.vg)
                   PROVE  d.vg.wheel_idx = 0
      BY <1>23, <1>27
    <3>2. d.vg.wheel_idx = x.vg.wheel_idx /\ x.vg.wheel_idx \notin Active(e.vg)
      BY <1>22, <1>23, <3>1
    <3>3. x.vg.wheel_idx = vg.wheel_idx /\ Active(e.vg) = {}
      BY <1>15, <3>2
    <3>4. Active(vg) = {}
      BY <1>2, <1>12, <3>3
    <3> QED BY <1>13, <3>1, <3>2, <3>3, <3>4 DEF Site
  <2>2. vg'.whl = "stopped" => vg'.wheel_idx \in Active(vg') \cup {0} \/ Active(vg') = {}
    BY <1>15, <1>22, <1>23, <1>27
  <2> QED BY <2>1, <2>2 DEF Site
<1> QED BY <1>3, <1>27, <1>28

(* A new request r, last on hold: it marks the copies that become stale,    *)
(* and clears none that a request marks.                                    *)
LEMMA BoundWith ==
  ASSUME NEW g \in Group, NEW q \in Asked, Placed(g, q), NEW P, Bound(Work(g, q), 0, P),
         NEW r \in Pbuf, q[r] = NULL, NEW n, \A x \in Pbuf : x # r => n[x] = q[x],
         NEW h, h.hld = g.hld, h.act = g.act, h.vgsa.stalepp = g.vgsa.stalepp, NEW Q,
         \A p \in Pp : IsStale(Q, p) => IsStale(P, p) \/ Marks(n, r, p),
         \A p \in Pp : Clears(n, r, p) =>
           ~IsStale(Q, p) /\ \A x \in Pbuf : q[x] # NULL => ~Marks(q, x, p)
  PROVE  Bound(WithList(Work(h, n), <<r>>), 0, Q)
<1> DEFINE w == Work(g, q)
           l == WithList(Work(h, n), <<r>>)
           hld == g.hld
           L == Len(hld)
           K == Append(hld, r)
<1>1. /\ hld \in Seq(Pbuf) /\ L \in Nat /\ r \notin Listed(g) /\ Listed(g) \subseteq Pbuf
      /\ \A x \in Listed(g) : q[x] # NULL
  <2>1. Listed(g) \subseteq Pbuf /\ hld \in Seq(Pbuf)
    BY GroupFields, Heads
  <2> QED BY <2>1 DEF Placed
<1>2. w.vg = g /\ w.pb = q /\ w.ok = {}
  BY DEF Work
<1>3. l.vg.hld = hld \o <<r>> /\ l.vg.act = g.act /\ l.vg.vgsa.stalepp = g.vgsa.stalepp /\ l.pb = n /\ l.ok = {}
  <2>1. /\ Work(h, n).vg = h /\ Work(h, n).pb = n /\ Work(h, n).ok = {}
    BY DEF Work
  <2>2. l = [Work(h, n) EXCEPT !.vg = [h EXCEPT !.hld = h.hld \o <<r>>]]
    BY <2>1 DEF WithList, Work
  <2> DEFINE k == [h EXCEPT !.hld = h.hld \o <<r>>]
  <2>3. k.hld = hld \o <<r>> /\ k.act = g.act /\ k.vgsa.stalepp = g.vgsa.stalepp
    OBVIOUS
  <2> HIDE DEF k
  <2>4. l = [Work(h, n) EXCEPT !.vg = k]
    BY <2>2 DEF k
  <2>5. l.vg = k /\ l.pb = n /\ l.ok = {}
    BY <2>4 DEF Work
  <2> QED BY <2>3, <2>5
<1> HIDE DEF w, l
<1>4. /\ Len(l.vg.hld) = L + 1 /\ l.vg.hld[L + 1] = r
      /\ \A i \in 1..L : l.vg.hld[i] = hld[i] /\ hld[i] \in Listed(g)
  <2>1. \A i \in 1..L : hld[i] \in Range(hld)
    BY <1>1 DEF Range
  <2> QED BY <1>1, <1>3, <2>1 DEF Listed
<1>5. Begun(l) = Begun(w) /\ Begun(w) \subseteq Listed(g)
  BY <1>2, <1>3 DEF Begun, Listed
<1>6. \A x \in Listed(g) : /\ x \in Pbuf /\ q[x] # NULL
                           /\ \A p : (Marks(n, x, p) <=> Marks(q, x, p)) /\ (Clears(n, x, p) <=> Clears(q, x, p))
  <2>1. \A x \in Listed(g) : x \in Pbuf /\ x # r /\ n[x] = q[x] /\ q[x] # NULL
    BY <1>1
  <2> QED BY <2>1 DEF Marks, Clears
<1>7. /\ \A p \in Pp : IsStale(P, p) => p \in g.vgsa.stalepp \/ Marker(w, 0, p)
      /\ \A p \in Pp, i \in 1..L :
           i > 0 /\ Clears(q, hld[i], p) =>
             /\ IsStale(P, p) => Marker(w, i, p)
             /\ \A k \in 1..L : k > 0 /\ Marks(q, hld[k], p) => i < k
             /\ \A x \in Begun(w) : ~Marks(q, x, p)
      /\ \A p \in Pp : \A x \in Begun(w) : Marks(q, x, p) => p \in g.vgsa.stalepp
  BY <1>2 DEF Bound, w
<1>8. \A j \in Nat : \A p : Marker(w, j, p) => Marker(l, j, p)
  <2>1. SUFFICES ASSUME NEW j \in Nat, NEW p, NEW i \in 1..L, i > j, Marks(q, hld[i], p)
                 PROVE  Marker(l, j, p)
    BY <1>2 DEF Marker
  <2>2. i \in 1..L + 1 /\ Marks(n, l.vg.hld[i], p)
    BY <1>1, <1>4, <1>6, <2>1
  <2> QED BY <1>3, <1>4, <2>1, <2>2 DEF Marker
<1>9. \A j \in 0..L : \A p : Marks(n, r, p) => Marker(l, j, p)
  <2>1. L + 1 \in 1..L + 1 /\ \A j \in 0..L : L + 1 > j
    BY <1>1
  <2> QED BY <1>3, <1>4, <2>1 DEF Marker
<1>10. ASSUME NEW p \in Pp, IsStale(Q, p) PROVE p \in g.vgsa.stalepp \/ Marker(l, 0, p)
  BY <1>1, <1>7, <1>8, <1>9, <1>10
<1>11. ASSUME NEW p \in Pp, NEW i \in 1..L + 1, Clears(n, l.vg.hld[i], p)
       PROVE  /\ IsStale(Q, p) => Marker(l, i, p)
              /\ \A k \in 1..L + 1 : Marks(n, l.vg.hld[k], p) => i < k
              /\ \A x \in Begun(l) : ~Marks(n, x, p)
  <2>1. \A k \in 1..L + 1 : k = L + 1 \/ k \in 1..L
    BY <1>1
  <2>2. CASE i = L + 1
    <3>1. ~IsStale(Q, p) /\ \A x \in Listed(g) : ~Marks(n, x, p)
      BY <1>4, <1>6, <1>11, <2>2
    <3>2. ~Marks(n, r, p)
      BY <1>4, <1>11, <2>2 DEF Marks, Clears
    <3> QED BY <1>4, <1>5, <2>1, <3>1, <3>2
  <2>3. CASE i \in 1..L
    <3>1. i > 0 /\ Clears(q, hld[i], p) /\ i < L + 1 /\ i \in 0..L /\ i \in Nat
      BY <1>1, <1>4, <1>6, <1>11, <2>3
    <3>2. IsStale(Q, p) => Marker(l, i, p)
      BY <1>7, <1>8, <1>9, <2>3, <3>1
    <3>3. ASSUME NEW k \in 1..L + 1, Marks(n, l.vg.hld[k], p) PROVE i < k
      <4>1. CASE k = L + 1
        BY <3>1, <4>1
      <4>2. CASE k \in 1..L
        <5>1. k > 0 /\ Marks(q, hld[k], p)
          BY <1>4, <1>6, <3>3, <4>2
        <5> QED BY <1>7, <2>3, <3>1, <4>2, <5>1
      <4> QED BY <2>1, <4>1, <4>2
    <3>4. ASSUME NEW x \in Begun(l) PROVE ~Marks(n, x, p)
      BY <1>5, <1>6, <1>7, <2>3, <3>1, <3>4
    <3> QED BY <3>2, <3>3, <3>4
  <2> QED BY <2>1, <2>2, <2>3
<1>12. ASSUME NEW p \in Pp, NEW x \in Begun(l), Marks(n, x, p) PROVE p \in g.vgsa.stalepp
  BY <1>5, <1>6, <1>7, <1>12
<1>13. Bound(l, 0, Q)
  BY <1>3, <1>4, <1>10, <1>11, <1>12 DEF Bound
<1> QED BY <1>13 DEF l

LEMMA SubmitRec ==
  ASSUME Base, Turn, Wide, Recording, NEW g \in Group, Placed(g, pb), Fewer(vg, g),
         g.whl = vg.whl, g.hld = vg.hld, g.stop = vg.stop, g.nukesa = vg.nukesa,
         LockFree, NEW r \in Req, pb[r] = NULL, NEW q \in Request, q.type # "SA_CONFIGOP",
         q.type # "SA_PVMISSING" \/ ConfigOps # {} => g = vg,
         Missing(g, [pb EXCEPT ![r] = q]),
         NEW parts \in Parts, Settled(vg, parts), OnDisks(vg, parts, disk),
         Bound(WithList(Work(g, [pb EXCEPT ![r] = q]), <<r>>), 0, parts),
         Submit(r, q, parts, g)
  PROVE  Recording'
<1> DEFINE n == [pb EXCEPT ![r] = q]
           v == vg.vgsa.extpp
           G == Good(n, v, disk)
<1>1. /\ vg \in Group /\ pb \in Asked /\ disk \in Disks /\ config \in Process /\ CfgPlace(pb, config)
      /\ Placed(vg, pb) /\ Steady(vg)
  BY Types DEF Base, Flags
<1>2. CASE vg.forcedoff
  <2>1. vg' = g
    BY <1>2 DEF Submit
  <2> QED BY <1>2, <2>1 DEF Recording, Fewer
<1>3. CASE ~vg.forcedoff
  <2>1. hd_sa_rtn(hd_sa_strt(Work(g, n), <<r>>), parts, config) /\ disk' = disk
    BY <1>3 DEF Submit
  <2>2. r \in Pbuf /\ r # Cfg /\ Cfg \in Pbuf
    BY PbufAssumption DEF Pbuf
  <2>3. /\ n \in Asked /\ Placed(g, n) /\ n[r] = q /\ q # NULL /\ r \notin Listed(g)
        /\ \A x \in Pbuf : x # r => n[x] = pb[x]
    BY <1>1, <2>2, NewRequest
  <2>4. Missing(g, n) /\ Bound(WithList(Work(g, n), <<r>>), 0, parts)
    OBVIOUS
  <2> HIDE DEF n
  <2>5. /\ <<r>> \in Seq(Pbuf) /\ IsInjective(<<r>>) /\ Range(<<r>>) = {r}
    BY <2>2, OneAndNone
  <2>6. CfgPlace(n, config)
    BY <1>1, <2>2, <2>3 DEF CfgPlace
  <2>7. /\ g.act = vg.act /\ g.wheel_idx = vg.wheel_idx /\ g.sa_lbuf = vg.sa_lbuf
        /\ g.vgsa = vg.vgsa /\ Active(g) \subseteq Active(vg)
    BY DEF Fewer
  <2>8. Records(vg, pb, ppstate, disk) /\ Relies(vg, config, disk) /\ Site(vg)
    BY <1>3 DEF Recording
  <2>9. /\ g.whl = "active" <=> g.sa_lbuf # NULL
        /\ g.sa_lbuf \in {NULL, g.wheel_idx}
        /\ g.whl = "stopped" => g.hld = <<>> /\ g.act = <<>>
    BY <1>1, <2>7 DEF Steady, Turn, Turning
  <2>10. Spinning(g)
    BY <1>1, FewerOK DEF Turn, Turning
  <2>11. Written(g, {}, G)
    <3>1. SUFFICES ASSUME NEW j \in DOMAIN vg.act, NEW x \in Range(vg.act[j]), NEW s \in Active(g),
                          s # vg.wheel_idx, Ahead(g, s) >= StopAt(g, j)
                   PROVE  <<x, s>> \in G
      BY <2>7 DEF Written
    <3>2. Ahead(g, s) = Ahead(vg, s) /\ StopAt(g, j) = StopAt(vg, j) /\ s \in Active(vg)
      BY <2>7 DEF Ahead, StopAt
    <3>3. <<x, s>> \in Good(pb, v, disk)
      BY <2>8, <3>1, <3>2 DEF Records, Written
    <3>4. x # r
      <4>1. vg.act[j] \in Range(vg.act)
        BY DEF Range
      <4> QED BY <2>3, <2>7, <4>1 DEF Listed
    <3> QED BY <2>3, <3>3, <3>4 DEF Good
  <2>12. Fresh0(g) /\ g.nukesa = {} /\ Settled(g, parts) /\ OnDisks(g, parts, disk)
    BY <2>7, <2>8 DEF Records, Fresh0, Settled, OnDisks
  <2>13. Ours(n)
    BY <2>2, <2>3, <2>8 DEF Records, Ours
  <2>14. Relies(g, config, disk)
    BY <2>7, <2>8 DEF Relies
  <2>15. g.whl = "stopped" => Sited(WithList(Work(g, n), <<r>>), G)
    <3>1. SUFFICES ASSUME g.whl = "stopped" PROVE Sited(WithList(Work(g, n), <<r>>), G)
      OBVIOUS
    <3> DEFINE l == WithList(Work(g, n), <<r>>)
               k == [g EXCEPT !.hld = g.hld \o <<r>>]
    <3>2. /\ k.hld = <<r>> /\ k.act = <<>> /\ k.wheel_idx = vg.wheel_idx /\ Active(k) = Active(g)
      <4>1. g.hld = <<>> /\ g.act = <<>> /\ <<>> \o <<r>> = <<r>>
        BY <2>2, <2>9, <3>1
      <4>2. /\ k.hld = g.hld \o <<r>> /\ k.act = g.act /\ k.wheel_idx = g.wheel_idx
            /\ k.lsn = g.lsn /\ k.pvstate = g.pvstate
        BY DEF Group
      <4> HIDE DEF k
      <4> QED BY <2>7, <4>1, <4>2 DEF Active
    <3> HIDE DEF k
    <3>3. l = [Work(g, n) EXCEPT !.vg = k]
      BY DEF WithList, Work, k
    <3>4. l.vg = k /\ l.ok = {}
      BY <3>3 DEF Work
    <3> HIDE DEF l
    <3>5. Begun(l) \cup Range(l.vg.hld) = {r}
      BY <2>5, <3>2, <3>4 DEF Begun, Range
    <3>6. CASE q.type = "SA_PVMISSING"
      <4>1. \A s \in Active(g) : <<r, s>> \in G
        <5>1. Active(g) \subseteq Sa
          BY NearIn
        <5>2. \A d : Carries(q, v, d)
          BY <3>6 DEF Carries
        <5> QED BY <2>2, <2>3, <5>1, <5>2 DEF Good
      <4>2. Sited(l, G)
        BY <3>2, <3>4, <3>5, <4>1 DEF Sited
      <4> QED BY <4>2 DEF l
    <3>7. CASE q.type # "SA_PVMISSING"
      <4>1. vg.wheel_idx \in Active(g) \cup {0} \/ Active(g) = {}
        BY <2>8, <3>1, <3>7 DEF Site
      <4>2. Sited(l, G)
        BY <3>2, <3>4, <4>1 DEF Sited
      <4> QED BY <4>2 DEF l
    <3> QED BY <3>6, <3>7
  <2>16. SUFFICES ASSUME ~vg'.forcedoff
                  PROVE  Records(vg, pb, ppstate, disk)' /\ Relies(vg, config, disk)' /\ Site(vg)'
    BY DEF Recording
  <2>17. \A x \in Range(<<r>>) : x \notin Listed(g) /\ n[x] # NULL
    BY <2>3, <2>5
  <2>18. Written(g, {}, Good(n, g.vgsa.extpp, disk))
         /\ (g.whl = "stopped" => Sited(WithList(Work(g, n), <<r>>), Good(n, g.vgsa.extpp, disk)))
    BY <2>7, <2>11, <2>15
  <2>19. /\ Records(vg', pb', ppstate', disk) /\ Relies(vg', config', disk)
         /\ Active(vg') = Active(g) /\ (g.whl # "stopped" => vg'.whl = g.whl)
         /\ \/ vg'.wheel_idx \in Active(vg')
            \/ /\ vg'.wheel_idx = g.wheel_idx
               /\ Active(vg') = {} \/ vg'.whl = "held" \/ g.whl # "stopped"
    BY <1>1, <2>1, <2>3, <2>4, <2>5, <2>6, <2>9, <2>10, <2>12, <2>13, <2>14, <2>16, <2>17, <2>18, StrtRtnRec
  <2>20. Site(vg')
    <3>1. ConfigOps # {} => vg'.wheel_idx \in Active(vg') \cup {0}
      BY <2>8, <2>19 DEF Site
    <3>2. vg'.whl = "stopped" => vg'.wheel_idx \in Active(vg') \cup {0} \/ Active(vg') = {}
      BY <2>19
    <3> QED BY <3>1, <3>2 DEF Site
  <2> QED BY <2>1, <2>19, <2>20
<1> QED BY <1>2, <1>3

LEMMA IoRequestRec ==
  ASSUME Base, Turn, Wide, SasStay, ~FastResync, Recording, IoRequest
  PROVE  Recording'
<1>1. /\ vg \in Group /\ pb \in Asked /\ ppstate \in Parts /\ Placed(vg, pb) /\ Steady(vg)
  BY Types DEF Base, Flags
<1>2. Fewer(vg, vg) /\ Req \subseteq Pbuf
  BY DEF Fewer, Pbuf
<1>3. CASE vg.forcedoff
  <2>1. vg'.forcedoff
    <3>1. ASSUME NEW r \in Req, NEW q, NEW parts, Submit(r, q, parts, vg) PROVE vg'.forcedoff
      BY <1>3, <3>1 DEF Submit
    <3>2. ASSUME NEW r \in Req, NEW p \in Pv, hd_ca_wend(r, p) PROVE vg'.forcedoff
      <4>1. vg' = [vg EXCEPT !.pvstate[p] = "PV_MISSING"]
        BY <1>3, <3>2 DEF Submit, hd_ca_wend
      <4> QED BY <1>1, <1>3, <4>1 DEF Group
    <3> QED BY <3>1, <3>2 DEF IoRequest, hd_stalepp, hd_freshpp
  <2> QED BY <2>1 DEF Recording
<1>4. CASE ~vg.forcedoff
  <2>1. Records(vg, pb, ppstate, disk)
    BY <1>4 DEF Recording
  <2>2. Bound(Work(vg, pb), 0, ppstate) /\ Settled(vg, ppstate) /\ OnDisks(vg, ppstate, disk)
        /\ Missing(vg, pb)
    BY <2>1 DEF Records
  <2>3. ASSUME NEW r \in Req, NEW lp \in Lp, NEW m \in SUBSET Mirror, hd_stalepp(r, lp, m)
        PROVE  Recording'
    <3> DEFINE bad == {x \in m : Stale(<<lp, x>>) => Changing(<<lp, x>>)}
               q == [type |-> "SA_STALEPP", lp |-> lp, mir |-> bad]
               n == [pb EXCEPT ![r] = q]
               parts == [p \in Pp |-> IF p \in {lp} \X bad THEN {"PP_STALE", "PP_CHGING"}
                                                           ELSE ppstate[p]]
    <3>1. LockFree /\ pb[r] = NULL /\ Submit(r, q, parts, vg)
      BY <2>3 DEF hd_stalepp
    <3>2. bad \in SUBSET Mirror
      OBVIOUS
    <3> HIDE DEF bad
    <3>3. q \in Request /\ q.type = "SA_STALEPP" /\ q.lp = lp /\ q.mir = bad
      BY <3>2 DEF Request
    <3>4. parts \in Parts /\ \A p \in Pp : parts[p] = IF p \in {lp} \X bad THEN {"PP_STALE", "PP_CHGING"}
                                                                          ELSE ppstate[p]
      BY <1>1 DEF Parts
    <3> HIDE DEF q, parts
    <3>5. n[r] = q /\ \A x \in Pbuf : x # r => n[x] = pb[x]
      BY <1>1, <1>2 DEF Asked
    <3>6. Missing(vg, n)
      BY <2>2, <3>3, <3>5 DEF Missing
    <3>7. Settled(vg, parts) /\ OnDisks(vg, parts, disk)
      BY <2>2, <3>4 DEF Settled, OnDisks, IsStale, IsChanging
    <3>8. Bound(WithList(Work(vg, n), <<r>>), 0, parts)
      <4>1. \A p \in Pp : IsStale(parts, p) => IsStale(ppstate, p) \/ Marks(n, r, p)
        BY <3>3, <3>4, <3>5 DEF IsStale, Marks
      <4>2. \A p \in Pp : ~Clears(n, r, p)
        BY <3>3, <3>5 DEF Clears
      <4> HIDE DEF n
      <4> QED BY <1>1, <1>2, <2>2, <3>1, <3>5, <4>1, <4>2, BoundWith
    <3> QED BY <1>1, <1>2, <3>1, <3>3, <3>4, <3>6, <3>7, <3>8, SubmitRec
  <2>4. ASSUME NEW r \in Req, NEW lp \in Lp, NEW m \in SUBSET Mirror, hd_freshpp(r, lp, m)
        PROVE  Recording'
    <3> DEFINE q == [type |-> "SA_FRESHPP", lp |-> lp, mir |-> m]
               n == [pb EXCEPT ![r] = q]
               parts == [p \in Pp |-> IF p \in {lp} \X m THEN ppstate[p] \ {"PP_STALE"}
                                                         ELSE ppstate[p]]
    <3>1. LockFree /\ pb[r] = NULL /\ Submit(r, q, parts, vg) /\ \A x \in m : ~Marking(lp, x)
      BY <2>4 DEF hd_freshpp
    <3>2. q \in Request /\ q.type = "SA_FRESHPP" /\ q.lp = lp /\ q.mir = m
      BY DEF Request
    <3>3. parts \in Parts /\ \A p \in Pp : parts[p] = IF p \in {lp} \X m THEN ppstate[p] \ {"PP_STALE"}
                                                                        ELSE ppstate[p]
      BY <1>1 DEF Parts
    <3> HIDE DEF q, parts
    <3>4. n[r] = q /\ \A x \in Pbuf : x # r => n[x] = pb[x]
      BY <1>1, <1>2 DEF Asked
    <3>5. Missing(vg, n)
      BY <2>2, <3>2, <3>4 DEF Missing
    <3>6. Settled(vg, parts) /\ OnDisks(vg, parts, disk)
      BY <2>2, <3>3 DEF Settled, OnDisks, IsStale, IsChanging
    <3>7. Bound(WithList(Work(vg, n), <<r>>), 0, parts)
      <4>1. \A p \in Pp : IsStale(parts, p) => IsStale(ppstate, p)
        BY <3>3 DEF IsStale
      <4>2. ASSUME NEW p \in Pp, Clears(n, r, p)
            PROVE  ~IsStale(parts, p) /\ \A x \in Pbuf : pb[x] # NULL => ~Marks(pb, x, p)
        <5>1. p \in {lp} \X m
          BY <3>2, <3>4, <4>2 DEF Clears
        <5>2. ~IsStale(parts, p)
          BY <3>3, <5>1 DEF IsStale
        <5>3. ASSUME NEW x \in Pbuf, pb[x] # NULL, Marks(pb, x, p) PROVE FALSE
          <6>1. pb[x].type = "SA_STALEPP" /\ pb[x].lp = p[1] /\ p[2] \in pb[x].mir /\ p[1] = lp /\ p[2] \in m
            BY <5>1, <5>3 DEF Marks
          <6>2. Marking(lp, p[2])
            BY <5>3, <6>1 DEF Marking
          <6> QED BY <3>1, <6>1, <6>2
        <5> QED BY <5>2, <5>3
      <4> HIDE DEF n
      <4> QED BY <1>1, <1>2, <2>2, <3>1, <3>4, <4>1, <4>2, BoundWith
    <3> QED BY <1>1, <1>2, <3>1, <3>2, <3>3, <3>5, <3>6, <3>7, SubmitRec
  <2>5. ASSUME NEW r \in Req, NEW p \in Pv, hd_ca_wend(r, p)
        PROVE  Recording'
    <3> DEFINE q == [type |-> "SA_PVMISSING", pv |-> p]
               n == [pb EXCEPT ![r] = q]
               t == [vg.pvstate EXCEPT ![p] = "PV_MISSING"]
               g == [vg EXCEPT !.pvstate = t]
    <3>1. LockFree /\ pb[r] = NULL /\ Submit(r, q, ppstate, g) /\ ConfigOps = {}
      BY <2>5 DEF hd_ca_wend, SasStay
    <3>2. q \in Request /\ q.type = "SA_PVMISSING" /\ q.pv = p
      BY DEF Request
    <3>3. vg.pvstate \in [Pv -> {"NULL", "PV_DEFINED", "PV_MISSING"}]
      BY <1>1, GroupFields
    <3>4. t \in [Pv -> {"NULL", "PV_DEFINED", "PV_MISSING"}] /\ t[p] = "PV_MISSING"
          /\ \A x \in Pv : t[x] = "PV_DEFINED" => vg.pvstate[x] = "PV_DEFINED"
      BY <3>3
    <3> HIDE DEF q, t
    <3>5. /\ g \in Group /\ g.pvstate = t /\ g.whl = vg.whl /\ g.sa_lbuf = vg.sa_lbuf
          /\ g.wheel_idx = vg.wheel_idx /\ g.whl_seq_num = vg.whl_seq_num /\ g.hld = vg.hld
          /\ g.act = vg.act /\ g.stop = vg.stop /\ g.seq = vg.seq /\ g.vgsa = vg.vgsa
          /\ g.forcedoff = vg.forcedoff /\ g.lsn = vg.lsn /\ g.nukesa = vg.nukesa
      BY <1>1, <3>4 DEF Group
    <3> HIDE DEF g
    <3>6. Active(g) \subseteq Active(vg)
      <4>1. \A x \in vg.lsn : PvOf(x) \in Pv
        BY <1>1, GroupFields, PvOfIn
      <4> QED BY <4>1, <3>4, <3>5 DEF Active
    <3>7. Placed(g, pb) /\ Fewer(vg, g)
      BY <1>1, <3>5, <3>6 DEF Placed, Listed, Fewer
    <3>8. n[r] = q /\ \A x \in Pbuf : x # r => n[x] = pb[x]
      BY <1>1, <1>2 DEF Asked
    <3>9. Missing(g, n)
      <4>1. SUFFICES ASSUME NEW x \in Pbuf, n[x] # NULL, n[x].type \in {"SA_PVMISSING", "SA_PVREMOVED"}
                     PROVE  t[n[x].pv] # "PV_DEFINED"
        BY <3>5 DEF Missing
      <4>2. CASE x = r
        BY <3>2, <3>4, <3>8, <4>2
      <4>3. CASE x # r
        <5>1. n[x] = pb[x] /\ pb[x] \in Request
          BY <1>1, <3>8, <4>1, <4>3 DEF Asked
        <5>2. pb[x].pv \in Pv
          BY <4>1, <5>1 DEF Request
        <5> QED BY <2>2, <3>4, <4>1, <5>1, <5>2 DEF Missing
      <4> QED BY <4>2, <4>3
    <3>10. Bound(WithList(Work(g, n), <<r>>), 0, ppstate)
      <4>1. \A x \in Pp : ~Clears(n, r, x)
        BY <3>2, <3>8 DEF Clears
      <4> HIDE DEF n
      <4> QED BY <1>1, <1>2, <2>2, <3>1, <3>5, <3>8, <4>1, BoundWith
    <3> QED BY <1>1, <2>2, <3>1, <3>2, <3>5, <3>7, <3>9, <3>10, SubmitRec
  <2> QED BY <2>3, <2>4, <2>5 DEF IoRequest
<1> QED BY <1>3, <1>4

(* hd_sa_onerev: no configuration request is on the lists, so that a change *)
(* of the VGDA's length is promised for the new one only.                   *)
LEMMA OnerevRec ==
  ASSUME Base, Turn, Wide, Recording, config.pc = "control", ~vg.forcedoff, NEW g \in Group,
         g.whl = vg.whl, g.hld = vg.hld, g.act = vg.act, g.sa_lbuf = vg.sa_lbuf,
         g.stop = vg.stop, g.wheel_idx = vg.wheel_idx, g.whl_seq_num = vg.whl_seq_num,
         g.seq = vg.seq, g.forcedoff = vg.forcedoff, g.lsn = vg.lsn, g.pvstate = vg.pvstate,
         g.nukesa = vg.nukesa, g.vgsa.stalepp = vg.vgsa.stalepp, hd_sa_onerev(g)
  PROVE  Recording'
<1> DEFINE h == [g EXCEPT !.whl = IF @ = "held" THEN "stopped" ELSE @]
           q == [type |-> "SA_CONFIGOP"]
           n == [pb EXCEPT ![Cfg] = q]
           c == [config EXCEPT !.pc = "started"]
<1>1. /\ vg \in Group /\ pb \in Asked /\ disk \in Disks /\ ppstate \in Parts /\ config \in Process
      /\ CfgPlace(pb, config) /\ Flags(vg, config) /\ Placed(vg, pb)
  BY Types DEF Base
<1>2. hd_sa_rtn(hd_sa_strt(Work(h, n), <<Cfg>>), ppstate, c) /\ disk' = disk
  BY DEF hd_sa_onerev
<1>3. Cfg \in Pbuf /\ pb[Cfg] = NULL /\ q \in Request
  BY <1>1 DEF Pbuf, CfgPlace, Asking, Request
<1>4. g.whl \in {"stopped", "held"} /\ g.sa_lbuf = NULL
  BY <1>1, GroupFields DEF Flags, Steady
<1>5. /\ h \in Group /\ h.whl = "stopped" /\ h.hld = vg.hld /\ h.act = vg.act
      /\ h.sa_lbuf = NULL /\ h.stop = vg.stop /\ h.wheel_idx = vg.wheel_idx
      /\ h.whl_seq_num = vg.whl_seq_num /\ h.seq = vg.seq /\ h.forcedoff = vg.forcedoff
      /\ h.lsn = vg.lsn /\ h.pvstate = vg.pvstate /\ h.nukesa = vg.nukesa
      /\ h.vgsa.stalepp = vg.vgsa.stalepp
  BY <1>4 DEF Group
<1> HIDE DEF h
<1> DEFINE v == h.vgsa.extpp
           G == Good(n, v, disk)
<1>6. Placed(h, pb) /\ Active(h) = Active(vg)
  BY <1>1, <1>5 DEF Placed, Listed, Active
<1>7. /\ n \in Asked /\ Placed(h, n) /\ n[Cfg] = q /\ q # NULL /\ Cfg \notin Listed(h)
      /\ \A x \in Pbuf : x # Cfg => n[x] = pb[x]
  BY <1>1, <1>3, <1>5, <1>6, NewRequest
<1>8. n[Cfg].type = "SA_CONFIGOP"
  BY <1>7
<1> HIDE DEF n, q
<1>9. c \in Process /\ c.pc = "started" /\ c.rtn = "none" /\ c.op = config.op /\ c.sas = config.sas
      /\ config.op \in ConfigOps /\ config.rtn = "none"
      /\ c.qrm = config.qrm /\ config.qrm \in Quorums
  BY <1>1 DEF Process, ConfigPc, HoldsLock, CfgPlace, Taking
<1> HIDE DEF c
<1>10. CfgPlace(n, c)
  BY <1>9 DEF CfgPlace, Asking, Taking
<1>11. <<Cfg>> \in Seq(Pbuf) /\ IsInjective(<<Cfg>>) /\ Range(<<Cfg>>) = {Cfg}
  BY <1>3, OneAndNone
<1>12. Records(vg, pb, ppstate, disk) /\ Relies(vg, config, disk) /\ Site(vg)
  BY DEF Recording
<1>13. Spinning(h)
  BY <1>4, <1>5, SpinSame DEF Turn, Turning
<1>14. Written(h, {}, G)
  <2>1. SUFFICES ASSUME NEW j \in DOMAIN vg.act, NEW x \in Range(vg.act[j]), NEW s \in Active(vg),
                        s # vg.wheel_idx, Ahead(h, s) >= StopAt(h, j)
                 PROVE  <<x, s>> \in G
    BY <1>5, <1>6 DEF Written
  <2>2. Ahead(h, s) = Ahead(vg, s) /\ StopAt(h, j) = StopAt(vg, j)
    BY <1>5 DEF Ahead, StopAt
  <2>3. <<x, s>> \in Good(pb, vg.vgsa.extpp, disk)
    BY <1>12, <2>1, <2>2 DEF Records, Written
  <2>4. x \in Listed(h)
    <3>1. vg.act[j] \in Range(vg.act)
      BY DEF Range
    <3> QED BY <1>5, <3>1 DEF Listed
  <2>5. x \in Pbuf /\ x # Cfg /\ n[x] = pb[x] /\ pb[x] # NULL
    <3>1. Listed(h) \subseteq Pbuf
      <4>1. h \in Group
        BY <1>5
      <4> QED BY <1>6, <4>1, Heads
    <3> QED BY <1>6, <1>7, <2>4, <3>1 DEF Placed
  <2>6. pb[x].type # "SA_CONFIGOP"
    BY <1>12, <2>5 DEF Records, Ours
  <2>7. Carries(pb[x], vg.vgsa.extpp, disk[s])
    BY <2>3 DEF Good
  <2>8. Carries(n[x], v, disk[s])
    BY <2>5, <2>6, <2>7 DEF Carries
  <2> QED BY <2>3, <2>8 DEF Good
<1>15. Bound(WithList(Work(h, n), <<Cfg>>), 0, ppstate)
  <2>1. \A p : ~Clears(n, Cfg, p)
    BY <1>8 DEF Clears
  <2>2. Bound(Work(vg, pb), 0, ppstate)
    BY <1>12 DEF Records
  <2> QED BY <1>1, <1>3, <1>5, <1>7, <2>1, <2>2, BoundWith
<1>16. Missing(h, n) /\ Ours(n)
  <2>1. \A x \in Pbuf : n[x] = pb[x] \/ (x = Cfg /\ n[x].type = "SA_CONFIGOP")
    BY <1>7, <1>8
  <2>2. Missing(h, n)
    BY <1>5, <1>12, <2>1 DEF Records, Missing
  <2>3. Ours(n)
    BY <1>3, <1>12, <2>1 DEF Records, Ours
  <2> QED BY <2>2, <2>3
<1>17. /\ Settled(h, ppstate) /\ OnDisks(h, ppstate, disk) /\ h.nukesa = {} /\ Fresh0(h)
  BY <1>5, <1>6, <1>12 DEF Records, Settled, OnDisks, Fresh0
<1>18. Relies(h, c, disk)
  BY <1>6, <1>9, <1>12 DEF Relies, Adds
<1>19. Sited(WithList(Work(h, n), <<Cfg>>), G)
  <2> DEFINE l == WithList(Work(h, n), <<Cfg>>)
             k == [h EXCEPT !.hld = h.hld \o <<Cfg>>]
  <2>1. k.wheel_idx = vg.wheel_idx /\ Active(k) = Active(vg)
    <3>1. k.wheel_idx = h.wheel_idx /\ k.lsn = h.lsn /\ k.pvstate = h.pvstate
      BY <1>5 DEF Group
    <3> HIDE DEF k
    <3> QED BY <1>5, <3>1 DEF Active
  <2> HIDE DEF k
  <2>2. l = [Work(h, n) EXCEPT !.vg = k]
    BY DEF WithList, Work, k
  <2>3. l.vg = k
    BY <2>2 DEF Work
  <2> HIDE DEF l
  <2>4. vg.wheel_idx \in Active(vg) \cup {0}
    BY <1>9, <1>12 DEF Site
  <2>5. Sited(l, G)
    BY <2>1, <2>3, <2>4 DEF Sited
  <2> QED BY <2>5 DEF l
<1>20. SUFFICES ASSUME ~vg'.forcedoff
                PROVE  Records(vg, pb, ppstate, disk)' /\ Relies(vg, config, disk)' /\ Site(vg)'
  BY DEF Recording
<1>21. /\ Records(vg', pb', ppstate', disk) /\ Relies(vg', config', disk)
       /\ Active(vg') = Active(h)
       /\ \/ vg'.wheel_idx \in Active(vg')
          \/ vg'.wheel_idx = h.wheel_idx /\ (Active(vg') = {} \/ vg'.whl = "held")
  <2>1. \A r \in Range(<<Cfg>>) : r \notin Listed(h) /\ n[r] # NULL
    BY <1>7, <1>11
  <2>2. (h.whl = "active" <=> h.sa_lbuf # NULL) /\ h.sa_lbuf \in {NULL, h.wheel_idx}
    BY <1>5
  <2>3. config.pc = "waiting" => c.pc = "waiting"
    OBVIOUS
  <2> QED BY <1>1, <1>2, <1>5, <1>7, <1>9, <1>10, <1>11, <1>13, <1>14, <1>15, <1>16, <1>17,
             <1>18, <1>19, <1>20, <2>1, <2>2, <2>3, StrtRtnRec
<1>22. Site(vg')
  <2>1. vg.wheel_idx \in Active(vg) \cup {0}
    BY <1>9, <1>12 DEF Site
  <2> QED BY <1>5, <1>6, <1>21, <2>1 DEF Site
<1> QED BY <1>2, <1>21, <1>22

(* A step of the process that leaves the wheel and the disks alone.         *)
LEMMA AsideRec ==
  ASSUME Recording, UNCHANGED <<vg, disk, pb, ppstate>>,
         ~vg.forcedoff /\ Relies(vg, config, disk) => Relies(vg, config', disk)
  PROVE  Recording'
<1>1. SUFFICES ASSUME ~vg'.forcedoff
               PROVE  Records(vg, pb, ppstate, disk)' /\ Relies(vg, config, disk)' /\ Site(vg)'
  BY DEF Recording
<1>2. Records(vg, pb, ppstate, disk) /\ Relies(vg, config, disk) /\ Site(vg)
  BY <1>1 DEF Recording
<1> QED BY <1>1, <1>2

(* The process leaves without SAs of its own.                               *)
LEMMA LeaveRec ==
  ASSUME Recording, Leave, vg.forcedoff \/ Adds(config) = {}
  PROVE  Recording'
<1>1. config' = Idle /\ UNCHANGED <<vg, disk, pb, ppstate>>
  BY DEF Leave
<1>2. Idle.rtn = "none" /\ Idle.pc = "idle" /\ Idle.op = "none" /\ Adds(Idle) = {}
  BY DEF Idle, Adds
<1>3. ~vg.forcedoff /\ Relies(vg, config, disk) => Relies(vg, config', disk)
  BY <1>1, <1>2 DEF Relies
<1> QED BY <1>1, <1>3, AsideRec

LEMMA RestartRec ==
  ASSUME Base, Turn, Wide, SasStay, Recording, config.pc = "control", ~vg.forcedoff,
         config.op = "HD_KREDUCE", RestartAndLeave
  PROVE  Recording'
<1> DEFINE g == [vg EXCEPT !.whl = "stopped"]
           G == Good(pb, vg.vgsa.extpp, disk)
<1>1. /\ vg \in Group /\ pb \in Asked /\ disk \in Disks /\ ppstate \in Parts /\ config \in Process
      /\ CfgPlace(pb, config) /\ Flags(vg, config) /\ Placed(vg, pb)
  BY Types DEF Base
<1>2. Records(vg, pb, ppstate, disk) /\ Relies(vg, config, disk) /\ Site(vg)
  BY DEF Recording
<1>3. Adds(config) = {} /\ pb[Cfg] = NULL /\ ConfigOps # {}
  BY <1>1 DEF Adds, CfgPlace, Asking, Process
<1>4. CASE vg.whl = "held"
  <2>1. hd_sa_rtn(hd_sa_strt(Work(g, pb), <<>>), ppstate, Idle) /\ disk' = disk
    BY <1>4 DEF RestartAndLeave
  <2>2. /\ g \in Group /\ g.whl = "stopped" /\ g.hld = vg.hld /\ g.act = vg.act /\ g.sa_lbuf = vg.sa_lbuf
        /\ g.stop = vg.stop /\ g.wheel_idx = vg.wheel_idx /\ g.whl_seq_num = vg.whl_seq_num
        /\ g.seq = vg.seq /\ g.vgsa = vg.vgsa /\ g.forcedoff = vg.forcedoff /\ g.lsn = vg.lsn
        /\ g.pvstate = vg.pvstate /\ g.nukesa = vg.nukesa
    BY <1>1 DEF Group
  <2> HIDE DEF g
  <2>3. Placed(g, pb) /\ g.sa_lbuf = NULL /\ Active(g) = Active(vg)
    BY <1>1, <1>4, <2>2 DEF Placed, Listed, Active, Flags, Steady
  <2>4. /\ Idle.pc = "idle" /\ Idle.rtn = "none" /\ Idle.op = "none" /\ Adds(Idle) = {}
        /\ Idle \in Process
    BY IdleIn DEF Idle, Adds
  <2>5. CfgPlace(pb, Idle)
    BY <1>3, <2>4 DEF CfgPlace, Taking
  <2>6. <<>> \in Seq(Pbuf) /\ IsInjective(<<>>) /\ Range(<<>>) = {}
    BY OneAndNone DEF Pbuf
  <2>7. Spinning(g)
    BY <2>2, SpinSame DEF Turn, Turning
  <2>8. Written(g, {}, Good(pb, g.vgsa.extpp, disk))
    <3>1. \A s : Ahead(g, s) = Ahead(vg, s)
      BY <2>2 DEF Ahead
    <3>2. \A j : StopAt(g, j) = StopAt(vg, j)
      BY <2>2, <3>1 DEF StopAt
    <3> QED BY <1>2, <2>2, <2>3, <3>1, <3>2 DEF Records, Written
  <2>9. /\ Settled(g, ppstate) /\ OnDisks(g, ppstate, disk) /\ g.nukesa = {} /\ Fresh0(g)
        /\ Missing(g, pb) /\ Ours(pb)
    BY <1>2, <2>2, <2>3 DEF Records, Settled, OnDisks, Fresh0, Missing
  <2>10. Relies(g, Idle, disk)
    BY <1>2, <1>3, <2>3, <2>4 DEF Relies
  <2> DEFINE l == WithList(Work(g, pb), <<>>)
             k == [g EXCEPT !.hld = g.hld \o <<>>]
  <2>11. /\ k.hld = vg.hld /\ k.act = vg.act /\ k.wheel_idx = vg.wheel_idx
         /\ k.vgsa = vg.vgsa /\ Active(k) = Active(vg)
    <3>1. g.hld \o <<>> = g.hld
      BY <2>2, GroupFields
    <3>2. k = [g EXCEPT !.hld = g.hld]
      BY <3>1
    <3>3. k.hld = g.hld /\ k.act = g.act /\ k.wheel_idx = g.wheel_idx
          /\ k.lsn = g.lsn /\ k.pvstate = g.pvstate /\ k.vgsa = g.vgsa
      BY <2>2, <3>2 DEF Group
    <3> HIDE DEF k
    <3> QED BY <2>2, <3>3 DEF Active
  <2> HIDE DEF k
  <2>12. l.vg = k /\ l.ok = {} /\ l.pb = pb
    <3>1. l = [Work(g, pb) EXCEPT !.vg = k]
      BY DEF WithList, Work, k
    <3> QED BY <3>1 DEF Work
  <2> HIDE DEF l
  <2>13. Bound(l, 0, ppstate)
    <3> DEFINE w == Work(vg, pb)
    <3>1. w.vg = vg /\ w.ok = {} /\ w.pb = pb
      BY DEF Work
    <3>2. Bound(w, 0, ppstate)
      BY <1>2 DEF Records
    <3> HIDE DEF w
    <3>3. Begun(l) = Begun(w)
      BY <2>11, <2>12, <3>1 DEF Begun
    <3> QED BY <2>11, <2>12, <3>1, <3>2, <3>3, BoundSame
  <2>14. Sited(l, Good(pb, g.vgsa.extpp, disk))
    BY <1>2, <1>3, <2>11, <2>12 DEF Sited, Site
  <2>15. SUFFICES ASSUME ~vg'.forcedoff
                  PROVE  Records(vg, pb, ppstate, disk)' /\ Relies(vg, config, disk)' /\ Site(vg)'
    BY DEF Recording
  <2>16. /\ Records(vg', pb', ppstate', disk) /\ Relies(vg', config', disk)
         /\ Active(vg') = Active(g)
         /\ \/ vg'.wheel_idx \in Active(vg')
            \/ vg'.wheel_idx = g.wheel_idx /\ (Active(vg') = {} \/ vg'.whl = "held")
    <3>1. \A r \in Range(<<>>) : r \notin Listed(g) /\ pb[r] # NULL
      BY <2>6
    <3>2. (g.whl = "active" <=> g.sa_lbuf # NULL) /\ g.sa_lbuf \in {NULL, g.wheel_idx}
      BY <2>2, <2>3
    <3>3. config.pc = "waiting" => Idle.pc = "waiting"
      OBVIOUS
    <3> QED BY <1>1, <2>1, <2>2, <2>3, <2>4, <2>5, <2>6, <2>7, <2>8, <2>9, <2>10, <2>13, <2>14,
               <2>15, <3>1, <3>2, <3>3, StrtRtnRec DEF l
  <2>17. Site(vg')
    BY <1>2, <1>3, <2>2, <2>3, <2>16 DEF Site
  <2> QED BY <2>1, <2>16, <2>17
<1>5. CASE vg.whl # "held"
  <2>1. Leave
    BY <1>5 DEF RestartAndLeave
  <2> QED BY <1>3, <2>1, LeaveRec
<1> QED BY <1>4, <1>5

LEMMA WithControlRec ==
  ASSUME Base, Turn, Wide, SasStay, Recording, WithControl
  PROVE  Recording'
<1>1. vg \in Group /\ config \in Process /\ CfgPlace(pb, config) /\ config.pc = "control"
  BY Types DEF Base, WithControl
<1>2. CASE vg.forcedoff
  <2>1. Leave
    BY <1>2 DEF WithControl
  <2> QED BY <1>2, <2>1, LeaveRec
<1>3. CASE ~vg.forcedoff
  <2>1. config.op \in {"HD_KADDVGSA", "HD_MWC_REC", "HD_KEXTEND", "HD_KREDUCE"}
    BY <1>1 DEF CfgPlace, Taking, Process, SasStay
  <2>2. vg.vgsa \in Image
    BY <1>1, GroupFields
  <2>3. ASSUME NEW e \in BOOLEAN, hd_sa_onerev([vg EXCEPT !.vgsa.extpp = e]) PROVE Recording'
    <3> DEFINE i == [vg.vgsa EXCEPT !.extpp = e]
               g == [vg EXCEPT !.vgsa = i]
    <3>1. i \in Image /\ i.stalepp = vg.vgsa.stalepp /\ hd_sa_onerev(g)
      BY <2>2, <2>3 DEF Image
    <3> HIDE DEF i
    <3>2. /\ g \in Group /\ g.whl = vg.whl /\ g.hld = vg.hld /\ g.act = vg.act /\ g.sa_lbuf = vg.sa_lbuf
          /\ g.stop = vg.stop /\ g.wheel_idx = vg.wheel_idx /\ g.whl_seq_num = vg.whl_seq_num
          /\ g.seq = vg.seq /\ g.forcedoff = vg.forcedoff /\ g.lsn = vg.lsn
          /\ g.pvstate = vg.pvstate /\ g.nukesa = vg.nukesa /\ g.vgsa = i
      BY <1>1, <3>1 DEF Group
    <3> HIDE DEF g
    <3> QED BY <1>1, <1>3, <3>1, <3>2, OnerevRec
  <2>4. CASE config.op \in {"HD_KADDVGSA", "HD_MWC_REC"}
    <3>1. hd_sa_onerev(vg)
      BY <1>3, <2>4 DEF WithControl
    <3> QED BY <1>1, <1>3, <3>1, OnerevRec
  <2>5. CASE config.op = "HD_KEXTEND"
    <3>1. (\E e \in BOOLEAN : hd_sa_onerev([vg EXCEPT !.vgsa.extpp = e])) \/ Leave
      BY <1>3, <2>5 DEF WithControl
    <3>2. Adds(config) = {}
      BY <2>5 DEF Adds
    <3> QED BY <2>3, <3>1, <3>2, LeaveRec
  <2>6. CASE config.op = "HD_KREDUCE"
    <3>1. \/ \E e \in {vg.vgsa.extpp, TRUE} : hd_sa_onerev([vg EXCEPT !.vgsa.extpp = e])
          \/ RestartAndLeave \/ Leave
      BY <1>3, <2>6 DEF WithControl
    <3>2. Adds(config) = {} /\ vg.vgsa.extpp \in BOOLEAN
      BY <2>2, <2>6 DEF Adds, Image
    <3> QED BY <1>1, <1>3, <2>3, <2>6, <3>1, <3>2, LeaveRec, RestartRec
  <2> QED BY <2>1, <2>4, <2>5, <2>6
<1> QED BY <1>2, <1>3

LEMMA StepsRec ==
  ASSUME Base, SasStay, Recording,
         SleepForControl \/ TakeControl \/ CheckDone \/ SleepForDone \/ WakeDone
  PROVE  Recording'
<1>1. config \in Process /\ config.op \in ConfigOps \cup {"none"} /\ config.rtn \in {"none", "ok", "error"}
  BY Types DEF Base, Process
<1>2. ASSUME NEW p \in {"waiting", "control", "gosleep2", "waiting2"}, Goto(p) PROVE Recording'
  <2>1. config' = [config EXCEPT !.pc = p] /\ UNCHANGED <<vg, disk, pb, ppstate>>
    BY <1>2 DEF Goto
  <2>2. config'.pc = p /\ config'.op = config.op /\ config'.rtn = config.rtn /\ config'.sas = config.sas
    BY <1>1, <2>1 DEF Process
  <2>3. Relies(vg, config, disk) => Relies(vg, config', disk)
    BY <2>2 DEF Relies, Adds
  <2> QED BY <2>1, <2>3, AsideRec
<1>3. ASSUME Return, config.rtn # "none" \/ config.pc = "woken2" PROVE Recording'
  <2>1. config.op \notin {"HD_KMISSPV", "HD_KREMPV"}
    BY <1>1 DEF SasStay
  <2>2. config' = Idle /\ UNCHANGED <<vg, disk, pb, ppstate>>
    BY <1>3, <2>1 DEF Return
  <2>3. Idle.rtn = "none" /\ Idle.pc = "idle" /\ Idle.op = "none"
    BY DEF Idle
  <2>4. ASSUME Relies(vg, config, disk) PROVE Relies(vg, config', disk)
    <3>1. config.rtn = "ok"
      BY <1>1, <1>3, <2>4 DEF Relies
    <3>2. \A s \in Active(vg) : disk[s] # NULL
      BY <2>4, <3>1 DEF Relies
    <3> QED BY <2>2, <2>3, <3>2 DEF Relies
  <2> QED BY <2>2, <2>4, AsideRec
<1>4. CASE SleepForControl \/ TakeControl \/ SleepForDone
  BY <1>2, <1>4 DEF SleepForControl, TakeControl, SleepForDone
<1>5. CASE CheckDone
  BY <1>2, <1>3, <1>5 DEF CheckDone
<1>6. CASE WakeDone
  BY <1>3, <1>6 DEF WakeDone
<1> QED BY <1>4, <1>5, <1>6

(* New SAs: they hold nothing, and nothing is promised for them yet.        *)
LEMMA AddVgsaRec ==
  ASSUME Base, Recording, config.pc = "idle", ~vg.forcedoff, NEW op \in ConfigOps,
         NEW p \in Pv, NEW q \in Quorums, NEW sas \in SUBSET SasOf(p), ConfigAddVgsa(op, p, sas, q)
  PROVE  Recording'
<1> DEFINE S == [s \in Sa |-> IF s \in sas THEN (vg.whl_seq_num - 1) % SEQNUMS ELSE vg.seq[s]]
           L == vg.lsn \cup sas
           v == vg.vgsa.extpp
<1>1. /\ vg \in Group /\ pb \in Asked /\ disk \in Disks /\ CfgPlace(pb, config) /\ Placed(vg, pb)
  BY Types DEF Base
<1>2. /\ vg' = [vg EXCEPT !.quorum_cnt = q, !.lsn = L, !.seq = S]
      /\ disk' = Blank(sas) /\ sas \cap vg.lsn = {}
      /\ config' = [Begins(op, p, sas, q) EXCEPT !.pc = GetControl]
      /\ UNCHANGED <<pb, ppstate>> /\ op = "HD_KADDVGSA"
  BY DEF ConfigAddVgsa
<1>3. sas \in SUBSET Sa /\ Sa \cap {NULL} = {}
  BY SasIn, Sizes
<1> HIDE DEF S
<1>4. /\ vg'.hld = vg.hld /\ vg'.act = vg.act /\ vg'.whl = vg.whl /\ vg'.wheel_idx = vg.wheel_idx
      /\ vg'.stop = vg.stop /\ vg'.vgsa = vg.vgsa /\ vg'.lsn = L /\ vg'.pvstate = vg.pvstate
      /\ vg'.nukesa = vg.nukesa
  BY <1>1, <1>2 DEF Group
<1>5. /\ config'.pc = GetControl /\ config'.op = op /\ config'.rtn = "none" /\ config'.sas = sas
      /\ GetControl \in {"gosleep", "control"}
  <2>1. GetControl \in ConfigPc
    BY GetControlOK DEF ConfigPc, HoldsLock
  <2> QED BY <1>2, <1>3, <2>1, BeginsOK, GetControlOK
<1>6. /\ Active(vg) \subseteq Active(vg') /\ Active(vg') \subseteq Active(vg) \cup sas
      /\ Active(vg) \cap sas = {} /\ Active(vg) \subseteq Sa
  BY <1>1, <1>2, <1>4, NearIn DEF Active
<1>7. \A s \in Sa : disk'[s] = IF s \in sas THEN NULL ELSE disk[s]
  BY <1>2 DEF Blank
<1>8. pb[Cfg] = NULL /\ Cfg \in Pbuf
  BY <1>1 DEF CfgPlace, Asking, Pbuf
<1>9. Records(vg, pb, ppstate, disk) /\ Relies(vg, config, disk) /\ Site(vg)
  BY DEF Recording
<1>10. Written(vg', {}, Good(pb, v, disk'))
  <2>1. SUFFICES ASSUME NEW j \in DOMAIN vg.act, NEW x \in Range(vg.act[j]), NEW s \in Active(vg'),
                        s # vg.wheel_idx, Ahead(vg', s) >= StopAt(vg', j)
                 PROVE  <<x, s>> \in Good(pb, v, disk')
    BY <1>4 DEF Written
  <2>2. Ahead(vg', s) = Ahead(vg, s) /\ StopAt(vg', j) = StopAt(vg, j)
    BY <1>4 DEF Ahead, StopAt
  <2>3. x \in Pbuf /\ pb[x] # NULL
    <3>1. vg.act[j] \in Range(vg.act)
      BY DEF Range
    <3>2. x \in Listed(vg)
      BY <3>1 DEF Listed
    <3> QED BY <1>1, <3>2, Heads DEF Placed
  <2>4. CASE s \in sas
    <3>1. pb[x].type # "SA_CONFIGOP"
      BY <1>8, <1>9, <2>3 DEF Records, Ours
    <3>2. s \in Sa /\ disk'[s] = NULL
      BY <1>3, <1>7, <2>4
    <3> QED BY <2>3, <3>1, <3>2 DEF Good, Carries
  <2>5. CASE s \notin sas
    <3>1. s \in Active(vg) /\ disk'[s] = disk[s]
      BY <1>6, <1>7, <2>5
    <3>2. <<x, s>> \in Good(pb, v, disk)
      BY <1>9, <2>1, <2>2, <3>1 DEF Records, Written
    <3> QED BY <3>1, <3>2 DEF Good
  <2> QED BY <2>4, <2>5
<1>11. Bound(Work(vg', pb), 0, ppstate)
  <2> DEFINE w == Work(vg, pb)
             d == Work(vg', pb)
  <2>1. /\ w.vg = vg /\ w.ok = {} /\ w.pb = pb
        /\ d.vg = vg' /\ d.ok = {} /\ d.pb = pb
    BY DEF Work
  <2>2. Bound(w, 0, ppstate)
    BY <1>9 DEF Records
  <2> HIDE DEF w, d
  <2>3. Begun(d) = Begun(w)
    BY <1>4, <2>1 DEF Begun
  <2>4. Bound(d, 0, ppstate)
    BY <1>4, <2>1, <2>2, <2>3, BoundSame
  <2> QED BY <2>4 DEF d
<1>12. OnDisks(vg', ppstate, disk')
  <2>1. SUFFICES ASSUME NEW x \in Pp, IsStale(ppstate, x), ~IsChanging(ppstate, x),
                        NEW s \in Active(vg'), disk'[s] # NULL
                 PROVE  x \in disk'[s].stalepp
    BY DEF OnDisks
  <2>2. s \in Active(vg) /\ disk'[s] = disk[s]
    BY <1>3, <1>6, <1>7, <2>1
  <2> QED BY <1>9, <2>1, <2>2 DEF Records, OnDisks
<1>13. Settled(vg', ppstate) /\ vg'.nukesa = {} /\ Fresh0(vg') /\ Missing(vg', pb) /\ Ours(pb)
  BY <1>4, <1>9 DEF Records, Settled, Fresh0, Missing
<1>14. Records(vg', pb', ppstate', disk')
  BY <1>2, <1>4, <1>10, <1>11, <1>12, <1>13 DEF Records
<1>15. Relies(vg', config', disk')
  <2>1. Adds(config') = sas /\ Adds(config) = {}
    <3>1. config.op = "none"
      BY <1>9 DEF Relies
    <3> QED BY <1>2, <1>5, <3>1 DEF Adds
  <2>2. \A s \in Active(vg') \ sas : disk'[s] # NULL
    <3>1. \A s \in Active(vg) : disk[s] # NULL
      BY <1>9, <2>1 DEF Relies
    <3> QED BY <1>6, <1>7, <3>1
  <2> QED BY <1>5, <2>1, <2>2 DEF Relies
<1>16. Site(vg')
  <2>1. vg.wheel_idx \in Active(vg) \cup {0}
    BY <1>9 DEF Site
  <2> QED BY <1>4, <1>6, <2>1 DEF Site
<1> QED BY <1>14, <1>15, <1>16 DEF Recording

LEMMA ConfigRec ==
  ASSUME Base, SasStay, Recording, hd_sa_config
  PROVE  Recording'
<1>1. PICK op \in ConfigOps, p \in Pv, q \in Quorums :
        \/ ConfigMissing(op, p, q)
        \/ ConfigDelPv(op, p, q)
        \/ ConfigImage(op)
        \/ \E sas \in SUBSET SasOf(p) : \/ ConfigAddPv(op, p, sas, q)
                                        \/ ConfigAddVgsa(op, p, sas, q)
                                        \/ ConfigDelVgsa(op, p, sas, q)
  BY DEF hd_sa_config
<1>2. config.pc = "idle" /\ ~vg.forcedoff
  BY DEF hd_sa_config
<1>3. op \in {"HD_KADDVGSA", "HD_MWC_REC", "HD_KEXTEND", "HD_KREDUCE"}
  BY DEF SasStay
<1>4. CASE ConfigImage(op)
  <2> DEFINE c == [Begins(op, 0, {}, vg.quorum_cnt) EXCEPT !.pc = GetControl]
  <2>1. config' = c /\ UNCHANGED <<vg, disk, pb, ppstate>> /\ op # "HD_KADDVGSA"
    BY <1>4 DEF ConfigImage
  <2>2. c.pc = GetControl /\ c.op = op /\ c.rtn = "none"
    <3>1. GetControl \in ConfigPc /\ {} \in SUBSET Sa /\ 0 \in Pv
      BY GetControlOK, SizeAssumption DEF ConfigPc, HoldsLock, Pv
    <3>2. vg.quorum_cnt \in Quorums
      BY Types, GroupFields DEF Base
    <3> HIDE DEF c
    <3>3. c \in Process /\ c.pc = GetControl /\ c.op = op /\ c.rtn = "none" /\ c.qrm = vg.quorum_cnt
      BY <3>1, <3>2, BeginsOK DEF c
    <3> QED BY <3>3
  <2> HIDE DEF c
  <2>3. ASSUME Relies(vg, config, disk) PROVE Relies(vg, config', disk)
    <3>1. Adds(config) = {}
      BY <1>2, <2>3 DEF Relies, Adds
    <3> QED BY <2>1, <2>2, <2>3, <3>1, GetControlOK DEF Relies, Adds
  <2> QED BY <2>1, <2>3, AsideRec
<1>5. ASSUME NEW sas \in SUBSET SasOf(p), ConfigAddVgsa(op, p, sas, q) PROVE Recording'
  BY <1>2, <1>5, AddVgsaRec
<1> QED BY <1>1, <1>3, <1>4, <1>5, Zenon DEF ConfigMissing, ConfigDelPv, ConfigAddPv, ConfigDelVgsa

LEMMA RecordingInit == Init => Recording
<1> SUFFICES ASSUME Init PROVE Recording
  OBVIOUS
<1> DEFINE clean == [pvmissing |-> {}, stalepp |-> {}, extpp |-> FALSE]
           w == Work(vg, pb)
<1>1. PICK q \in Quorums :
       vg = [whl |-> "stopped", forcedoff |-> FALSE, wheel_idx |-> 0,
             whl_seq_num |-> 0, hld |-> <<>>, act |-> <<>>,
             stop |-> [r \in Pbuf |-> 0], vgsa |-> clean,
             quorum_cnt |-> q, sa_lbuf |-> NULL,
             pvstate |-> [p \in Pv |-> IF p \in InitPv THEN "PV_DEFINED"
                                                       ELSE "NULL"],
             lsn |-> InitSa, nukesa |-> {}, seq |-> [s \in Sa |-> 0]]
  BY DEF Init
<1>2. /\ disk = [s \in Sa |-> clean] /\ pb = [r \in Pbuf |-> NULL]
      /\ ppstate = [p \in Pp |-> {}] /\ config = Idle
  BY DEF Init
<1>3. clean \in Image /\ clean # NULL
  <2>1. clean \in Image
    BY DEF Image
  <2> QED BY <2>1, NullAssumption
<1> HIDE DEF clean
<1>4. /\ vg.wheel_idx = 0 /\ vg.hld = <<>> /\ vg.act = <<>> /\ vg.nukesa = {} /\ vg.lsn = InitSa
  BY <1>1
<1>5. \A s \in Active(vg) : disk[s] # NULL
  BY <1>2, <1>3, <1>4, InitAssumption DEF Active
<1>6. \A p \in Pp : ~IsStale(ppstate, p)
  BY <1>2 DEF IsStale
<1>7. DOMAIN vg.act = {} /\ Range(vg.act) = {} /\ Range(vg.hld) = {} /\ Len(vg.hld) = 0
  BY <1>4 DEF Range
<1>8. \A r \in Pbuf : pb[r] = NULL
  BY <1>2
<1>9. Bound(w, 0, ppstate)
  <2>1. w.vg = vg /\ w.ok = {} /\ w.pb = pb
    BY DEF Work
  <2> HIDE DEF w
  <2>2. Begun(w) = {} /\ 1..Len(w.vg.hld) = {}
    BY <1>7, <2>1 DEF Begun
  <2> QED BY <1>6, <2>2 DEF Bound
<1>10. Records(vg, pb, ppstate, disk)
  BY <1>4, <1>6, <1>7, <1>8, <1>9 DEF Records, Written, Settled, OnDisks, Fresh0, Missing, Ours
<1>11. Relies(vg, config, disk)
  BY <1>2, <1>5 DEF Relies, Idle
<1>12. Site(vg)
  BY <1>4 DEF Site
<1> QED BY <1>10, <1>11, <1>12 DEF Recording

LEMMA RecordingNext ==
  ASSUME Base, Turn, Wide, SasStay, ~FastResync, Recording, [Next]_vars
  PROVE  Recording'
<1>1. ASSUME UNCHANGED vars PROVE Recording'
  BY <1>1, AsideRec DEF vars
<1>2. ASSUME ConfigStep PROVE Recording'
  BY <1>2, StepsRec, WithControlRec DEF ConfigStep
<1> QED BY <1>1, <1>2, IoRequestRec, IodoneRec, ConfigRec DEF Next

(* The invariant of what has been recorded.                                 *)
LEMMA HdVgsaRecording ==
  ASSUME Wide, SasStay, ~FastResync PROVE Spec => [](Base /\ Recording)
<1>1. NoNewDisk
  BY DEF SasStay, NoNewDisk
<1>2. Init => Base /\ Turn /\ Recording
  BY HdVgsaInit, RecordingInit
<1>3. Base /\ Turn /\ Recording /\ [Next]_vars => (Base /\ Turn /\ Recording)'
  BY <1>1, HdVgsaNext, RecordingNext DEF Keeps
<1> QED BY <1>2, <1>3, PTL DEF Spec

LEMMA AddsJoining ==
  ASSUME Base, SasStay, Recording, ~vg.forcedoff
  PROVE  InService = Active(vg) \ Adds(config)
<1>1. config.op \in {"HD_KADDVGSA", "HD_MWC_REC", "HD_KEXTEND", "HD_KREDUCE", "none"}
  BY Types DEF Base, Process, SasStay
<1>2. Joining = Adds(config)
  BY <1>1 DEF Joining, Adds
<1>3. vg.nukesa = {}
  BY DEF Recording, Records
<1> QED BY <1>2, <1>3 DEF InService

(* A partition that hd_stalepp() has handed back as stale is marked in each *)
(* SA in service, whatever became active, hung on another request, was      *)
(* written or failed since: no crash brings its old data back.              *)
THEOREM HdVgsaStaleRecorded ==
  ASSUME Wide, SasStay, ~FastResync
  PROVE  Spec => []StaleRecorded
<1>1. Base /\ Recording => StaleRecorded
  <2>1. SUFFICES ASSUME Base, Recording, ~vg.forcedoff, NEW p \in Pp, NEW s \in InService,
                        Stale(p), ~Changing(p)
                 PROVE  disk[s] # NULL /\ p \in disk[s].stalepp
    BY DEF StaleRecorded
  <2>2. s \in Active(vg) /\ s \notin Adds(config)
    BY <2>1, AddsJoining
  <2>3. Relies(vg, config, disk) /\ OnDisks(vg, ppstate, disk)
    BY <2>1 DEF Recording, Records
  <2>4. disk[s] # NULL
    BY <2>2, <2>3 DEF Relies
  <2> QED BY <2>1, <2>2, <2>3, <2>4 DEF OnDisks, IsStale, IsChanging, Stale, Changing
<1> QED BY <1>1, HdVgsaRecording, PTL

(* When the configuration process is answered, the allocation that it       *)
(* changed and the PV that it entered are on each SA in service and on the  *)
(* SAs that it adds.                                                        *)
THEOREM HdVgsaConfigRecorded ==
  ASSUME Wide, SasStay, ~FastResync
  PROVE  Spec => []ConfigRecorded
<1>1. Base /\ Recording => ConfigRecorded
  <2>1. SUFFICES ASSUME Base, Recording, config.rtn = "ok", ~vg.forcedoff, NEW s \in InService
                 PROVE  /\ disk[s] # NULL
                        /\ disk[s].extpp = vg.vgsa.extpp
                        /\ config.op = "HD_KADDPV" /\ vg.pvstate[config.pv] = "PV_DEFINED" =>
                             config.pv \notin disk[s].pvmissing
    BY DEF ConfigRecorded
  <2>2. s \in Active(vg)
    BY DEF InService
  <2>3. Relies(vg, config, disk)
    BY <2>1 DEF Recording
  <2>4. config.op \in {"HD_KADDVGSA", "HD_MWC_REC", "HD_KEXTEND", "HD_KREDUCE", "none"}
    BY <2>1, Types DEF Base, Process, SasStay
  <2> QED BY <2>1, <2>2, <2>3, <2>4 DEF Relies
<1> QED BY <1>1, HdVgsaRecording, PTL
=============================================================================
