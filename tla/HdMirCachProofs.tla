---------------------------- MODULE HdMirCachProofs ----------------------------
(***************************************************************************)
(* The mirror write consistency cache, for any requests, disks, layout and  *)
(* sizes: where a request is, what the counters of the cache count, that a  *)
(* request on the hold queue has somebody to take it off, and that an       *)
(* acknowledged write never lacks on a copy that a restart takes for good.   *)
(***************************************************************************)
EXTENDS HdMirCach, DataLemmas

(* The requests that are being written to their mirrors.                    *)
InWrite == {r \in Req : writing[r] # NULL}

Flag == {"CA_INFLT", "CA_FULL", "CA_VGACT", "VG_FORCEDOFF"}
MemType ==
  [flags : SUBSET Flag, ca_lst : [1..ca_size -> Entry], ca_hld : Seq(Req), pending_Q : Seq(Req),
   ca_pv : [Pv -> Seq(Req)], ca_freepvw : 0..NPvWait, av_forw : [Req -> Nat], pvwrt : SUBSET Pv,
   ca_inflt_cnt : Nat, cached : SUBSET Req, lb : [Req -> Tg \cup {NULL}]]

(* Who waits for which disk.                                                *)
Waits(c) == {w \in Pv \X Req : w[2] \in Range(c.ca_pv[w[1]])}
WaitsFor(c, r) == {p \in Pv : r \in Range(c.ca_pv[p])}
Waiting(c) == {r \in Req : WaitsFor(c, r) # {}}
Queued(c) == Range(c.pending_Q) \cup Range(c.ca_hld) \cup Waiting(c)

(* A request is at one place only: to be scheduled, held, waiting for the   *)
(* disks or, B, being written; and wherever it is it has its track group.   *)
Places(c, B) ==
  /\ IsInjective(c.pending_Q) /\ IsInjective(c.ca_hld) /\ \A p \in Pv : IsInjective(c.ca_pv[p])
  /\ Range(c.pending_Q) \cap Range(c.ca_hld) = {}
  /\ (Range(c.pending_Q) \cup Range(c.ca_hld)) \cap Waiting(c) = {}
  /\ B \cap Queued(c) = {}
  /\ Range(c.ca_hld) \cap c.cached = {} /\ Waiting(c) \subseteq c.cached
  /\ \A r \in Queued(c) \cup c.cached \cup B : c.lb[r] # NULL

(* iocnt counts the cached requests of a track group, which has one entry;  *)
(* av_forw the disks a request waits for, ca_freepvw what is left.          *)
Users(c, t) == {r \in c.cached : c.lb[r] = t}
Tally(c) ==
  /\ \A i \in 1..ca_size : LET e == c.ca_lst[i] IN
       e.iocnt = IF e.tg = NULL THEN 0 ELSE Cardinality(Users(c, e.tg))
  /\ \A i, j \in 1..ca_size : c.ca_lst[i].tg = c.ca_lst[j].tg /\ c.ca_lst[i].tg # NULL => i = j
  /\ \A r \in c.cached : c.lb[r] \in Image(c)
Tickets(c) ==
  /\ \A r \in Req : c.av_forw[r] = Cardinality(WaitsFor(c, r))
  /\ c.ca_freepvw + Cardinality(Waits(c)) = NPvWait

(* The writes of the record: D are the disks whose cache buffer is in use.  *)
Flow(c, D) ==
  /\ c.ca_inflt_cnt = Cardinality(D)
  /\ D # {} => "CA_INFLT" \in c.flags
  /\ "CA_VGACT" \in c.flags => "CA_INFLT" \notin c.flags
  /\ c.pvwrt # {} => "CA_VGACT" \in c.flags
  /\ \A p \in Pv : c.ca_pv[p] # <<>> => p \in c.pvwrt \cup D

Sound(c, B, D) == c \in MemType /\ Places(c, B) /\ Tally(c) /\ Tickets(c) /\ Flow(c, D)

(* Who takes the requests off the hold queue.                               *)
Moves(c) == c.ca_hld # <<>> =>
  c.flags \cap {"CA_INFLT", "CA_VGACT"} # {} \/ ("CA_FULL" \in c.flags /\ hd_ca_new(c) = {})

(* What a routine leaves alone when it takes the requests along.            *)
Leaves(c, d, B) ==
  /\ d.flags = c.flags /\ d.ca_pv = c.ca_pv /\ d.ca_inflt_cnt = c.ca_inflt_cnt /\ d.pvwrt = c.pvwrt
  /\ \A r \in B : d.lb[r] = c.lb[r]
  /\ \A r \in Req : d.lb[r] \in {c.lb[r], NULL}

(* ... and when it takes requests off the list of a disk.                   *)
Keeps(c, d, B) ==
  /\ d.flags = c.flags /\ d.ca_inflt_cnt = c.ca_inflt_cnt /\ d.pvwrt = c.pvwrt
  /\ \A r \in B : d.lb[r] = c.lb[r]
  /\ \A r \in Req : d.lb[r] \in {c.lb[r], NULL}

(* ... and whenever a request is scheduled.                                 *)
Steady(c, d, B) ==
  /\ \A x \in {"CA_INFLT", "VG_FORCEDOFF"} : x \in d.flags <=> x \in c.flags
  /\ \A r \in B : d.lb[r] = c.lb[r]
  /\ \A r \in Req : d.lb[r] \in {c.lb[r], NULL}

(* The flags become F, and requests may return.                             *)
Follows(c, d, F, B) ==
  /\ d.flags = F
  /\ \A r \in B : d.lb[r] = c.lb[r]
  /\ \A r \in Req : d.lb[r] \in {c.lb[r], NULL}

Busy == {p \in Pv : pv_pbuf[p] # "idle"}

(* The process in hd_ca_clnup or hd_kdis_initmwc, and the driver before the *)
(* volume group is on.                                                      *)
Control ==
  /\ lock \in {"free", "schedule", "blocked"} /\ mode \in {"down", "recover", "up"}
  /\ pv_pbuf \in [Pv -> {"idle", "writing", "wheel"}]
  /\ proc \in {"none", "asleep", "awake", "writing", "written", "initmwc", "cleared"}
  /\ lock = "free" => "CA_VGACT" \notin g.flags
  /\ proc # "none" => "CA_INFLT" \in g.flags
  /\ proc \in {"awake", "written", "cleared"} => Busy = {}
  /\ mode = "up" => proc \notin {"initmwc", "cleared"}
  /\ mode = "recover" => proc \in {"none", "initmwc", "cleared"}
  /\ mode = "down" => proc = "none"
  /\ mode # "up" /\ proc = "none" => "CA_INFLT" \notin g.flags
  /\ mode # "up" => "CA_VGACT" \notin g.flags
  /\ mode # "up" => /\ g.lb = [r \in Req |-> NULL] /\ chging = {}
                    /\ writing = [r \in Req |-> NULL] /\ onwheel = [r \in Req |-> NULL]

(* A write in flight, a request on the wheel, and the staleness that only    *)
(* they make known.                                                         *)
Issued == [live : SUBSET Pv, broken : SUBSET Pv]
OnWheel == [bad : SUBSET Pv, marked : SUBSET Pv, err : BOOLEAN]
MarkedBy(r) ==
  {w \in stale : onwheel[r] # NULL /\ \E p \in onwheel[r].marked : w = <<Part[g.lb[r]], p>>}
Wheel ==
  /\ writing \in [Req -> Issued \cup {NULL}] /\ onwheel \in [Req -> OnWheel \cup {NULL}]
  /\ \A r \in Req : onwheel[r] # NULL => writing[r] # NULL
  /\ missing \subseteq Pv /\ sa_miss \subseteq Pv /\ chging \subseteq stale
  /\ ~ForcedOff(g) => chging \subseteq UNION {MarkedBy(r) : r \in Req}

(* What the VGSAs say.                                                      *)
OnRecord(t, P) == \A p \in P : <<Part[t], p>> \in sa_stale
Recording ==
  /\ count.off = 0 =>
       /\ ~ForcedOff(g)
       /\ mode = "up" => stale \ chging \subseteq sa_stale
       /\ \A w \in behind : <<Part[w[1]], w[2]>> \in sa_stale
       /\ \A r \in InWrite : OnRecord(g.lb[r], Mirrors(g.lb[r]) \ writing[r].live)
       /\ \A r \in Req : onwheel[r] # NULL /\ ~onwheel[r].err =>
            OnRecord(g.lb[r], onwheel[r].bad \ onwheel[r].marked)
  /\ mode = "recover" => sa_stale \subseteq stale
  /\ mode = "recover" /\ proc # "none" => rcv = {} /\ stale = sa_stale

CacheInv == Sound(g, InWrite, Busy) /\ Moves(g)
IInv == CacheInv /\ Control /\ Wheel /\ Recording
Ledger ==
  /\ count \in [issue : Nat, clean : Nat, crash : Nat, return : Nat, off : {0, 1}]
  /\ behind \subseteq Tg \X Pv

-----------------------------------------------------------------------------
(* Sequences and sets.                                                      *)
LEMMA RangePush ==
  ASSUME NEW T, NEW s \in Seq(T), NEW x \in T
  PROVE  /\ <<x>> \o s \in Seq(T)
         /\ Range(<<x>> \o s) = {x} \cup Range(s)
         /\ IsInjective(s) /\ x \notin Range(s) => IsInjective(<<x>> \o s)
<1>1. <<x>> \in Seq(T) /\ Range(<<x>>) = {x} /\ IsInjective(<<x>>)
  BY DEF Range, IsInjective
<1>2. Len(s) \in Nat /\ s \in [1..Len(s) -> T]
  OBVIOUS
<1> HIDE DEF Range, IsInjective
<1>3. /\ <<x>> \o s \in Seq(T)
      /\ Range(<<x>> \o s) = Range(<<x>>) \cup Range(s)
      /\ IsInjective(<<x>>) /\ IsInjective(s) /\ Range(<<x>>) \cap Range(s) = {}
           => IsInjective(<<x>> \o s)
  BY <1>1, <1>2, RangeConcat
<1> QED BY <1>1, <1>3

LEMMA RangeJoin ==
  ASSUME NEW T, NEW s \in Seq(T), NEW u \in Seq(T)
  PROVE  /\ s \o u \in Seq(T)
         /\ Range(s \o u) = Range(s) \cup Range(u)
         /\ IsInjective(s) /\ IsInjective(u) /\ Range(s) \cap Range(u) = {}
              => IsInjective(s \o u)
<1>1. Len(u) \in Nat /\ u \in [1..Len(u) -> T]
  OBVIOUS
<1> QED BY <1>1, RangeConcat

LEMMA RangeEmpty ==
  ASSUME NEW T, NEW s \in Seq(T)
  PROVE  /\ Range(s) \subseteq T
         /\ Range(s) = {} <=> s = <<>>
         /\ IsInjective(<<>>) /\ Range(<<>>) = {}
<1>1. DOMAIN s = 1..Len(s) /\ \A i \in 1..Len(s) : s[i] \in T
  OBVIOUS
<1>2. s # <<>> => 1 \in 1..Len(s)
  OBVIOUS
<1>3. IsInjective(<<>>) /\ Range(<<>>) = {}
  BY DEF IsInjective, Range
<1>4. s # <<>> => s[1] \in Range(s)
  BY <1>1, <1>2 DEF Range
<1>5. Range(s) \subseteq T
  BY <1>1 DEF Range
<1> QED BY <1>3, <1>4, <1>5

(* An entry is taken out of the cache and another put at the head or at the  *)
(* tail: f says which entry of the old list is where.                       *)
Shuffled(L, s, n, i, e, f) ==
  /\ f \in [1..n -> 1..n] /\ \A j, k \in 1..n : f[j] = f[k] => j = k
  /\ \A j \in 1..n : \E k \in 1..n : f[k] = j
  /\ \A k \in 1..n : L[k] = IF f[k] = i THEN e ELSE s[f[k]]

LEMMA Removed ==
  ASSUME NEW T, NEW n \in Nat, NEW s \in [1..n -> T], NEW i \in 1..n
  PROVE  /\ RemoveAt(s, i) \in Seq(T) /\ Len(RemoveAt(s, i)) = n - 1
         /\ \A k \in 1..(n - 1) : RemoveAt(s, i)[k] = IF k < i THEN s[k] ELSE s[k + 1]
<1>1. s \in Seq(T) /\ Len(s) = n
  OBVIOUS
<1>2. /\ SubSeq(s, 1, i - 1) \in Seq(T) /\ Len(SubSeq(s, 1, i - 1)) = i - 1
      /\ \A k \in 1..(i - 1) : SubSeq(s, 1, i - 1)[k] = s[k]
  BY <1>1
<1>3. /\ SubSeq(s, i + 1, n) \in Seq(T) /\ Len(SubSeq(s, i + 1, n)) = n - i
      /\ \A k \in 1..(n - i) : SubSeq(s, i + 1, n)[k] = s[i + k]
  BY <1>1
<1> DEFINE a == SubSeq(s, 1, i - 1)
           b == SubSeq(s, i + 1, n)
<1>4. RemoveAt(s, i) = a \o b
  BY <1>1 DEF RemoveAt
<1> HIDE DEF a, b
<1>5. /\ a \o b \in Seq(T) /\ Len(a \o b) = n - 1
      /\ \A k \in 1..(n - 1) : (a \o b)[k] = IF k < i THEN a[k] ELSE b[k - (i - 1)]
  BY <1>2, <1>3 DEF a, b
<1>6. \A k \in 1..(n - 1) : (a \o b)[k] = IF k < i THEN s[k] ELSE s[k + 1]
  <2>1. SUFFICES ASSUME NEW k \in 1..(n - 1)
                 PROVE  (a \o b)[k] = IF k < i THEN s[k] ELSE s[k + 1]
    OBVIOUS
  <2>2. CASE k < i
    BY <2>2, <1>2, <1>5 DEF a
  <2>3. CASE ~(k < i)
    <3>1. k - (i - 1) \in 1..(n - i) /\ i + (k - (i - 1)) = k + 1
      BY <2>3
    <3>2. b[k - (i - 1)] = s[i + (k - (i - 1))]
      BY <1>3, <3>1 DEF b
    <3> QED BY <2>3, <3>1, <3>2, <1>5
  <2> QED BY <2>2, <2>3
<1> QED BY <1>4, <1>5, <1>6

LEMMA PutFirst ==
  ASSUME NEW T, NEW n \in Nat, NEW s \in [1..n -> T], NEW i \in 1..n, NEW e \in T
  PROVE  /\ <<e>> \o RemoveAt(s, i) \in [1..n -> T]
         /\ \E f : Shuffled(<<e>> \o RemoveAt(s, i), s, n, i, e, f)
<1> DEFINE u == RemoveAt(s, i)
           L == <<e>> \o u
           f == [k \in 1..n |-> IF k = 1 THEN i ELSE IF k - 1 < i THEN k - 1 ELSE k]
<1>1. /\ u \in Seq(T) /\ Len(u) = n - 1
      /\ \A k \in 1..(n - 1) : u[k] = IF k < i THEN s[k] ELSE s[k + 1]
  BY Removed
<1> HIDE DEF u
<1>2. L \in Seq(T) /\ Len(L) = n /\ L[1] = e /\ \A k \in 1..n : k # 1 => L[k] = u[k - 1]
  BY <1>1
<1> HIDE DEF L
<1>3. L \in [1..n -> T]
  BY <1>2
<1>4. f \in [1..n -> 1..n] /\ \A j, k \in 1..n : f[j] = f[k] => j = k
  OBVIOUS
<1>5. \A j \in 1..n : \E k \in 1..n : f[k] = j
  <2>1. SUFFICES ASSUME NEW j \in 1..n PROVE \E k \in 1..n : f[k] = j
    OBVIOUS
  <2>2. CASE j = i
    <3>1. 1 \in 1..n /\ f[1] = j
      BY <2>2
    <3> QED BY <3>1
  <2>3. CASE j < i
    <3>1. j + 1 \in 1..n /\ f[j + 1] = j
      BY <2>3
    <3> QED BY <3>1
  <2>4. CASE j > i
    <3>1. f[j] = j
      BY <2>4
    <3> QED BY <3>1
  <2> QED BY <2>2, <2>3, <2>4
<1>6. \A k \in 1..n : L[k] = IF f[k] = i THEN e ELSE s[f[k]]
  <2>1. SUFFICES ASSUME NEW k \in 1..n PROVE L[k] = IF f[k] = i THEN e ELSE s[f[k]]
    OBVIOUS
  <2>2. CASE k = 1
    BY <2>2, <1>2
  <2>3. CASE k # 1
    <3>1. k - 1 \in 1..(n - 1) /\ L[k] = u[k - 1] /\ f[k] # i
      BY <2>3, <1>2
    <3>2. u[k - 1] = IF k - 1 < i THEN s[k - 1] ELSE s[k - 1 + 1]
      BY <1>1, <3>1
    <3>3. k - 1 + 1 = k
      OBVIOUS
    <3> QED BY <2>3, <3>1, <3>2, <3>3
  <2> QED BY <2>2, <2>3
<1>7. Shuffled(L, s, n, i, e, f)
  <2> HIDE DEF f
  <2> QED BY <1>4, <1>5, <1>6 DEF Shuffled
<1> QED BY <1>3, <1>7 DEF L, u

LEMMA PutLast ==
  ASSUME NEW T, NEW n \in Nat, NEW s \in [1..n -> T], NEW i \in 1..n, NEW e \in T
  PROVE  /\ Append(RemoveAt(s, i), e) \in [1..n -> T]
         /\ \E f : f[n] = i /\ Shuffled(Append(RemoveAt(s, i), e), s, n, i, e, f)
<1> DEFINE u == RemoveAt(s, i)
           L == Append(u, e)
           f == [k \in 1..n |-> IF k = n THEN i ELSE IF k < i THEN k ELSE k + 1]
<1>1. /\ u \in Seq(T) /\ Len(u) = n - 1
      /\ \A k \in 1..(n - 1) : u[k] = IF k < i THEN s[k] ELSE s[k + 1]
  BY Removed
<1> HIDE DEF u
<1>2. L \in Seq(T) /\ Len(L) = n /\ L[n] = e /\ \A k \in 1..n : k # n => L[k] = u[k]
  BY <1>1
<1> HIDE DEF L
<1>3. L \in [1..n -> T]
  BY <1>2
<1>4. f \in [1..n -> 1..n] /\ \A j, k \in 1..n : f[j] = f[k] => j = k
  OBVIOUS
<1>5. \A j \in 1..n : \E k \in 1..n : f[k] = j
  <2>1. SUFFICES ASSUME NEW j \in 1..n PROVE \E k \in 1..n : f[k] = j
    OBVIOUS
  <2>2. CASE j = i
    <3>1. n \in 1..n /\ f[n] = j
      BY <2>2
    <3> QED BY <3>1
  <2>3. CASE j < i
    <3>1. f[j] = j
      BY <2>3
    <3> QED BY <3>1
  <2>4. CASE j > i
    <3>1. j - 1 \in 1..n /\ f[j - 1] = j
      BY <2>4
    <3> QED BY <3>1
  <2> QED BY <2>2, <2>3, <2>4
<1>6. \A k \in 1..n : L[k] = IF f[k] = i THEN e ELSE s[f[k]]
  <2>1. SUFFICES ASSUME NEW k \in 1..n PROVE L[k] = IF f[k] = i THEN e ELSE s[f[k]]
    OBVIOUS
  <2>2. CASE k = n
    BY <2>2, <1>2
  <2>3. CASE k # n
    <3>1. k \in 1..(n - 1) /\ L[k] = u[k] /\ f[k] # i
      BY <2>3, <1>2
    <3> QED BY <2>3, <3>1, <1>1
  <2> QED BY <2>2, <2>3
<1>7. Shuffled(L, s, n, i, e, f)
  <2> HIDE DEF f
  <2> QED BY <1>4, <1>5, <1>6 DEF Shuffled
<1>8. f[n] = i
  OBVIOUS
<1> QED
  <2> HIDE DEF f
  <2> QED BY <1>3, <1>7, <1>8 DEF L, u

-----------------------------------------------------------------------------
(* The entries of the cache.                                                *)
LEMMA CacheFields ==
  ASSUME NEW c \in MemType
  PROVE  /\ c.flags \in SUBSET Flag /\ c.ca_lst \in [1..ca_size -> Entry]
         /\ c.ca_hld \in Seq(Req) /\ c.pending_Q \in Seq(Req) /\ c.ca_pv \in [Pv -> Seq(Req)]
         /\ c.ca_freepvw \in Nat /\ c.ca_freepvw <= NPvWait
         /\ c.av_forw \in [Req -> Nat] /\ c.pvwrt \in SUBSET Pv
         /\ c.ca_inflt_cnt \in Nat /\ c.cached \in SUBSET Req
         /\ c.lb \in [Req -> Tg \cup {NULL}]
BY SizeAssumption DEF MemType

LEMMA EntryFields ==
  ASSUME NEW c \in MemType, NEW i \in 1..ca_size
  PROVE  /\ c.ca_lst[i] \in Entry /\ c.ca_lst[i].tg \in Tg \cup {NULL} /\ c.ca_lst[i].iocnt \in Nat
         /\ c.ca_lst[i].state \in {"CACLEAN", "CACHG", "CANOCHG"}
         /\ c.ca_lst[i] = [tg |-> c.ca_lst[i].tg, state |-> c.ca_lst[i].state,
                           iocnt |-> c.ca_lst[i].iocnt]
<1>1. c.ca_lst[i] \in Entry
  BY CacheFields
<1>2. Cardinality(Req) \in Nat
  BY SizeAssumption, FS_CardinalityType
<1> QED BY <1>1, <1>2 DEF Entry

LEMMA UsersFinite ==
  ASSUME NEW c \in MemType, NEW t
  PROVE  /\ IsFiniteSet(Users(c, t)) /\ Cardinality(Users(c, t)) \in 0..Cardinality(Req)
         /\ Cardinality(Users(c, t)) = 0 <=> Users(c, t) = {}
<1>1. Users(c, t) \in SUBSET Req
  BY CacheFields DEF Users
<1>2. IsFiniteSet(Req) /\ Cardinality(Req) \in Nat
  BY SizeAssumption, FS_CardinalityType
<1>3. IsFiniteSet(Users(c, t)) /\ Cardinality(Users(c, t)) <= Cardinality(Req)
  BY <1>1, <1>2, FS_Subset
<1>4. Cardinality(Users(c, t)) \in Nat
  BY <1>3, FS_CardinalityType
<1>5. Cardinality(Users(c, t)) = 0 <=> Users(c, t) = {}
  BY <1>3, FS_EmptySet
<1> QED BY <1>2, <1>3, <1>4, <1>5

LEMMA InImage ==
  ASSUME NEW c \in MemType, NEW t
  PROVE  /\ t \in Image(c) <=> t # NULL /\ \E i \in 1..ca_size : c.ca_lst[i].tg = t
         /\ t \in Image(c) => /\ EntryOf(c, t) \in 1..ca_size /\ c.ca_lst[EntryOf(c, t)].tg = t
<1>1. t \in Image(c) <=> t # NULL /\ \E i \in 1..ca_size : c.ca_lst[i].tg = t
  BY DEF Image
<1> QED BY <1>1 DEF EntryOf

(* A request more is counted in its entry, which may move, or in one that   *)
(* was not used.                                                            *)
LEMMA TallyUse ==
  ASSUME NEW c \in MemType, Tally(c), NEW d \in MemType, NEW i \in 1..ca_size, NEW f,
         NEW e \in Entry, NEW r \in Req, r \notin c.cached, c.lb[r] # NULL,
         Shuffled(d.ca_lst, c.ca_lst, ca_size, i, e, f),
         d.cached = c.cached \cup {r}, d.lb = c.lb,
         e.tg = c.lb[r], e.iocnt = c.ca_lst[i].iocnt + 1,
         c.ca_lst[i].tg = c.lb[r] \/ (c.ca_lst[i].tg = NULL /\ c.lb[r] \notin Image(c))
  PROVE  Tally(d)
<1> DEFINE t == c.lb[r]
           s == c.ca_lst
           L == d.ca_lst
<1>0. s \in [1..ca_size -> Entry] /\ L \in [1..ca_size -> Entry] /\ t # NULL /\ e.tg = t
  BY CacheFields
<1>1. \A j \in 1..ca_size : j # i => s[j].tg # t
  <2>1. SUFFICES ASSUME NEW j \in 1..ca_size, j # i, s[j].tg = t PROVE FALSE
    OBVIOUS
  <2>2. CASE s[i].tg = t
    BY <2>1, <2>2, <1>0 DEF Tally
  <2>3. CASE t \notin Image(c)
    BY <2>1, <2>3, <1>0, InImage
  <2> QED BY <2>2, <2>3
<1>2. Cardinality(Users(d, t)) = e.iocnt
  <2>1. Users(d, t) = Users(c, t) \cup {r} /\ r \notin Users(c, t)
    BY DEF Users
  <2>2. IsFiniteSet(Users(c, t))
    BY UsersFinite
  <2>3. Cardinality(Users(d, t)) = Cardinality(Users(c, t)) + 1
    BY <2>1, <2>2, FS_AddElement
  <2>4. Cardinality(Users(c, t)) = s[i].iocnt
    <3>1. CASE s[i].tg = t
      BY <3>1, <1>0 DEF Tally
    <3>2. CASE s[i].tg = NULL /\ t \notin Image(c)
      <4>1. Users(c, t) = {}
        BY <3>2 DEF Users, Tally
      <4> QED BY <4>1, <3>2, UsersFinite DEF Tally
    <3> QED BY <3>1, <3>2
  <2> QED BY <2>3, <2>4
<1>3. \A u : u # t => Users(d, u) = Users(c, u)
  BY DEF Users
<1>4. f \in [1..ca_size -> 1..ca_size] /\ \A j, k \in 1..ca_size : f[j] = f[k] => j = k
  BY DEF Shuffled
<1>5. \A j \in 1..ca_size : \E k \in 1..ca_size : f[k] = j
  BY DEF Shuffled
<1>6. \A k \in 1..ca_size : L[k] = IF f[k] = i THEN e ELSE s[f[k]]
  BY DEF Shuffled
<1> HIDE DEF t, s, L
<1>7. \A k \in 1..ca_size : L[k].iocnt = IF L[k].tg = NULL THEN 0 ELSE Cardinality(Users(d, L[k].tg))
  <2>1. SUFFICES ASSUME NEW k \in 1..ca_size
                 PROVE  L[k].iocnt = IF L[k].tg = NULL THEN 0 ELSE Cardinality(Users(d, L[k].tg))
    OBVIOUS
  <2>2. CASE f[k] = i
    BY <2>2, <1>0, <1>2, <1>6
  <2>3. CASE f[k] # i
    <3>1. L[k] = s[f[k]] /\ f[k] \in 1..ca_size
      BY <2>3, <1>4, <1>6
    <3>2. s[f[k]].tg # t
      BY <3>1, <2>3, <1>1
    <3>3. s[f[k]].iocnt = IF s[f[k]].tg = NULL THEN 0 ELSE Cardinality(Users(c, s[f[k]].tg))
      BY <3>1 DEF Tally, s
    <3> QED BY <3>1, <3>2, <3>3, <1>3
  <2> QED BY <2>2, <2>3
<1>8. \A j, k \in 1..ca_size : L[j].tg = L[k].tg /\ L[j].tg # NULL => j = k
  <2>1. SUFFICES ASSUME NEW j \in 1..ca_size, NEW k \in 1..ca_size, L[j].tg = L[k].tg, L[j].tg # NULL
                 PROVE  f[j] = f[k]
    BY <1>4
  <2>2. \A x, y \in 1..ca_size : s[x].tg = s[y].tg /\ s[x].tg # NULL => x = y
    BY DEF Tally, s
  <2> QED BY <2>1, <2>2, <1>0, <1>1, <1>4, <1>6
<1>9. \A q \in d.cached : d.lb[q] \in Image(d)
  <2>1. SUFFICES ASSUME NEW q \in d.cached PROVE d.lb[q] # NULL /\ \E k \in 1..ca_size : L[k].tg = d.lb[q]
    BY InImage DEF L
  <2>2. CASE d.lb[q] = t
    <3>1. PICK k \in 1..ca_size : f[k] = i
      BY <1>5
    <3> QED BY <2>2, <3>1, <1>0, <1>6
  <2>3. CASE d.lb[q] # t
    <3>1. q \in c.cached /\ c.lb[q] = d.lb[q]
      BY <2>3 DEF t
    <3>2. c.lb[q] \in Image(c)
      BY <3>1 DEF Tally
    <3>3. c.lb[q] # NULL /\ \E x \in 1..ca_size : c.ca_lst[x].tg = c.lb[q]
      BY <3>2, InImage
    <3>4. PICK x \in 1..ca_size : s[x].tg = c.lb[q]
      BY <3>3 DEF s
    <3>5. PICK k \in 1..ca_size : f[k] = x
      BY <1>5
    <3>6. CASE x = i
      <4>1. s[i].tg = t \/ s[i].tg = NULL
        BY DEF s, t
      <4> QED BY <4>1, <3>6, <3>4, <3>3, <3>1, <2>3
    <3>7. CASE x # i
      BY <3>7, <3>5, <3>4, <3>3, <3>1, <1>6
    <3> QED BY <3>6, <3>7
  <2> QED BY <2>2, <2>3
<1> QED BY <1>7, <1>8, <1>9 DEF Tally, L

(* The counts do not look at the state of an entry, nor at requests that are *)
(* not cached.                                                              *)
LEMMA TallyFrame ==
  ASSUME NEW c \in MemType, Tally(c), NEW d \in MemType,
         \A i \in 1..ca_size : d.ca_lst[i].tg = c.ca_lst[i].tg /\ d.ca_lst[i].iocnt = c.ca_lst[i].iocnt,
         d.cached = c.cached, \A r \in c.cached : d.lb[r] = c.lb[r]
  PROVE  Tally(d)
<1>1. \A t : Users(d, t) = Users(c, t)
  BY DEF Users
<1>2. Image(d) = Image(c)
  BY DEF Image
<1>3. \A i \in 1..ca_size : d.ca_lst[i].iocnt =
        IF d.ca_lst[i].tg = NULL THEN 0 ELSE Cardinality(Users(d, d.ca_lst[i].tg))
  BY <1>1 DEF Tally
<1>4. \A i, j \in 1..ca_size : d.ca_lst[i].tg = d.ca_lst[j].tg /\ d.ca_lst[i].tg # NULL => i = j
  BY DEF Tally
<1>5. \A r \in d.cached : d.lb[r] \in Image(d)
  BY <1>2 DEF Tally
<1> QED BY <1>3, <1>4, <1>5 DEF Tally

(* An entry without I/O is emptied.                                         *)
LEMMA TallyTake ==
  ASSUME NEW c \in MemType, Tally(c), NEW d \in MemType, NEW i \in 1..ca_size, NEW f,
         c.ca_lst[i].iocnt = 0,
         Shuffled(d.ca_lst, c.ca_lst, ca_size, i, CleanEntry, f),
         d.cached = c.cached, d.lb = c.lb
  PROVE  Tally(d) /\ Image(d) \subseteq Image(c)
<1> DEFINE s == c.ca_lst
           L == d.ca_lst
<1>0. CleanEntry.tg = NULL /\ CleanEntry.iocnt = 0
  BY DEF CleanEntry
<1>3. \A u : Users(d, u) = Users(c, u)
  BY DEF Users
<1>4. f \in [1..ca_size -> 1..ca_size] /\ \A j, k \in 1..ca_size : f[j] = f[k] => j = k
  BY DEF Shuffled
<1>5. \A j \in 1..ca_size : \E k \in 1..ca_size : f[k] = j
  BY DEF Shuffled
<1>6. \A k \in 1..ca_size : L[k] = IF f[k] = i THEN CleanEntry ELSE s[f[k]]
  BY DEF Shuffled
<1>7. \A j \in 1..ca_size : s[j].iocnt = IF s[j].tg = NULL THEN 0 ELSE Cardinality(Users(c, s[j].tg))
  BY DEF Tally
<1>8. \A x, y \in 1..ca_size : s[x].tg = s[y].tg /\ s[x].tg # NULL => x = y
  BY DEF Tally
<1>9. \A t : t \in Image(c) => t # NULL /\ \E x \in 1..ca_size : s[x].tg = t
  BY InImage
<1>10. \A t : t # NULL /\ (\E x \in 1..ca_size : L[x].tg = t) => t \in Image(d)
  BY InImage
<1>11. \A t : t \in Image(d) => t # NULL /\ \E x \in 1..ca_size : L[x].tg = t
  BY InImage
<1>12. \A t : t # NULL /\ (\E x \in 1..ca_size : s[x].tg = t) => t \in Image(c)
  BY InImage
<1>13. \A q \in c.cached : q \in Users(c, c.lb[q]) /\ c.lb[q] \in Image(c)
  BY DEF Users, Tally
<1>14. \A t : Cardinality(Users(c, t)) = 0 => Users(c, t) = {}
  BY UsersFinite
<1>15. s[i].iocnt = 0
  OBVIOUS
<1> HIDE DEF s, L
<1>16. \A k \in 1..ca_size : L[k].iocnt = IF L[k].tg = NULL THEN 0 ELSE Cardinality(Users(d, L[k].tg))
  <2>1. SUFFICES ASSUME NEW k \in 1..ca_size
                 PROVE  L[k].iocnt = IF L[k].tg = NULL THEN 0 ELSE Cardinality(Users(d, L[k].tg))
    OBVIOUS
  <2>2. CASE f[k] = i
    BY <2>2, <1>0, <1>6
  <2>3. CASE f[k] # i
    <3>1. L[k] = s[f[k]] /\ f[k] \in 1..ca_size
      BY <2>3, <1>4, <1>6
    <3> QED BY <3>1, <1>7, <1>3
  <2> QED BY <2>2, <2>3
<1>17. \A j, k \in 1..ca_size : L[j].tg = L[k].tg /\ L[j].tg # NULL => j = k
  BY <1>0, <1>4, <1>6, <1>8
<1>18. \A q \in d.cached : d.lb[q] \in Image(d)
  <2>1. SUFFICES ASSUME NEW q \in c.cached PROVE c.lb[q] \in Image(d)
    OBVIOUS
  <2>2. PICK x \in 1..ca_size : s[x].tg = c.lb[q] /\ c.lb[q] # NULL
    BY <1>9, <1>13
  <2>3. x # i
    BY <2>2, <1>7, <1>13, <1>14, <1>15
  <2>4. PICK k \in 1..ca_size : f[k] = x
    BY <1>5
  <2>5. L[k] = s[x]
    BY <2>3, <2>4, <1>6
  <2> QED BY <2>2, <2>5, <1>10
<1>19. Image(d) \subseteq Image(c)
  <2>1. SUFFICES ASSUME NEW t \in Image(d) PROVE t \in Image(c)
    OBVIOUS
  <2>2. PICK k \in 1..ca_size : L[k].tg = t /\ t # NULL
    BY <1>11
  <2>3. f[k] # i /\ L[k] = s[f[k]] /\ f[k] \in 1..ca_size
    BY <2>2, <1>0, <1>4, <1>6
  <2> QED BY <2>2, <2>3, <1>12
<1>20. Tally(d)
  BY <1>16, <1>17, <1>18 DEF Tally, L
<1> QED BY <1>19, <1>20

(* A cached request returns.                                                *)
LEMMA TallyTerm ==
  ASSUME NEW c \in MemType, Tally(c), NEW d \in MemType, NEW r \in c.cached,
         d.ca_lst = [c.ca_lst EXCEPT ![EntryOf(c, c.lb[r])].iocnt = @ - 1],
         d.cached = c.cached \ {r}, \A q \in c.cached \ {r} : d.lb[q] = c.lb[q]
  PROVE  Tally(d) /\ c.ca_lst[EntryOf(c, c.lb[r])].iocnt \in Nat \ {0}
<1> DEFINE t == c.lb[r]
           i == EntryOf(c, t)
           s == c.ca_lst
           L == d.ca_lst
<1>1. t \in Image(c)
  BY DEF Tally
<1>2. i \in 1..ca_size /\ s[i].tg = t /\ t # NULL
  BY <1>1, InImage
<1>3. s \in [1..ca_size -> Entry] /\ L \in [1..ca_size -> Entry] /\ s[i] \in Entry
  BY <1>2, CacheFields
<1>4. L = [s EXCEPT ![i] = [s[i] EXCEPT !.iocnt = @ - 1]]
  OBVIOUS
<1>5. \A j \in 1..ca_size : s[j].iocnt = IF s[j].tg = NULL THEN 0 ELSE Cardinality(Users(c, s[j].tg))
  BY DEF Tally
<1>6. \A x, y \in 1..ca_size : s[x].tg = s[y].tg /\ s[x].tg # NULL => x = y
  BY DEF Tally
<1>7. \A u : u # t => Users(d, u) = Users(c, u)
  BY DEF Users
<1>8. Users(d, t) = Users(c, t) \ {r} /\ r \in Users(c, t)
  BY DEF Users
<1>9. IsFiniteSet(Users(c, t)) /\ Cardinality(Users(c, t)) \in Nat /\ Cardinality(Users(c, t)) # 0
  BY <1>8, UsersFinite
<1>10. Cardinality(Users(d, t)) = Cardinality(Users(c, t)) - 1
  <2> HIDE DEF t
  <2>1. Cardinality(Users(c, t) \ {r}) = IF r \in Users(c, t) THEN Cardinality(Users(c, t)) - 1
                                                            ELSE Cardinality(Users(c, t))
    BY <1>9, FS_RemoveElement
  <2> QED BY <2>1, <1>8
<1>11. \A j \in 1..ca_size : s[j].tg \in Tg \cup {NULL}
  BY EntryFields
<1>12. \A u : u # NULL /\ (\E x \in 1..ca_size : L[x].tg = u) => u \in Image(d)
  BY InImage
<1>13. \A q \in c.cached : c.lb[q] # NULL /\ \E x \in 1..ca_size : s[x].tg = c.lb[q]
  BY InImage DEF Tally
<1> HIDE DEF t, i, s, L
<1>14. \A j \in 1..ca_size : L[j].tg = s[j].tg /\ L[j].iocnt = IF j = i THEN s[j].iocnt - 1 ELSE s[j].iocnt
  BY <1>3, <1>4 DEF Entry
<1>15. s[i].iocnt = Cardinality(Users(c, t))
  BY <1>2, <1>5
<1>16. \A k \in 1..ca_size : L[k].iocnt = IF L[k].tg = NULL THEN 0 ELSE Cardinality(Users(d, L[k].tg))
  <2>1. SUFFICES ASSUME NEW k \in 1..ca_size
                 PROVE  L[k].iocnt = IF L[k].tg = NULL THEN 0 ELSE Cardinality(Users(d, L[k].tg))
    OBVIOUS
  <2>2. CASE k = i
    BY <2>2, <1>2, <1>10, <1>14, <1>15
  <2>3. CASE k # i
    <3>1. s[k].tg # t
      BY <2>3, <1>2, <1>6
    <3> QED BY <2>3, <3>1, <1>5, <1>7, <1>14
  <2> QED BY <2>2, <2>3
<1>17. \A j, k \in 1..ca_size : L[j].tg = L[k].tg /\ L[j].tg # NULL => j = k
  BY <1>6, <1>14
<1>18. \A q \in d.cached : d.lb[q] \in Image(d)
  BY <1>12, <1>13, <1>14
<1>19. Tally(d)
  BY <1>16, <1>17, <1>18 DEF Tally, L
<1> QED BY <1>9, <1>15, <1>19 DEF s, i, t

-----------------------------------------------------------------------------
(* The waits for the disks.                                                 *)
LEMMA WaitsFinite ==
  ASSUME NEW c \in MemType
  PROVE  /\ IsFiniteSet(Waits(c)) /\ Cardinality(Waits(c)) \in Nat
         /\ \A r \in Req : IsFiniteSet(WaitsFor(c, r)) /\ Cardinality(WaitsFor(c, r)) \in Nat
         /\ \A r \in Req : Cardinality(WaitsFor(c, r)) = 0 <=> WaitsFor(c, r) = {}
         /\ Cardinality(Waits(c)) = 0 <=> Waits(c) = {}
<1>1. IsFiniteSet(Pv \X Req)
  BY SizeAssumption, FS_Product
<1>2. Waits(c) \in SUBSET (Pv \X Req)
  BY DEF Waits
<1>3. IsFiniteSet(Waits(c))
  BY <1>1, <1>2, FS_Subset
<1>4. ASSUME NEW r \in Req
      PROVE  IsFiniteSet(WaitsFor(c, r)) /\ Cardinality(WaitsFor(c, r)) \in Nat
             /\ (Cardinality(WaitsFor(c, r)) = 0 <=> WaitsFor(c, r) = {})
  <2>1. WaitsFor(c, r) \in SUBSET Pv
    BY DEF WaitsFor
  <2>2. IsFiniteSet(WaitsFor(c, r))
    BY <2>1, SizeAssumption, FS_Subset
  <2> QED BY <2>2, FS_CardinalityType, FS_EmptySet
<1>5. Cardinality(Waits(c)) \in Nat /\ (Cardinality(Waits(c)) = 0 <=> Waits(c) = {})
  BY <1>3, FS_CardinalityType, FS_EmptySet
<1> QED BY <1>3, <1>4, <1>5

(* A request is hung on the disks in P.                                     *)
Hung(c, d, r, P) ==
  /\ P \subseteq Pv /\ WaitsFor(c, r) = {}
  /\ \A p \in Pv : d.ca_pv[p] = IF p \in P THEN Append(c.ca_pv[p], r) ELSE c.ca_pv[p]
  /\ d.ca_freepvw = c.ca_freepvw - Cardinality(P)
  /\ \A q \in Req : d.av_forw[q] = IF q = r THEN Cardinality(P) ELSE c.av_forw[q]

LEMMA TicketsQueue ==
  ASSUME NEW c \in MemType, Tickets(c), NEW d \in MemType, NEW r \in Req, NEW P,
         Hung(c, d, r, P)
  PROVE  Tickets(d) /\ \A q \in Req : WaitsFor(d, q) = IF q = r THEN P ELSE WaitsFor(c, q)
<1> USE DEF Hung
<1>1. \A p \in Pv : Range(d.ca_pv[p]) = IF p \in P THEN Range(c.ca_pv[p]) \cup {r} ELSE Range(c.ca_pv[p])
  <2>1. SUFFICES ASSUME NEW p \in Pv
                 PROVE  Range(d.ca_pv[p]) = IF p \in P THEN Range(c.ca_pv[p]) \cup {r} ELSE Range(c.ca_pv[p])
    OBVIOUS
  <2>2. c.ca_pv[p] \in Seq(Req)
    BY CacheFields
  <2>3. Range(Append(c.ca_pv[p], r)) = Range(c.ca_pv[p]) \cup {r}
    BY <2>2, RangeAppend
  <2> QED BY <2>3
<1>2. ASSUME NEW q \in Req PROVE WaitsFor(d, q) = IF q = r THEN P ELSE WaitsFor(c, q)
  BY <1>1 DEF WaitsFor
<1>3. Waits(d) = Waits(c) \cup (P \X {r}) /\ Waits(c) \cap (P \X {r}) = {}
  <2>1. \A p \in Pv : r \notin Range(c.ca_pv[p])
    BY DEF WaitsFor
  <2>2. \A p \in Pv, q \in Req : <<p, q>> \in Waits(c) <=> q \in Range(c.ca_pv[p])
    BY DEF Waits
  <2>3. \A p \in Pv, q \in Req : <<p, q>> \in Waits(d) <=> q \in Range(d.ca_pv[p])
    BY DEF Waits
  <2>4. Waits(c) \subseteq Pv \X Req /\ Waits(d) \subseteq Pv \X Req
    BY DEF Waits
  <2>8. \A p \in Pv, q \in Req : <<p, q>> \in Waits(d) <=> <<p, q>> \in Waits(c) \/ (p \in P /\ q = r)
    BY <1>1, <2>2, <2>3
  <2>5. ASSUME NEW w \in Waits(d) PROVE w \in Waits(c) \cup (P \X {r})
    <3>1. PICK p \in Pv, q \in Req : w = <<p, q>>
      BY <2>4
    <3>2. w \in Waits(c) \/ (p \in P /\ q = r)
      BY <2>8, <3>1
    <3> QED BY <3>1, <3>2
  <2>6. ASSUME NEW w \in Waits(c) \cup (P \X {r}) PROVE w \in Waits(d)
    <3>1. PICK p \in Pv, q \in Req : w = <<p, q>>
      BY <2>4
    <3>2. w \in Waits(c) \/ (p \in P /\ q = r)
      BY <3>1
    <3> QED BY <2>8, <3>1, <3>2
  <2>7. Waits(c) \cap (P \X {r}) = {}
    BY <2>1, <2>2
  <2> QED BY <2>5, <2>6, <2>7
<1>4. IsFiniteSet(P) /\ Cardinality(P) \in Nat
  BY SizeAssumption, FS_Subset, FS_CardinalityType
<1>5. IsFiniteSet(P \X {r}) /\ Cardinality(P \X {r}) = Cardinality(P)
  <2>1. IsFiniteSet({r}) /\ Cardinality({r}) = 1
    BY FS_Singleton
  <2>2. IsFiniteSet(P \X {r}) /\ Cardinality(P \X {r}) = Cardinality(P) * Cardinality({r})
    BY <1>4, <2>1, FS_Product
  <2>3. PICK n \in Nat : n = Cardinality(P)
    BY <1>4
  <2>4. n * 1 = n
    OBVIOUS
  <2> QED BY <2>1, <2>2, <2>3, <2>4
<1>6. Cardinality(Waits(d)) = Cardinality(Waits(c)) + Cardinality(P)
  <2>1. IsFiniteSet(Waits(c)) /\ Cardinality(Waits(c)) \in Nat
    BY WaitsFinite
  <2>2. Cardinality(Waits(c) \cup (P \X {r})) =
          Cardinality(Waits(c)) + Cardinality(P \X {r}) - Cardinality(Waits(c) \cap (P \X {r}))
    BY <2>1, <1>5, FS_Union
  <2>3. Cardinality(Waits(c) \cap (P \X {r})) = 0
    BY <1>3, FS_EmptySet
  <2> QED BY <2>1, <2>2, <2>3, <1>3, <1>4, <1>5
<1>7. d.ca_freepvw + Cardinality(Waits(d)) = NPvWait
  <2>1. Cardinality(Waits(c)) \in Nat /\ c.ca_freepvw \in Nat
    BY WaitsFinite, CacheFields
  <2> QED BY <2>1, <1>4, <1>6, SizeAssumption DEF Tickets
<1>8. \A q \in Req : d.av_forw[q] = Cardinality(WaitsFor(d, q))
  <2>1. c.av_forw \in [Req -> Nat]
    BY CacheFields
  <2> QED BY <2>1, <1>2 DEF Tickets
<1> QED BY <1>2, <1>7, <1>8 DEF Tickets

(* The first request on the list of disk p is taken off it.                 *)
LEMMA TicketsTake ==
  ASSUME NEW c \in MemType, Tickets(c), NEW p \in Pv, c.ca_pv[p] # <<>>, IsInjective(c.ca_pv[p]),
         NEW d, d.ca_pv = [c.ca_pv EXCEPT ![p] = Tail(@)],
         d.ca_freepvw = c.ca_freepvw + 1,
         d.av_forw = [c.av_forw EXCEPT ![Head(c.ca_pv[p])] = @ - 1]
  PROVE  LET r == Head(c.ca_pv[p])
         IN  /\ r \in Req /\ p \in WaitsFor(c, r)
             /\ d.ca_pv \in [Pv -> Seq(Req)] /\ d.ca_freepvw \in 0..NPvWait /\ d.av_forw \in [Req -> Nat]
             /\ IsInjective(d.ca_pv[p])
             /\ Tickets(d)
             /\ \A q \in Req : WaitsFor(d, q) = IF q = r THEN WaitsFor(c, r) \ {p} ELSE WaitsFor(c, q)
<1> DEFINE r == Head(c.ca_pv[p])
           s == c.ca_pv[p]
<1>0. c.ca_pv \in [Pv -> Seq(Req)] /\ s \in Seq(Req) /\ s # <<>>
  BY CacheFields
<1>1. /\ Tail(s) \in Seq(Req) /\ r \in Req /\ Range(s) = {r} \cup Range(Tail(s))
      /\ IsInjective(Tail(s)) /\ r \notin Range(Tail(s))
  <2>1. IsInjective(s)
    OBVIOUS
  <2>2. /\ Tail(s) \in Seq(Req) /\ Head(s) \in Req
        /\ Range(s) = {Head(s)} \cup Range(Tail(s))
        /\ IsInjective(s) => IsInjective(Tail(s)) /\ Head(s) \notin Range(Tail(s))
    <3> HIDE DEF s, r
    <3> QED BY <1>0, RangeTail
  <2> QED BY <2>1, <2>2
<1>2. d.ca_pv \in [Pv -> Seq(Req)] /\ d.ca_pv[p] = Tail(s) /\ \A q \in Pv : q # p => d.ca_pv[q] = c.ca_pv[q]
  BY <1>0, <1>1
<1> HIDE DEF r, s
<1>3. \A x \in Pv : Range(d.ca_pv[x]) = IF x = p THEN Range(s) \ {r} ELSE Range(c.ca_pv[x])
  <2>1. Range(Tail(s)) = Range(s) \ {r}
    BY <1>1
  <2>2. Range(d.ca_pv[p]) = Range(s) \ {r}
    BY <2>1, <1>2, Zenon
  <2>3. ASSUME NEW x \in Pv, x # p PROVE Range(d.ca_pv[x]) = Range(c.ca_pv[x])
    BY <2>3, <1>2, Zenon
  <2> QED BY <2>2, <2>3, Zenon
<1>4. \A q \in Req : WaitsFor(d, q) = IF q = r THEN WaitsFor(c, r) \ {p} ELSE WaitsFor(c, q)
  BY <1>1, <1>3 DEF WaitsFor, s
<1>5. p \in WaitsFor(c, r) /\ <<p, r>> \in Waits(c)
  BY <1>1 DEF WaitsFor, Waits, s
<1>6. Waits(d) = Waits(c) \ {<<p, r>>}
  <2>1. Waits(c) \subseteq Pv \X Req /\ Waits(d) \subseteq Pv \X Req
    BY DEF Waits
  <2>2. \A x \in Pv, q \in Req : <<x, q>> \in Waits(c) <=> q \in Range(c.ca_pv[x])
    BY DEF Waits
  <2>3. \A x \in Pv, q \in Req : <<x, q>> \in Waits(d) <=> q \in Range(d.ca_pv[x])
    BY DEF Waits
  <2>4. \A x \in Pv, q \in Req : <<x, q>> \in Waits(d) <=> <<x, q>> \in Waits(c) \ {<<p, r>>}
    BY <1>3, <2>2, <2>3 DEF s
  <2> QED BY <2>1, <2>4
<1>7. Cardinality(Waits(d)) = Cardinality(Waits(c)) - 1 /\ Cardinality(Waits(c)) \in Nat \ {0}
  <2>1. IsFiniteSet(Waits(c)) /\ Cardinality(Waits(c)) \in Nat /\ Cardinality(Waits(c)) # 0
    BY <1>5, WaitsFinite
  <2>2. Cardinality(Waits(c) \ {<<p, r>>}) = IF <<p, r>> \in Waits(c) THEN Cardinality(Waits(c)) - 1
                                             ELSE Cardinality(Waits(c))
    BY <2>1, FS_RemoveElement
  <2> QED BY <2>1, <2>2, <1>5, <1>6
<1>8. Cardinality(WaitsFor(d, r)) = Cardinality(WaitsFor(c, r)) - 1 /\ Cardinality(WaitsFor(c, r)) \in Nat \ {0}
  <2>1. IsFiniteSet(WaitsFor(c, r)) /\ Cardinality(WaitsFor(c, r)) \in Nat /\ Cardinality(WaitsFor(c, r)) # 0
    BY <1>1, <1>5, WaitsFinite
  <2>2. Cardinality(WaitsFor(c, r) \ {p}) = IF p \in WaitsFor(c, r) THEN Cardinality(WaitsFor(c, r)) - 1
                                            ELSE Cardinality(WaitsFor(c, r))
    BY <2>1, FS_RemoveElement
  <2> QED BY <2>1, <2>2, <1>1, <1>4, <1>5
<1>9. d.ca_freepvw + Cardinality(Waits(d)) = NPvWait /\ d.ca_freepvw \in 0..NPvWait
  <2>1. PICK n \in Nat, a \in Nat : n = Cardinality(Waits(c)) /\ a = c.ca_freepvw
    BY <1>7, CacheFields
  <2>2. a + n = NPvWait /\ n # 0 /\ Cardinality(Waits(d)) = n - 1 /\ d.ca_freepvw = a + 1
    BY <2>1, <1>7 DEF Tickets
  <2>3. (a + 1) + (n - 1) = NPvWait /\ a + 1 \in 0..NPvWait
    BY <2>1, <2>2
  <2> QED BY <2>2, <2>3
<1>10. d.av_forw \in [Req -> Nat] /\ \A q \in Req : d.av_forw[q] = Cardinality(WaitsFor(d, q))
  <2>1. c.av_forw \in [Req -> Nat] /\ d.av_forw = [c.av_forw EXCEPT ![r] = @ - 1]
    BY CacheFields DEF r, s
  <2>2. \A q \in Req : c.av_forw[q] = Cardinality(WaitsFor(c, q))
    BY DEF Tickets
  <2>3. c.av_forw[r] - 1 = Cardinality(WaitsFor(d, r)) /\ c.av_forw[r] - 1 \in Nat
    BY <2>2, <1>1, <1>8
  <2>4. d.av_forw \in [Req -> Nat] /\ d.av_forw[r] = c.av_forw[r] - 1
    BY <2>1, <2>3, <1>1
  <2>5. ASSUME NEW q \in Req, q # r PROVE d.av_forw[q] = Cardinality(WaitsFor(d, q))
    BY <2>1, <2>2, <2>5, <1>4
  <2> QED BY <2>3, <2>4, <2>5
<1> QED BY <1>1, <1>2, <1>4, <1>5, <1>9, <1>10 DEF Tickets, r, s

-----------------------------------------------------------------------------
(* The hold queue.                                                          *)
LEMMA QueuedIn ==
  ASSUME NEW c \in MemType
  PROVE  /\ Range(c.pending_Q) \subseteq Req /\ Range(c.ca_hld) \subseteq Req /\ Waiting(c) \subseteq Req
         /\ \A p \in Pv : Range(c.ca_pv[p]) \subseteq Waiting(c)
         /\ \A r \in Waiting(c) : c.av_forw[r] = Cardinality(WaitsFor(c, r)) => c.av_forw[r] \in Nat \ {0}
<1>1. Range(c.pending_Q) \subseteq Req /\ Range(c.ca_hld) \subseteq Req
  BY CacheFields, RangeEmpty
<1>2. Waiting(c) \subseteq Req
  BY DEF Waiting
<1>3. ASSUME NEW p \in Pv PROVE Range(c.ca_pv[p]) \subseteq Waiting(c)
  <2>1. c.ca_pv[p] \in Seq(Req)
    BY CacheFields
  <2>2. Range(c.ca_pv[p]) \subseteq Req
    BY <2>1, RangeEmpty
  <2> QED BY <2>2 DEF Waiting, WaitsFor
<1>4. \A r \in Waiting(c) : c.av_forw[r] = Cardinality(WaitsFor(c, r)) => c.av_forw[r] \in Nat \ {0}
  BY <1>2, WaitsFinite DEF Waiting
<1> QED BY <1>1, <1>2, <1>3, <1>4

LEMMA MvHeld ==
  ASSUME NEW c, NEW B \in SUBSET Req, NEW D, Sound(c, B, D)
  PROVE  LET d == hd_ca_mvhld(c)
         IN  /\ Sound(d, B, D) /\ d.ca_hld = <<>> /\ Leaves(c, d, B)
             /\ d.ca_lst = c.ca_lst /\ d.cached = c.cached
             /\ Queued(d) \subseteq Queued(c) /\ Waiting(d) = Waiting(c)
             /\ \A r \in Req : r \notin Queued(c) => d.lb[r] = c.lb[r]
<1> DEFINE d == hd_ca_mvhld(c)
           lb == [r \in Req |-> IF r \in Range(c.ca_hld) THEN NULL ELSE c.lb[r]]
           Q == c.pending_Q \o c.ca_hld
<1>0. c \in MemType
  BY DEF Sound
<1>1. /\ c.ca_hld \in Seq(Req) /\ c.pending_Q \in Seq(Req) /\ c.lb \in [Req -> Tg \cup {NULL}]
      /\ c.cached \in SUBSET Req /\ Range(c.ca_hld) \subseteq Req
  BY <1>0, CacheFields, QueuedIn
<1>2. lb \in [Req -> Tg \cup {NULL}]
  BY <1>1
<1>3. IsInjective(c.pending_Q) /\ IsInjective(c.ca_hld) /\ Range(c.pending_Q) \cap Range(c.ca_hld) = {}
  BY DEF Sound, Places
<1>4. Q \in Seq(Req) /\ Range(Q) = Range(c.pending_Q) \cup Range(c.ca_hld) /\ IsInjective(Q)
  BY <1>1, <1>3, RangeJoin
<1>5. <<>> \in Seq(Req) /\ Range(<<>>) = {} /\ IsInjective(<<>>)
  <2>1. <<>> \in Seq(Req)
    OBVIOUS
  <2> QED BY <2>1, RangeEmpty
<1>6. d = IF ForcedOff(c) THEN [c EXCEPT !.ca_hld = <<>>, !.lb = lb]
          ELSE [c EXCEPT !.pending_Q = Q, !.ca_hld = <<>>]
  BY DEF hd_ca_mvhld
<1> HIDE DEF d, lb, Q
<1>7. /\ d.flags = c.flags /\ d.ca_lst = c.ca_lst /\ d.ca_pv = c.ca_pv /\ d.ca_freepvw = c.ca_freepvw
      /\ d.av_forw = c.av_forw /\ d.pvwrt = c.pvwrt /\ d.ca_inflt_cnt = c.ca_inflt_cnt
      /\ d.cached = c.cached /\ d.ca_hld = <<>>
      /\ d.pending_Q = IF ForcedOff(c) THEN c.pending_Q ELSE Q
      /\ d.lb = IF ForcedOff(c) THEN lb ELSE c.lb
  BY <1>0, <1>6 DEF MemType
<1>8. d \in MemType
  BY <1>0, <1>2, <1>4, <1>5, <1>6 DEF MemType
<1>9. \A r \in Req : WaitsFor(d, r) = WaitsFor(c, r)
  BY <1>7 DEF WaitsFor
<1>10. Waiting(d) = Waiting(c)
  BY <1>9 DEF Waiting
<1>11. Range(d.pending_Q) \subseteq Range(c.pending_Q) \cup Range(c.ca_hld) /\ Range(d.ca_hld) = {}
  BY <1>4, <1>5, <1>7
<1>12. Queued(d) \subseteq Queued(c)
  BY <1>10, <1>11 DEF Queued
<1>13. Range(c.ca_hld) \subseteq Queued(c) /\ Range(c.ca_hld) \cap c.cached = {} /\ B \cap Queued(c) = {}
  BY DEF Sound, Places, Queued
<1>14. \A r \in Req : r \notin Range(c.ca_hld) => d.lb[r] = c.lb[r]
  BY <1>7 DEF lb
<1>15. Tally(d)
  <2>1. Tally(c)
    BY DEF Sound
  <2> QED BY <2>1, <1>0, <1>1, <1>7, <1>8, <1>13, <1>14, TallyFrame
<1>16. Tickets(d)
  <2>1. Waits(d) = Waits(c)
    BY <1>7 DEF Waits
  <2> QED BY <2>1, <1>7, <1>9 DEF Sound, Tickets
<1>17. Flow(d, D)
  BY <1>7 DEF Sound, Flow
<1>18. Places(d, B)
  <2>1. IsInjective(d.pending_Q) /\ IsInjective(d.ca_hld) /\ \A p \in Pv : IsInjective(d.ca_pv[p])
    BY <1>3, <1>4, <1>5, <1>7 DEF Sound, Places
  <2>2. (Range(d.pending_Q) \cup Range(d.ca_hld)) \cap Waiting(d) = {}
    BY <1>10, <1>11 DEF Sound, Places
  <2>3. B \cap Queued(d) = {}
    BY <1>12, <1>13
  <2>4. Waiting(d) \subseteq d.cached
    BY <1>7, <1>10 DEF Sound, Places
  <2>5. \A r \in Queued(d) \cup d.cached \cup B : d.lb[r] # NULL
    <3>1. \A r \in Queued(c) \cup c.cached \cup B : c.lb[r] # NULL
      BY DEF Sound, Places
    <3>2. CASE ForcedOff(c)
      <4>1. Queued(d) \cap Range(c.ca_hld) = {}
        BY <3>2, <1>3, <1>7, <1>10, <1>11 DEF Queued, Sound, Places
      <4>2. Queued(d) \subseteq Req
        BY <1>0, <1>12, QueuedIn DEF Queued
      <4> QED BY <4>1, <4>2, <3>1, <1>1, <1>7, <1>12, <1>13, <1>14
    <3>3. CASE ~ForcedOff(c)
      BY <3>3, <3>1, <1>7, <1>12
    <3> QED BY <3>2, <3>3
  <2> QED BY <2>1, <2>2, <2>3, <2>4, <2>5, <1>11 DEF Places
<1>19. Leaves(c, d, B)
  <2>1. \A r \in B : d.lb[r] = c.lb[r]
    BY <1>13, <1>14
  <2>2. \A r \in Req : d.lb[r] \in {c.lb[r], NULL}
    BY <1>7 DEF lb
  <2> QED BY <2>1, <2>2, <1>7 DEF Leaves
<1>20. \A r \in Req : r \notin Queued(c) => d.lb[r] = c.lb[r]
  BY <1>13, <1>14
<1>21. Sound(d, B, D)
  BY <1>8, <1>15, <1>16, <1>17, <1>18 DEF Sound
<1> QED BY <1>7, <1>10, <1>12, <1>19, <1>20, <1>21 DEF d

(* A cached request gives up its entry (hd_ca_term).                        *)
LEMMA Term ==
  ASSUME NEW c, NEW B \in SUBSET Req, NEW D, Sound(c, B, D), Moves(c),
         NEW r \in c.cached, r \notin Queued(c)
  PROVE  LET d == hd_ca_term(c, r)
         IN  /\ Sound(d, B, D) /\ Moves(d) /\ Leaves(c, d, B) /\ d.cached = c.cached \ {r}
             /\ Queued(d) \subseteq Queued(c) /\ Waiting(d) = Waiting(c)
<1> DEFINE i == EntryOf(c, c.lb[r])
           L == [c.ca_lst EXCEPT ![i].iocnt = @ - 1]
           done == [c EXCEPT !.ca_lst = L, !.cached = @ \ {r}]
<1>0. c \in MemType /\ Tally(c)
  BY DEF Sound
<1>1. c.ca_lst \in [1..ca_size -> Entry] /\ c.cached \in SUBSET Req
  BY <1>0, CacheFields
<1>2. c.lb[r] \in Image(c)
  BY <1>0 DEF Tally
<1>3. i \in 1..ca_size /\ c.ca_lst[i].tg = c.lb[r] /\ c.lb[r] # NULL
  BY <1>0, <1>2, InImage
<1>4. c.ca_lst[i].iocnt = Cardinality(Users(c, c.lb[r])) /\ r \in Users(c, c.lb[r])
  BY <1>0, <1>3 DEF Tally, Users
<1>5. c.ca_lst[i].iocnt \in 1..Cardinality(Req)
  <2>1. Cardinality(Users(c, c.lb[r])) \in 0..Cardinality(Req) /\ Cardinality(Users(c, c.lb[r])) # 0
    BY <1>0, <1>4, UsersFinite
  <2>2. PICK n \in Nat : n = Cardinality(Req)
    BY SizeAssumption, FS_CardinalityType
  <2> QED BY <2>1, <2>2, <1>4
<1>6. L \in [1..ca_size -> Entry]
  <2>1. L = [c.ca_lst EXCEPT ![i] = [c.ca_lst[i] EXCEPT !.iocnt = @ - 1]]
    BY <1>1, <1>3
  <2>2. c.ca_lst[i] \in Entry
    BY <1>1, <1>3
  <2>3. PICK n \in Nat : n = Cardinality(Req)
    BY SizeAssumption, FS_CardinalityType
  <2>4. c.ca_lst[i].iocnt - 1 \in 0..n
    BY <1>5, <2>3
  <2>5. [c.ca_lst[i] EXCEPT !.iocnt = @ - 1] \in Entry
    BY <2>2, <2>3, <2>4 DEF Entry
  <2> QED BY <2>1, <2>5, <1>1
<1>7. hd_ca_term(c, r) = IF done.ca_lst[i].iocnt = 0 /\ "CA_INFLT" \notin c.flags /\ "CA_FULL" \in c.flags
                         THEN hd_ca_mvhld(done) ELSE done
  BY DEF hd_ca_term
<1>8. L = [c.ca_lst EXCEPT ![EntryOf(c, c.lb[r])].iocnt = @ - 1]
  OBVIOUS
<1>9. \A j \in 1..ca_size : j # i => L[j] = c.ca_lst[j]
  BY <1>1
<1> HIDE DEF L, i
<1>10. /\ done.flags = c.flags /\ done.ca_lst = L /\ done.ca_pv = c.ca_pv /\ done.ca_freepvw = c.ca_freepvw
       /\ done.av_forw = c.av_forw /\ done.pvwrt = c.pvwrt /\ done.ca_inflt_cnt = c.ca_inflt_cnt
       /\ done.cached = c.cached \ {r} /\ done.ca_hld = c.ca_hld
       /\ done.pending_Q = c.pending_Q /\ done.lb = c.lb
  BY <1>0 DEF MemType
<1>11. done \in MemType
  BY <1>0, <1>1, <1>6 DEF MemType
<1> HIDE DEF done
<1>12. Tally(done)
  BY <1>0, <1>8, <1>10, <1>11, TallyTerm
<1>13. WaitsFor(done, r) = WaitsFor(c, r) /\ Waits(done) = Waits(c) /\ Waiting(done) = Waiting(c)
       /\ \A q \in Req : WaitsFor(done, q) = WaitsFor(c, q)
  BY <1>10 DEF WaitsFor, Waits, Waiting
<1>14. Tickets(done)
  BY <1>10, <1>13 DEF Sound, Tickets
<1>15. Flow(done, D)
  BY <1>10 DEF Sound, Flow
<1>16. Queued(done) = Queued(c)
  BY <1>10, <1>13 DEF Queued
<1>17. Places(done, B)
  <2>1. Waiting(done) \subseteq done.cached
    BY <1>10, <1>13 DEF Sound, Places, Queued
  <2> QED BY <2>1, <1>10, <1>13, <1>16 DEF Sound, Places
<1>18. Sound(done, B, D)
  BY <1>11, <1>12, <1>14, <1>15, <1>17 DEF Sound
<1>19. CASE done.ca_lst[i].iocnt = 0 /\ "CA_INFLT" \notin c.flags /\ "CA_FULL" \in c.flags
  <2> DEFINE d == hd_ca_mvhld(done)
  <2>1. /\ Sound(d, B, D) /\ d.ca_hld = <<>> /\ Leaves(done, d, B)
        /\ d.ca_lst = done.ca_lst /\ d.cached = done.cached
        /\ Queued(d) \subseteq Queued(done) /\ Waiting(d) = Waiting(done)
    BY <1>18, MvHeld
  <2>2. hd_ca_term(c, r) = d
    BY <1>7, <1>19
  <2> HIDE DEF d
  <2>3. Leaves(c, d, B)
    BY <2>1, <1>10 DEF Leaves
  <2>4. Moves(d)
    BY <2>1 DEF Moves
  <2> QED BY <2>1, <2>2, <2>3, <2>4, <1>10, <1>13, <1>16
<1>20. CASE ~(done.ca_lst[i].iocnt = 0 /\ "CA_INFLT" \notin c.flags /\ "CA_FULL" \in c.flags)
  <2>1. hd_ca_term(c, r) = done
    BY <1>7, <1>20
  <2>2. Leaves(c, done, B)
    <3>1. c.lb \in [Req -> Tg \cup {NULL}]
      BY <1>0, CacheFields
    <3> QED BY <3>1, <1>10 DEF Leaves
  <2>3. Moves(done)
    <3>1. CASE done.ca_lst[i].iocnt = 0 /\ "CA_INFLT" \notin c.flags
      BY <3>1, <1>20, <1>10 DEF Moves
    <3>2. CASE "CA_INFLT" \in c.flags
      BY <3>2, <1>10 DEF Moves
    <3>3. CASE done.ca_lst[i].iocnt # 0
      <4>1. hd_ca_new(c) = {} => hd_ca_new(done) = {}
        BY <3>3, <1>9, <1>10 DEF hd_ca_new
      <4> QED BY <4>1, <1>10 DEF Moves
    <3> QED BY <3>1, <3>2, <3>3
  <2> QED BY <2>1, <2>2, <2>3, <1>10, <1>13, <1>16, <1>18
<1> QED BY <1>19, <1>20

(* A request is returned: it is nowhere any more.                           *)
LEMMA Gone ==
  ASSUME NEW c, NEW B \in SUBSET Req, NEW D, Sound(c, B, D), Moves(c),
         NEW r \in Req, r \notin Queued(c), r \notin c.cached
  PROVE  LET d == [c EXCEPT !.lb[r] = NULL]
         IN  /\ Sound(d, B \ {r}, D) /\ Moves(d) /\ Leaves(c, d, B \ {r}) /\ d.lb[r] = NULL
             /\ Queued(d) = Queued(c) /\ Waiting(d) = Waiting(c) /\ d.cached = c.cached
<1> DEFINE lb == [c.lb EXCEPT ![r] = NULL]
           d == [c EXCEPT !.lb = lb]
<1>0. c \in MemType /\ c.lb \in [Req -> Tg \cup {NULL}] /\ c.cached \in SUBSET Req
  BY CacheFields DEF Sound
<1>1. lb \in [Req -> Tg \cup {NULL}] /\ lb[r] = NULL /\ \A q \in Req : q # r => lb[q] = c.lb[q]
  BY <1>0
<1>2. [c EXCEPT !.lb[r] = NULL] = d
  OBVIOUS
<1> HIDE DEF lb
<1>3. /\ d.flags = c.flags /\ d.ca_lst = c.ca_lst /\ d.ca_pv = c.ca_pv /\ d.ca_freepvw = c.ca_freepvw
      /\ d.av_forw = c.av_forw /\ d.pvwrt = c.pvwrt /\ d.ca_inflt_cnt = c.ca_inflt_cnt
      /\ d.cached = c.cached /\ d.ca_hld = c.ca_hld
      /\ d.pending_Q = c.pending_Q /\ d.lb = lb
  BY <1>0 DEF MemType
<1>4. d \in MemType
  BY <1>0, <1>1 DEF MemType
<1> HIDE DEF d
<1>5. Waits(d) = Waits(c) /\ Waiting(d) = Waiting(c) /\ \A q \in Req : WaitsFor(d, q) = WaitsFor(c, q)
  BY <1>3 DEF WaitsFor, Waits, Waiting
<1>6. Queued(d) = Queued(c)
  BY <1>3, <1>5 DEF Queued
<1>7. Tally(d)
  BY <1>0, <1>1, <1>3, <1>4, TallyFrame DEF Sound
<1>8. Tickets(d) /\ Flow(d, D)
  BY <1>3, <1>5 DEF Sound, Tickets, Flow
<1>9. Places(d, B \ {r})
  <2>1. \A q \in Queued(d) \cup d.cached \cup (B \ {r}) : d.lb[q] # NULL
    <3>1. \A q \in Queued(c) \cup c.cached \cup B : c.lb[q] # NULL
      BY DEF Sound, Places
    <3>2. Queued(c) \subseteq Req
      BY <1>0, QueuedIn DEF Queued
    <3> QED BY <3>1, <3>2, <1>0, <1>1, <1>3, <1>6
  <2> QED BY <2>1, <1>3, <1>5, <1>6 DEF Sound, Places
<1>10. Moves(d)
  BY <1>3 DEF Moves, hd_ca_new
<1>11. Leaves(c, d, B \ {r})
  BY <1>1, <1>3 DEF Leaves
<1> QED BY <1>1, <1>2, <1>3, <1>4, <1>5, <1>6, <1>7, <1>8, <1>9, <1>10, <1>11 DEF Sound

LEMMA ReturnedOK ==
  ASSUME NEW c, NEW B \in SUBSET Req, NEW D, Sound(c, B, D), Moves(c),
         NEW r \in Req, r \notin Queued(c)
  PROVE  LET d == Returned(c, r)
         IN  /\ Sound(d, B \ {r}, D) /\ Moves(d) /\ Leaves(c, d, B \ {r}) /\ d.lb[r] = NULL
             /\ Queued(d) \subseteq Queued(c) /\ Waiting(d) = Waiting(c)
<1> DEFINE e == IF r \in c.cached THEN hd_ca_term(c, r) ELSE c
           d == [e EXCEPT !.lb[r] = NULL]
<1>1. /\ Sound(e, B, D) /\ Moves(e) /\ Leaves(c, e, B) /\ r \notin e.cached
      /\ Queued(e) \subseteq Queued(c) /\ Waiting(e) = Waiting(c)
  <2>1. CASE r \in c.cached
    BY <2>1, Term
  <2>2. CASE r \notin c.cached
    <3>1. c.lb \in [Req -> Tg \cup {NULL}]
      BY CacheFields DEF Sound
    <3>2. Leaves(c, c, B)
      BY <3>1 DEF Leaves
    <3> QED BY <2>2, <3>2
  <2> QED BY <2>1, <2>2
<1>2. Returned(c, r) = d
  BY DEF Returned
<1> HIDE DEF e
<1>3. /\ Sound(d, B \ {r}, D) /\ Moves(d) /\ Leaves(e, d, B \ {r}) /\ d.lb[r] = NULL
      /\ Queued(d) = Queued(e) /\ Waiting(d) = Waiting(e)
  BY <1>1, Gone
<1> HIDE DEF d
<1>4. Leaves(c, d, B \ {r})
  BY <1>1, <1>3 DEF Leaves
<1> QED BY <1>1, <1>2, <1>3, <1>4

-----------------------------------------------------------------------------
(* The queue of the scheduler.                                              *)
LEMMA Enqueue ==
  ASSUME NEW c, NEW B \in SUBSET Req, NEW D, Sound(c, B, D), Moves(c),
         NEW r \in Req, r \notin Queued(c), r \notin B, c.lb[r] # NULL,
         NEW Q \in Seq(Req), Range(Q) = {r} \cup Range(c.pending_Q), IsInjective(Q)
  PROVE  LET d == [c EXCEPT !.pending_Q = Q]
         IN  Sound(d, B, D) /\ Moves(d) /\ Leaves(c, d, B) /\ d.lb = c.lb /\ d.cached = c.cached
<1> DEFINE d == [c EXCEPT !.pending_Q = Q]
<1>0. c \in MemType /\ c.lb \in [Req -> Tg \cup {NULL}]
  BY CacheFields DEF Sound
<1>3. /\ d.flags = c.flags /\ d.ca_lst = c.ca_lst /\ d.ca_pv = c.ca_pv /\ d.ca_freepvw = c.ca_freepvw
      /\ d.av_forw = c.av_forw /\ d.pvwrt = c.pvwrt /\ d.ca_inflt_cnt = c.ca_inflt_cnt
      /\ d.cached = c.cached /\ d.ca_hld = c.ca_hld
      /\ d.pending_Q = Q /\ d.lb = c.lb
  BY <1>0 DEF MemType
<1>4. d \in MemType
  BY <1>0 DEF MemType
<1> HIDE DEF d
<1>5. Waits(d) = Waits(c) /\ Waiting(d) = Waiting(c) /\ \A q \in Req : WaitsFor(d, q) = WaitsFor(c, q)
  BY <1>3 DEF WaitsFor, Waits, Waiting
<1>6. Queued(d) = Queued(c) \cup {r}
  BY <1>3, <1>5 DEF Queued
<1>7. Tally(d)
  <2>1. Tally(c)
    BY DEF Sound
  <2> QED BY <2>1, <1>0, <1>3, <1>4, TallyFrame
<1>8. Tickets(d) /\ Flow(d, D)
  BY <1>3, <1>5 DEF Sound, Tickets, Flow
<1>9. Places(d, B)
  <2>1. \A q \in Queued(d) \cup d.cached \cup B : d.lb[q] # NULL
    BY <1>3, <1>6 DEF Sound, Places
  <2>2. B \cap Queued(d) = {}
    BY <1>6 DEF Sound, Places
  <2>3. r \notin Range(c.ca_hld) /\ r \notin Waiting(c)
    BY DEF Queued
  <2> QED BY <2>1, <2>2, <2>3, <1>3, <1>5 DEF Sound, Places
<1>10. Moves(d)
  BY <1>3 DEF Moves, hd_ca_new
<1>11. Leaves(c, d, B)
  BY <1>0, <1>3 DEF Leaves
<1> QED BY <1>3, <1>4, <1>7, <1>8, <1>9, <1>10, <1>11 DEF Sound, d

LEMMA Dequeue ==
  ASSUME NEW c, NEW B \in SUBSET Req, NEW D, Sound(c, B, D), Moves(c), c.pending_Q # <<>>
  PROVE  LET d == [c EXCEPT !.pending_Q = Tail(@)]
             r == Head(c.pending_Q)
         IN  /\ Sound(d, B, D) /\ Moves(d) /\ Leaves(c, d, B) /\ d.lb = c.lb /\ d.cached = c.cached
             /\ r \in Req /\ r \notin Queued(d) /\ r \notin B /\ d.lb[r] \in Tg /\ d.lb[r] # NULL
<1> DEFINE Q == Tail(c.pending_Q)
           d == [c EXCEPT !.pending_Q = Q]
           r == Head(c.pending_Q)
<1>0. c \in MemType /\ c.lb \in [Req -> Tg \cup {NULL}] /\ c.pending_Q \in Seq(Req)
  BY CacheFields DEF Sound
<1>1. /\ Q \in Seq(Req) /\ r \in Req /\ Range(c.pending_Q) = {r} \cup Range(Q)
      /\ IsInjective(Q) /\ r \notin Range(Q)
  BY <1>0, RangeTail DEF Sound, Places
<1>2. [c EXCEPT !.pending_Q = Tail(@)] = d
  OBVIOUS
<1> HIDE DEF Q, r
<1>3. /\ d.flags = c.flags /\ d.ca_lst = c.ca_lst /\ d.ca_pv = c.ca_pv /\ d.ca_freepvw = c.ca_freepvw
      /\ d.av_forw = c.av_forw /\ d.pvwrt = c.pvwrt /\ d.ca_inflt_cnt = c.ca_inflt_cnt
      /\ d.cached = c.cached /\ d.ca_hld = c.ca_hld
      /\ d.pending_Q = Q /\ d.lb = c.lb
  BY <1>0 DEF MemType
<1>4. d \in MemType
  BY <1>0, <1>1 DEF MemType
<1> HIDE DEF d
<1>5. Waits(d) = Waits(c) /\ Waiting(d) = Waiting(c) /\ \A q \in Req : WaitsFor(d, q) = WaitsFor(c, q)
  BY <1>3 DEF WaitsFor, Waits, Waiting
<1>6. Queued(c) = Queued(d) \cup {r} /\ r \notin Queued(d)
  <2>1. r \notin Range(c.ca_hld) /\ r \notin Waiting(c)
    BY <1>1 DEF Sound, Places
  <2> QED BY <2>1, <1>1, <1>3, <1>5 DEF Queued
<1>7. Tally(d)
  <2>1. Tally(c)
    BY DEF Sound
  <2> QED BY <2>1, <1>0, <1>3, <1>4, TallyFrame
<1>8. Tickets(d) /\ Flow(d, D)
  BY <1>3, <1>5 DEF Sound, Tickets, Flow
<1>9. Places(d, B)
  BY <1>1, <1>3, <1>5, <1>6 DEF Sound, Places
<1>10. Moves(d)
  BY <1>3 DEF Moves, hd_ca_new
<1>11. Leaves(c, d, B)
  BY <1>0, <1>3 DEF Leaves
<1>12. r \notin B /\ c.lb[r] # NULL /\ c.lb[r] \in Tg
  BY <1>0, <1>1, <1>6 DEF Sound, Places
<1> QED BY <1>1, <1>2, <1>3, <1>4, <1>6, <1>7, <1>8, <1>9, <1>10, <1>11, <1>12 DEF Sound, r

-----------------------------------------------------------------------------
(* The clean entries form the tail of the list.                             *)
Entries(c) ==
  /\ \A i \in 1..ca_size : c.ca_lst[i].tg = NULL <=> c.ca_lst[i].state = "CACLEAN"
  /\ \A i, j \in 1..ca_size : i < j /\ c.ca_lst[i].tg = NULL => c.ca_lst[j].tg = NULL

(* What a routine does to the cache that only moves entries, cleans them    *)
(* and lets requests go: those that waited, at most for the disks of X.     *)
Same(e, f) == e.tg = f.tg /\ e.state = f.state
Eases(c, d, X) ==
  /\ "CA_VGACT" \in d.flags <=> "CA_VGACT" \in c.flags
  /\ d.pvwrt = c.pvwrt
  /\ \A r \in d.cached : r \in c.cached /\ d.lb[r] = c.lb[r]
  /\ \A r \in Req : WaitsFor(c, r) \ X \subseteq WaitsFor(d, r) /\ WaitsFor(d, r) \subseteq WaitsFor(c, r)
  /\ \A i \in 1..ca_size : Same(d.ca_lst[i], CleanEntry) \/ \E j \in 1..ca_size : Same(d.ca_lst[i], c.ca_lst[j])
  /\ Entries(c) => Entries(d)

LEMMA EasesTrans ==
  ASSUME NEW c, NEW d, NEW e, NEW X, Eases(c, d, X), Eases(d, e, X)
  PROVE  Eases(c, e, X)
<1>1. ASSUME NEW i \in 1..ca_size
      PROVE  Same(e.ca_lst[i], CleanEntry) \/ \E j \in 1..ca_size : Same(e.ca_lst[i], c.ca_lst[j])
  <2>1. CASE Same(e.ca_lst[i], CleanEntry)
    BY <2>1
  <2>2. CASE ~Same(e.ca_lst[i], CleanEntry)
    <3>1. PICK k \in 1..ca_size : Same(e.ca_lst[i], d.ca_lst[k])
      BY <2>2 DEF Eases
    <3>2. Same(d.ca_lst[k], CleanEntry) \/ \E j \in 1..ca_size : Same(d.ca_lst[k], c.ca_lst[j])
      BY DEF Eases
    <3> QED BY <3>1, <3>2 DEF Same
  <2> QED BY <2>1, <2>2
<1>2. ASSUME NEW r \in Req
      PROVE WaitsFor(c, r) \ X \subseteq WaitsFor(e, r) /\ WaitsFor(e, r) \subseteq WaitsFor(c, r)
  <2>1. WaitsFor(c, r) \ X \subseteq WaitsFor(d, r) /\ WaitsFor(d, r) \subseteq WaitsFor(c, r)
    BY DEF Eases
  <2>2. WaitsFor(d, r) \ X \subseteq WaitsFor(e, r) /\ WaitsFor(e, r) \subseteq WaitsFor(d, r)
    BY DEF Eases
  <2> QED BY <2>1, <2>2
<1>3. \A r \in e.cached : r \in c.cached /\ e.lb[r] = c.lb[r]
  BY DEF Eases
<1>4. (Entries(c) => Entries(e)) /\ e.pvwrt = c.pvwrt /\ ("CA_VGACT" \in e.flags <=> "CA_VGACT" \in c.flags)
  BY DEF Eases
<1> QED BY <1>1, <1>2, <1>3, <1>4 DEF Eases

(* No entry changes but in its count.                                       *)
LEMMA EasesFrame ==
  ASSUME NEW c, NEW d, NEW X, "CA_VGACT" \in d.flags <=> "CA_VGACT" \in c.flags,
         d.pvwrt = c.pvwrt, d.ca_pv = c.ca_pv,
         \A r \in d.cached : r \in c.cached /\ d.lb[r] = c.lb[r],
         \A i \in 1..ca_size : Same(d.ca_lst[i], c.ca_lst[i])
  PROVE  Eases(c, d, X)
<1>1. \A r \in Req : WaitsFor(d, r) = WaitsFor(c, r)
  BY DEF WaitsFor
<1>2. Entries(c) => Entries(d)
  BY DEF Entries, Same
<1>3. \A i \in 1..ca_size : \E j \in 1..ca_size : Same(d.ca_lst[i], c.ca_lst[j])
  OBVIOUS
<1> QED BY <1>1, <1>2, <1>3 DEF Eases

LEMMA MvHeldEases ==
  ASSUME NEW c \in MemType, Range(c.ca_hld) \cap c.cached = {}, NEW X
  PROVE  Eases(c, hd_ca_mvhld(c), X)
<1> DEFINE d == hd_ca_mvhld(c)
           lb == [r \in Req |-> IF r \in Range(c.ca_hld) THEN NULL ELSE c.lb[r]]
<1>1. d = IF ForcedOff(c) THEN [c EXCEPT !.ca_hld = <<>>, !.lb = lb]
          ELSE [c EXCEPT !.pending_Q = @ \o c.ca_hld, !.ca_hld = <<>>]
  BY DEF hd_ca_mvhld
<1> HIDE DEF d, lb
<1>2. /\ d.ca_lst = c.ca_lst /\ d.cached = c.cached /\ d.flags = c.flags /\ d.pvwrt = c.pvwrt
      /\ d.ca_pv = c.ca_pv /\ d.lb \in {lb, c.lb}
  BY <1>1 DEF MemType
<1>3. \A r \in c.cached : r \in Req /\ r \notin Range(c.ca_hld)
  BY DEF MemType
<1>4. \A r \in c.cached : lb[r] = c.lb[r]
  BY <1>3 DEF lb
<1>5. \A r \in d.cached : r \in c.cached /\ d.lb[r] = c.lb[r]
  BY <1>2, <1>4
<1>6. \A i \in 1..ca_size : Same(d.ca_lst[i], c.ca_lst[i])
  BY <1>2 DEF Same
<1>7. Eases(c, d, X)
  BY <1>2, <1>5, <1>6, EasesFrame
<1> QED BY <1>7 DEF d

LEMMA TermEases ==
  ASSUME NEW c, NEW B \in SUBSET Req, NEW D, Sound(c, B, D), NEW r \in c.cached, NEW X
  PROVE  Eases(c, hd_ca_term(c, r), X)
<1> DEFINE i == EntryOf(c, c.lb[r])
           L == [c.ca_lst EXCEPT ![i].iocnt = @ - 1]
           done == [c EXCEPT !.ca_lst = L, !.cached = @ \ {r}]
           lb == [q \in Req |-> IF q \in Range(c.ca_hld) THEN NULL ELSE c.lb[q]]
           d == hd_ca_term(c, r)
<1>0. c \in MemType
  BY DEF Sound
<1>1. c.ca_lst \in [1..ca_size -> Entry]
  BY <1>0, CacheFields
<1>2. \A k \in 1..ca_size : Same(L[k], c.ca_lst[k])
  <2>1. ASSUME NEW k \in 1..ca_size PROVE L[k] \in {c.ca_lst[k], [c.ca_lst[k] EXCEPT !.iocnt = @ - 1]}
    BY <1>1
  <2>2. ASSUME NEW k \in 1..ca_size PROVE Same(L[k], c.ca_lst[k])
    <3>1. c.ca_lst[k] \in Entry
      BY <1>1
    <3> HIDE DEF L
    <3> QED BY <2>1, <3>1 DEF Same, Entry
  <2> QED BY <2>2
<1> HIDE DEF L, i
<1>3. /\ done.flags = c.flags /\ done.ca_pv = c.ca_pv /\ done.pvwrt = c.pvwrt /\ done.lb = c.lb
      /\ done.cached = c.cached \ {r} /\ done.ca_lst = L /\ done.ca_hld = c.ca_hld
  BY <1>0 DEF MemType
<1>4. d = done \/ d = hd_ca_mvhld(done)
  BY DEF hd_ca_term, i, L
<1>5. /\ hd_ca_mvhld(done).ca_lst = L /\ hd_ca_mvhld(done).cached = done.cached
      /\ hd_ca_mvhld(done).flags = c.flags /\ hd_ca_mvhld(done).ca_pv = c.ca_pv
      /\ hd_ca_mvhld(done).pvwrt = c.pvwrt /\ hd_ca_mvhld(done).lb \in {c.lb, lb}
  BY <1>0, <1>3 DEF hd_ca_mvhld, MemType
<1> HIDE DEF done, d
<1>6. d.flags = c.flags /\ d.ca_pv = c.ca_pv /\ d.pvwrt = c.pvwrt /\ d.cached = c.cached \ {r} /\ d.ca_lst = L
      /\ d.lb \in {c.lb, lb}
  BY <1>3, <1>4, <1>5
<1>7. \A q \in c.cached : q \in Req /\ q \notin Range(c.ca_hld)
  BY <1>0 DEF Sound, Places, MemType
<1>8. \A q \in d.cached : q \in c.cached /\ d.lb[q] = c.lb[q]
  BY <1>6, <1>7
<1>9. Eases(c, d, X)
  BY <1>2, <1>6, <1>8, EasesFrame
<1> QED BY <1>9 DEF d

(* Request r, which is not cached, is forgotten.                            *)
LEMMA GoneEases ==
  ASSUME NEW c, c \in MemType, NEW r, r \notin c.cached, NEW X
  PROVE  Eases(c, [c EXCEPT !.lb[r] = NULL], X)
<1> DEFINE d == [c EXCEPT !.lb[r] = NULL]
<1>1. d.flags = c.flags /\ d.ca_pv = c.ca_pv /\ d.pvwrt = c.pvwrt /\ d.cached = c.cached
      /\ d.ca_lst = c.ca_lst /\ d.lb = [c.lb EXCEPT ![r] = NULL]
  BY DEF MemType
<1>2. c.lb \in [Req -> Tg \cup {NULL}] /\ c.cached \subseteq Req
  BY DEF MemType
<1> HIDE DEF d
<1>3. \A q \in d.cached : q \in c.cached /\ d.lb[q] = c.lb[q]
  BY <1>1, <1>2
<1>4. \A i \in 1..ca_size : Same(d.ca_lst[i], c.ca_lst[i])
  BY <1>1 DEF Same
<1>5. Eases(c, d, X)
  BY <1>1, <1>3, <1>4, EasesFrame
<1> QED BY <1>5 DEF d

LEMMA ReturnedEases ==
  ASSUME NEW c, NEW B \in SUBSET Req, NEW D, Sound(c, B, D), Moves(c),
         NEW r \in Req, r \notin Queued(c), NEW X
  PROVE  Eases(c, Returned(c, r), X)
<1> DEFINE e == hd_ca_term(c, r)
<1>1. CASE r \in c.cached
  <2>1. Eases(c, e, X) /\ e \in MemType /\ r \notin e.cached
    BY <1>1, TermEases, Term DEF Sound
  <2> HIDE DEF e
  <2>2. Eases(e, [e EXCEPT !.lb[r] = NULL], X)
    BY <2>1, GoneEases
  <2>3. Eases(c, [e EXCEPT !.lb[r] = NULL], X)
    BY <2>1, <2>2, EasesTrans
  <2> QED BY <1>1, <2>3 DEF Returned, e
<1>2. CASE r \notin c.cached
  BY <1>2, GoneEases DEF Returned, Sound
<1> QED BY <1>1, <1>2

(* The end of a cache write: the requests that waited for disk p.           *)
LEMMA WakesOK ==
  ASSUME NEW c, NEW B \in SUBSET Req, NEW D, Sound(c, B, D),
         NEW p \in D, p \in Pv, c.ca_pv[p] # <<>>
  PROVE  LET d == Wakes(c, p)
         IN  /\ Sound(d, B, D) /\ d.flags = c.flags
             /\ d.ca_inflt_cnt = c.ca_inflt_cnt /\ d.pvwrt = c.pvwrt
             /\ d.ca_pv = [c.ca_pv EXCEPT ![p] = Tail(@)] /\ Eases(c, d, {p})
             /\ ~ForcedOff(c) => d.cached = c.cached
             /\ \A r \in B : d.lb[r] = c.lb[r]
             /\ \A r \in Req : d.lb[r] \in {c.lb[r], NULL}
<1> DEFINE r == Head(c.ca_pv[p])
           pv == [c.ca_pv EXCEPT ![p] = Tail(@)]
           av == [c.av_forw EXCEPT ![r] = @ - 1]
           free == c.ca_freepvw + 1
           e == [c EXCEPT !.ca_pv = pv, !.av_forw = av, !.ca_freepvw = free]
<1>0. c \in MemType /\ Tickets(c) /\ IsInjective(c.ca_pv[p]) /\ Tally(c)
  BY DEF Sound, Places
<1>1. Wakes(c, p) = IF e.av_forw[r] > 0 THEN e
                    ELSE IF ForcedOff(c) THEN [hd_ca_term(e, r) EXCEPT !.lb[r] = NULL]
                    ELSE [e EXCEPT !.pending_Q = <<r>> \o @]
  BY DEF Wakes
<1>2. /\ e.flags = c.flags /\ e.ca_lst = c.ca_lst /\ e.ca_pv = pv /\ e.ca_freepvw = free
      /\ e.av_forw = av /\ e.pvwrt = c.pvwrt /\ e.ca_inflt_cnt = c.ca_inflt_cnt
      /\ e.cached = c.cached /\ e.ca_hld = c.ca_hld
      /\ e.pending_Q = c.pending_Q /\ e.lb = c.lb
  <2> HIDE DEF pv, av, free
  <2> QED BY <1>0 DEF MemType
<1>3. e.ca_pv = [c.ca_pv EXCEPT ![p] = Tail(@)] /\ e.ca_freepvw = c.ca_freepvw + 1
      /\ e.av_forw = [c.av_forw EXCEPT ![Head(c.ca_pv[p])] = @ - 1]
  BY <1>2
<1>4. /\ r \in Req /\ p \in WaitsFor(c, r)
      /\ e.ca_pv \in [Pv -> Seq(Req)] /\ e.ca_freepvw \in 0..NPvWait /\ e.av_forw \in [Req -> Nat]
      /\ IsInjective(e.ca_pv[p])
      /\ Tickets(e)
      /\ \A q \in Req : WaitsFor(e, q) = IF q = r THEN WaitsFor(c, r) \ {p} ELSE WaitsFor(c, q)
  <2> HIDE DEF e
  <2> QED BY <1>0, <1>3, TicketsTake
<1>5. e \in MemType
  <2>1. pv \in [Pv -> Seq(Req)] /\ free \in 0..NPvWait /\ av \in [Req -> Nat]
    BY <1>2, <1>4
  <2> HIDE DEF pv, av, free
  <2> QED BY <1>0, <2>1 DEF MemType
<1>6. "CA_INFLT" \in c.flags
  BY DEF Sound, Flow
<1> HIDE DEF e, r
<1>7. Waiting(e) \subseteq Waiting(c) /\ r \in Waiting(c)
  BY <1>4 DEF Waiting
<1>8. Queued(e) \subseteq Queued(c) /\ r \in c.cached /\ r \notin B /\ c.lb[r] # NULL
      /\ r \notin Range(c.pending_Q) /\ r \notin Range(c.ca_hld)
  BY <1>2, <1>7 DEF Queued, Sound, Places
<1>9. Tally(e)
  BY <1>0, <1>2, <1>5, TallyFrame
<1>10. Flow(e, D)
  BY <1>2 DEF Sound, Flow
<1>11. Places(e, B)
  <2>1. \A q \in Pv : IsInjective(e.ca_pv[q])
    <3>1. c.ca_pv \in [Pv -> Seq(Req)]
      BY <1>0, CacheFields
    <3>2. \A q \in Pv : q # p => e.ca_pv[q] = c.ca_pv[q]
      BY <3>1, <1>2
    <3> QED BY <3>2, <1>4 DEF Sound, Places
  <2>2. \A q \in Queued(e) \cup e.cached \cup B : e.lb[q] # NULL
    BY <1>2, <1>8 DEF Sound, Places
  <2>3. B \cap Queued(e) = {}
    BY <1>8 DEF Sound, Places
  <2> QED BY <2>1, <2>2, <2>3, <1>2, <1>7 DEF Sound, Places
<1>12. Sound(e, B, D) /\ Moves(e)
  BY <1>2, <1>4, <1>5, <1>6, <1>9, <1>10, <1>11 DEF Sound, Moves
<1>13. c.lb \in [Req -> Tg \cup {NULL}]
  BY <1>0, CacheFields
<1>14. Eases(c, e, {p})
  <2>1. \A q \in Req : WaitsFor(c, q) \ {p} \subseteq WaitsFor(e, q) /\ WaitsFor(e, q) \subseteq WaitsFor(c, q)
    BY <1>4
  <2>2. \A i \in 1..ca_size : Same(e.ca_lst[i], c.ca_lst[i])
    BY <1>2 DEF Same
  <2>3. Entries(c) => Entries(e)
    BY <1>2 DEF Entries
  <2> QED BY <1>2, <2>1, <2>2, <2>3 DEF Eases
<1>15. CASE e.av_forw[r] > 0
  BY <1>1, <1>2, <1>12, <1>13, <1>15, <1>14
<1>16. CASE ~(e.av_forw[r] > 0)
  <2>1. r \notin Queued(e)
    <3>1. e.av_forw[r] = Cardinality(WaitsFor(e, r)) /\ e.av_forw[r] \in Nat
      BY <1>4 DEF Tickets
    <3>2. r \notin Waiting(e)
      BY <3>1, <1>5, <1>16, QueuedIn
    <3> QED BY <3>2, <1>2, <1>8 DEF Queued
  <2>2. CASE ForcedOff(c)
    <3> DEFINE d == Returned(e, r)
    <3>1. Wakes(c, p) = d
      BY <1>1, <1>2, <1>8, <1>16, <2>2 DEF Returned
    <3>2. Sound(d, B \ {r}, D) /\ Leaves(e, d, B \ {r})
      BY <1>4, <1>12, <2>1, ReturnedOK
    <3>7. Eases(c, d, {p})
      <4>1. Eases(e, d, {p})
        BY <1>4, <1>12, <2>1, ReturnedEases
      <4> HIDE DEF d
      <4> QED BY <4>1, <1>14, EasesTrans
    <3>3. B \ {r} = B
      BY <1>8
    <3> HIDE DEF d
    <3>4. d.flags = c.flags /\ d.ca_inflt_cnt = c.ca_inflt_cnt /\ d.pvwrt = c.pvwrt /\ d.ca_pv = e.ca_pv
      BY <3>2, <1>2 DEF Leaves
    <3>5. \A q \in B : d.lb[q] = c.lb[q]
      BY <3>2, <3>3, <1>2 DEF Leaves
    <3>6. \A q \in Req : d.lb[q] \in {c.lb[q], NULL}
      BY <3>2, <1>2 DEF Leaves
    <3> QED BY <2>2, <3>1, <3>2, <3>3, <3>4, <3>5, <3>6, <3>7, <1>2
  <2>3. CASE ~ForcedOff(c)
    <3> DEFINE Q == <<r>> \o e.pending_Q
               d == [e EXCEPT !.pending_Q = Q]
    <3>1. Wakes(c, p) = d
      BY <1>1, <1>16, <2>3
    <3>2. Q \in Seq(Req) /\ Range(Q) = {r} \cup Range(e.pending_Q) /\ IsInjective(Q)
      <4>1. e.pending_Q \in Seq(Req) /\ IsInjective(e.pending_Q) /\ r \notin Range(e.pending_Q)
        BY <1>2, <1>5, <1>8, <1>11, CacheFields DEF Places
      <4> QED BY <4>1, <1>4, RangePush
    <3> HIDE DEF Q
    <3>3. Sound(d, B, D) /\ Leaves(e, d, B)
      BY <1>2, <1>4, <1>8, <1>12, <2>1, <3>2, Enqueue
    <3>4. d.ca_lst = e.ca_lst /\ d.cached = e.cached /\ d.lb = e.lb
      BY <1>5 DEF MemType
    <3> HIDE DEF d
    <3>5. Eases(e, d, {p})
      <4>1. \A i \in 1..ca_size : Same(d.ca_lst[i], e.ca_lst[i])
        BY <3>4 DEF Same
      <4> QED BY <3>3, <3>4, <4>1, EasesFrame DEF Leaves
    <3>6. Eases(c, d, {p})
      BY <3>5, <1>14, EasesTrans
    <3> QED BY <3>1, <3>3, <3>4, <3>6, <1>2 DEF Leaves
  <2> QED BY <2>2, <2>3
<1> QED BY <1>15, <1>16

LEMMA SkedOK ==
  ASSUME NEW c, NEW B \in SUBSET Req, NEW D, Sound(c, B, D), NEW p \in D, p \in Pv
  PROVE  LET d == hd_ca_sked(c, p)
         IN  /\ Sound(d, B, D) /\ Keeps(c, d, B) /\ d.ca_pv[p] = <<>> /\ Eases(c, d, {p})
             /\ ~ForcedOff(c) => d.cached = c.cached
<1> DEFINE n == Len(c.ca_pv[p])
           IsWoken(h, k) == h = [i \in 0..k |-> IF i = 0 THEN c ELSE Wakes(h[i - 1], p)]
           T == {k \in 0..n : \E h : IsWoken(h, k)}
           w == CHOOSE h : IsWoken(h, n)
           Like(d, k) == /\ Sound(d, B, D) /\ d.flags = c.flags /\ Eases(c, d, {p})
                         /\ d.ca_inflt_cnt = c.ca_inflt_cnt /\ d.pvwrt = c.pvwrt
                         /\ Len(d.ca_pv[p]) = n - k
                         /\ ~ForcedOff(c) => d.cached = c.cached
                         /\ \A r \in B : d.lb[r] = c.lb[r]
                         /\ \A r \in Req : d.lb[r] \in {c.lb[r], NULL}
           K == {k \in 0..n : Like(w[k], k)}
<1>1. c.ca_pv[p] \in Seq(Req) /\ n \in Nat /\ c.lb \in [Req -> Tg \cup {NULL}]
  <2>1. c.ca_pv \in [Pv -> Seq(Req)] /\ c.lb \in [Req -> Tg \cup {NULL}]
    BY CacheFields DEF Sound
  <2> QED BY <2>1
<1>2. hd_ca_sked(c, p) = w[n]
  BY Zenon DEF hd_ca_sked
<1> HIDE DEF n
<1>3. T = 0..n
  <2>1. 0 \in T
    <3>1. IsWoken([i \in 0..0 |-> c], 0)
      OBVIOUS
    <3>2. 0 \in 0..n /\ \E h : IsWoken(h, 0)
      <4> HIDE DEF IsWoken
      <4> QED BY <1>1, <3>1
    <3> QED BY <3>2, Zenon
  <2>2. ASSUME NEW k \in 1..n, k - 1 \in T PROVE k \in T
    <3>1. PICK h : IsWoken(h, k - 1)
      BY <2>2, Zenon
    <3>2. k - 1 \in Nat /\ k \in 0..n
      BY <1>1
    <3> DEFINE x == [i \in 0..k |-> IF i = 0 THEN c ELSE Wakes(h[i - 1], p)]
    <3>3. ASSUME NEW i \in 0..(k - 1) PROVE x[i] = h[i]
      <4>1. h[i] = IF i = 0 THEN c ELSE Wakes(h[i - 1], p)
        BY <3>1
      <4>2. x[i] = IF i = 0 THEN c ELSE Wakes(h[i - 1], p)
        BY <3>2
      <4> QED BY <4>1, <4>2
    <3>4. ASSUME NEW i \in 0..k, i # 0 PROVE h[i - 1] = x[i - 1]
      <4>1. i - 1 \in 0..(k - 1)
        BY <3>4
      <4> HIDE DEF x
      <4> QED BY <3>3, <4>1
    <3>5. IsWoken(x, k)
      BY <3>4
    <3> HIDE DEF x, IsWoken
    <3> QED BY <3>2, <3>5
  <2> HIDE DEF T
  <2>3. T \in SUBSET (0..n)
    BY DEF T
  <2> QED BY <1>1, <2>1, <2>2, <2>3, IntervalInduction
<1>4. IsWoken(w, n)
  <2>1. n \in T
    <3> HIDE DEF T
    <3> QED BY <1>1, <1>3
  <2>2. \E h : IsWoken(h, n)
    BY <2>1, Zenon
  <2> QED BY <2>2, Zenon
<1> HIDE DEF w
<1>5. w[0] = c /\ \A k \in 1..n : w[k] = Wakes(w[k - 1], p)
  <2>1. 0 \in 0..n /\ \A k \in 1..n : k \in 0..n /\ k # 0
    BY <1>1
  <2> QED BY <1>4, <2>1
<1>6. Like(c, 0)
  <2>2. \A r \in c.cached : r \in c.cached /\ c.lb[r] = c.lb[r]
    OBVIOUS
  <2>3. \A i \in 1..ca_size : Same(c.ca_lst[i], c.ca_lst[i])
    BY DEF Same
  <2>4. Eases(c, c, {p})
    BY <2>2, <2>3, EasesFrame
  <2> QED BY <1>1, <2>4 DEF n
<1>7. ASSUME NEW k \in 1..n, Like(w[k - 1], k - 1) PROVE Like(w[k], k)
  <2> DEFINE d == w[k - 1]
             e == Wakes(d, p)
  <2>1. Len(d.ca_pv[p]) = n - (k - 1) /\ Sound(d, B, D)
    BY <1>7
  <2>2. d.ca_pv \in [Pv -> Seq(Req)] /\ d.ca_pv[p] \in Seq(Req) /\ d.lb \in [Req -> Tg \cup {NULL}]
    <3>1. d.ca_pv \in [Pv -> Seq(Req)] /\ d.lb \in [Req -> Tg \cup {NULL}]
      BY <2>1, CacheFields DEF Sound
    <3> QED BY <3>1
  <2>3. /\ d.flags = c.flags /\ d.ca_inflt_cnt = c.ca_inflt_cnt /\ d.pvwrt = c.pvwrt
        /\ Eases(c, d, {p})
        /\ ~ForcedOff(c) => d.cached = c.cached
        /\ \A r \in B : d.lb[r] = c.lb[r]
        /\ \A r \in Req : d.lb[r] \in {c.lb[r], NULL}
    BY <1>7
  <2> HIDE DEF d
  <2>4. d.ca_pv[p] # <<>>
    BY <2>1, <2>2, <1>1
  <2>5. /\ Sound(e, B, D) /\ e.flags = d.flags
        /\ e.ca_inflt_cnt = d.ca_inflt_cnt /\ e.pvwrt = d.pvwrt
        /\ e.ca_pv = [d.ca_pv EXCEPT ![p] = Tail(@)] /\ Eases(d, e, {p})
        /\ ~ForcedOff(d) => e.cached = d.cached
        /\ \A r \in B : e.lb[r] = d.lb[r]
        /\ \A r \in Req : e.lb[r] \in {d.lb[r], NULL}
    BY <2>1, <2>4, WakesOK
  <2> HIDE DEF e
  <2>6. Len(e.ca_pv[p]) = n - k
    <3>1. e.ca_pv[p] = Tail(d.ca_pv[p])
      BY <2>2, <2>5
    <3>2. Len(Tail(d.ca_pv[p])) = Len(d.ca_pv[p]) - 1
      BY <2>2, <2>4
    <3> QED BY <3>1, <3>2, <2>1, <1>1
  <2>7. w[k] = e
    BY <1>5 DEF d, e
  <2>8. \A r \in B : e.lb[r] = c.lb[r]
    BY <2>3, <2>5
  <2>9. \A r \in Req : e.lb[r] \in {c.lb[r], NULL}
    BY <2>3, <2>5
  <2>10. Eases(c, e, {p})
    BY <2>3, <2>5, EasesTrans
  <2>11. ~ForcedOff(c) => e.cached = c.cached
    BY <2>3, <2>5 DEF ForcedOff
  <2> QED BY <2>3, <2>5, <2>6, <2>7, <2>8, <2>9, <2>10, <2>11
<1> HIDE DEF Like
<1>8. K = 0..n
  <2>1. 0 \in K
    BY <1>1, <1>5, <1>6
  <2>2. ASSUME NEW k \in 1..n, k - 1 \in K PROVE k \in K
    BY <2>2, <1>1, <1>7
  <2>3. K \in SUBSET (0..n)
    OBVIOUS
  <2> HIDE DEF K
  <2> QED BY <1>1, <2>1, <2>2, <2>3, IntervalInduction
<1>9. Like(w[n], n)
  <2>1. n \in K
    <3> HIDE DEF K
    <3> QED BY <1>1, <1>8
  <2> QED BY <2>1
<1> DEFINE d == w[n]
<1>10. d.ca_pv[p] = <<>>
  <2>1. d.ca_pv \in [Pv -> Seq(Req)] /\ Len(d.ca_pv[p]) = 0
    BY <1>1, <1>9, CacheFields DEF Sound, Like
  <2> QED BY <2>1
<1> QED BY <1>2, <1>9, <1>10 DEF Like, Keeps

LEMMA WrittenSame ==
  ASSUME NEW lst \in [1..ca_size -> Entry]
  PROVE  /\ Written(lst) \in [1..ca_size -> Entry]
         /\ \A i \in 1..ca_size : Written(lst)[i].tg = lst[i].tg /\ Written(lst)[i].iocnt = lst[i].iocnt
<1>1. ASSUME NEW i \in 1..ca_size
      PROVE  /\ Written(lst)[i] \in Entry
             /\ Written(lst)[i].tg = lst[i].tg /\ Written(lst)[i].iocnt = lst[i].iocnt
  <2>1. Written(lst)[i] \in {lst[i], [lst[i] EXCEPT !.state = "CANOCHG"]}
    BY DEF Written
  <2>2. lst[i] \in Entry
    OBVIOUS
  <2> QED BY <2>1, <2>2 DEF Entry
<1>2. Written(lst) = [i \in 1..ca_size |-> Written(lst)[i]]
  BY DEF Written
<1> QED BY <1>1, <1>2

(* The end of the cache write to disk p.                                    *)
LEMMA WendOK ==
  ASSUME NEW c, NEW B \in SUBSET Req, NEW D \in SUBSET Pv, Sound(c, B, D), NEW p \in D
  PROVE  LET d == hd_ca_wend(c, p)
         IN  /\ Sound(d, B, D \ {p}) /\ Moves(d)
             /\ Follows(c, d, IF D = {p} /\ ~Sleeping THEN c.flags \ {"CA_INFLT"} ELSE c.flags, B)
             /\ c.ca_inflt_cnt = 1 <=> D = {p}
<1> DEFINE s == hd_ca_sked(c, p)
           E == D \ {p}
           cnt == s.ca_inflt_cnt - 1
           d == [s EXCEPT !.ca_inflt_cnt = cnt]
           L == Written(s.ca_lst)
           F == s.flags \ {"CA_INFLT"}
           last == [d EXCEPT !.ca_lst = L, !.flags = F]
           again == [last EXCEPT !.flags = @ \cup {"CA_INFLT"}]
<1>1. hd_ca_wend(c, p) = IF cnt > 0 THEN d ELSE IF Sleeping THEN again ELSE hd_ca_mvhld(last)
  <2>1. s \in MemType
    BY SkedOK DEF Sound
  <2> HIDE DEF s
  <2>2. d.ca_inflt_cnt = cnt /\ d.ca_lst = s.ca_lst /\ d.flags = s.flags
    BY <2>1 DEF MemType
  <2> QED BY <2>2 DEF hd_ca_wend, s
<1>2. /\ Sound(s, B, D) /\ s.flags = c.flags
      /\ s.ca_inflt_cnt = c.ca_inflt_cnt /\ s.pvwrt = c.pvwrt /\ s.ca_pv[p] = <<>>
      /\ \A r \in B : s.lb[r] = c.lb[r]
      /\ \A r \in Req : s.lb[r] \in {c.lb[r], NULL}
  <2>1. p \in Pv /\ p \in D
    OBVIOUS
  <2>2. Sound(c, B, D) /\ B \in SUBSET Req
    OBVIOUS
  <2>3. Sound(s, B, D)
    BY <2>1, <2>2, SkedOK
  <2>4. s.ca_pv[p] = <<>> /\ Keeps(c, s, B)
    BY <2>1, <2>2, <2>3, SkedOK
  <2> QED BY <2>3, <2>4 DEF Keeps
<1> HIDE DEF s
<1>3. s \in MemType
  BY <1>2 DEF Sound
<1>4. /\ "CA_INFLT" \in c.flags /\ "CA_VGACT" \notin c.flags /\ c.pvwrt = {}
      /\ c.ca_inflt_cnt = Cardinality(D)
  BY DEF Sound, Flow
<1>5. IsFiniteSet(D) /\ Cardinality(D) \in Nat /\ Cardinality(E) = Cardinality(D) - 1 /\ Cardinality(E) \in Nat
      /\ (Cardinality(E) = 0 <=> E = {})
  <2>1. IsFiniteSet(D)
    BY SizeAssumption, FS_Subset
  <2>2. IsFiniteSet(E) /\ Cardinality(E) = Cardinality(D) - 1
    BY <2>1, FS_RemoveElement
  <2> QED BY <2>1, <2>2, FS_CardinalityType, FS_EmptySet
<1>6. cnt = Cardinality(E) /\ cnt \in Nat
  BY <1>2, <1>4, <1>5
<1> HIDE DEF cnt
<1>7. /\ d.flags = s.flags /\ d.ca_lst = s.ca_lst /\ d.ca_pv = s.ca_pv /\ d.ca_freepvw = s.ca_freepvw
      /\ d.av_forw = s.av_forw /\ d.pvwrt = s.pvwrt /\ d.ca_inflt_cnt = cnt
      /\ d.cached = s.cached /\ d.ca_hld = s.ca_hld
      /\ d.pending_Q = s.pending_Q /\ d.lb = s.lb /\ d \in MemType
  BY <1>3, <1>6 DEF MemType
<1> HIDE DEF d
<1>8. Waits(d) = Waits(s) /\ Waiting(d) = Waiting(s) /\ \A q \in Req : WaitsFor(d, q) = WaitsFor(s, q)
  BY <1>7 DEF WaitsFor, Waits, Waiting
<1>9. Queued(d) = Queued(s)
  BY <1>7, <1>8 DEF Queued
<1>10. Places(d, B) /\ Tickets(d)
  BY <1>2, <1>7, <1>8, <1>9 DEF Sound, Places, Tickets
<1>11. Tally(d)
  <2>1. Tally(s)
    BY <1>2 DEF Sound
  <2> QED BY <2>1, <1>3, <1>7, TallyFrame
<1>12. Flow(d, E)
  <2>1. \A q \in Pv : d.ca_pv[q] # <<>> => q \in d.pvwrt \cup E
    BY <1>2, <1>7 DEF Sound, Flow
  <2> QED BY <2>1, <1>2, <1>4, <1>6, <1>7 DEF Flow
<1>13. Sound(d, B, E)
  BY <1>7, <1>10, <1>11, <1>12 DEF Sound
<1>14. c.ca_inflt_cnt = 1 <=> D = {p}
  BY <1>4, <1>5
<1>15. cnt > 0 <=> D # {p}
  BY <1>5, <1>6
<1>16. ASSUME NEW x, x \in MemType, Sound(x, B, E), x.flags = c.flags, x.lb = s.lb
       PROVE  Moves(x) /\ (\A r \in B : x.lb[r] = c.lb[r]) /\ \A r \in Req : x.lb[r] \in {c.lb[r], NULL}
  BY <1>2, <1>4, <1>16 DEF Moves
<1>17. CASE D # {p}
  BY <1>1, <1>2, <1>7, <1>13, <1>14, <1>15, <1>16, <1>17 DEF Follows
<1>18. CASE D = {p}
  <2>1. E = {} /\ ~(cnt > 0)
    BY <1>15, <1>18
  <2>2. F \in SUBSET Flag /\ L \in [1..ca_size -> Entry]
        /\ \A i \in 1..ca_size : L[i].tg = s.ca_lst[i].tg /\ L[i].iocnt = s.ca_lst[i].iocnt
    <3>1. s.ca_lst \in [1..ca_size -> Entry] /\ s.flags \in SUBSET Flag
      BY <1>3, CacheFields
    <3> QED BY <3>1, WrittenSame
  <2>3. "CA_INFLT" \notin F /\ F \cup {"CA_INFLT"} = c.flags /\ "CA_VGACT" \notin F /\ F = c.flags \ {"CA_INFLT"}
    BY <1>2, <1>4
  <2> HIDE DEF F, L
  <2>4. ASSUME NEW G \in SUBSET Flag, G \in {F, c.flags}, NEW x, x = [d EXCEPT !.ca_lst = L, !.flags = G]
        PROVE  Sound(x, B, E) /\ x.flags = G /\ x.lb = s.lb
    <3>1. /\ x.flags = G /\ x.ca_lst = L /\ x.ca_pv = s.ca_pv /\ x.ca_freepvw = s.ca_freepvw
          /\ x.av_forw = s.av_forw /\ x.pvwrt = s.pvwrt /\ x.ca_inflt_cnt = cnt
          /\ x.cached = s.cached /\ x.ca_hld = s.ca_hld
          /\ x.pending_Q = s.pending_Q /\ x.lb = s.lb /\ x \in MemType
      BY <1>7, <2>2, <2>4 DEF MemType
    <3>2. Waits(x) = Waits(s) /\ Waiting(x) = Waiting(s) /\ \A q \in Req : WaitsFor(x, q) = WaitsFor(s, q)
      BY <3>1 DEF WaitsFor, Waits, Waiting
    <3>3. Queued(x) = Queued(s)
      BY <3>1, <3>2 DEF Queued
    <3>4. Places(x, B) /\ Tickets(x)
      BY <1>2, <3>1, <3>2, <3>3 DEF Sound, Places, Tickets
    <3>5. Tally(x)
      <4>1. Tally(s)
        BY <1>2 DEF Sound
      <4> QED BY <4>1, <2>2, <1>3, <3>1, TallyFrame
    <3>6. Flow(x, E)
      <4>1. Cardinality(E) = cnt /\ E = {}
        BY <1>6, <2>1
      <4>2. x.pvwrt = {} /\ \A q \in Pv : x.ca_pv[q] # <<>> => q \in x.pvwrt \cup E
        BY <1>2, <1>4, <1>18, <3>1 DEF Sound, Flow
      <4>3. "CA_VGACT" \notin x.flags
        BY <2>3, <2>4, <1>4, <3>1
      <4> QED BY <4>1, <4>2, <4>3, <3>1 DEF Flow
    <3> QED BY <3>1, <3>4, <3>5, <3>6 DEF Sound
  <2>5. CASE Sleeping
    <3>1. hd_ca_wend(c, p) = again
      BY <1>1, <2>1, <2>5
    <3>2. again = [d EXCEPT !.ca_lst = L, !.flags = c.flags]
      <4>1. last.flags = F
        BY <1>7 DEF MemType
      <4> QED BY <4>1, <2>3
    <3>3. c.flags \in SUBSET Flag
      BY CacheFields DEF Sound
    <3> HIDE DEF again
    <3>4. Sound(again, B, E) /\ again.flags = c.flags /\ again.lb = s.lb
      BY <3>2, <3>3, <2>4
    <3>5. again \in MemType
      BY <3>4 DEF Sound
    <3> QED BY <3>1, <3>4, <3>5, <1>14, <1>16, <2>5, <1>18 DEF Follows
  <2>6. CASE ~Sleeping
    <3>1. hd_ca_wend(c, p) = hd_ca_mvhld(last)
      BY <1>1, <2>1, <2>6
    <3> HIDE DEF last
    <3>2. Sound(last, B, E) /\ last.flags = F /\ last.lb = s.lb
      BY <2>2, <2>4 DEF last
    <3> DEFINE x == hd_ca_mvhld(last)
    <3>3. Sound(x, B, E) /\ x.ca_hld = <<>> /\ Leaves(last, x, B)
      BY <3>2, MvHeld
    <3> HIDE DEF x
    <3>4. Moves(x)
      BY <3>3 DEF Moves
    <3>5. x.flags = F /\ (\A r \in B : x.lb[r] = c.lb[r]) /\ \A r \in Req : x.lb[r] \in {c.lb[r], NULL}
      BY <3>2, <3>3, <1>2 DEF Leaves
    <3> QED BY <3>1, <3>3, <3>4, <3>5, <2>3, <2>6, <1>14, <1>18 DEF x, Follows
  <2> QED BY <2>5, <2>6
<1> QED BY <1>17, <1>18

-----------------------------------------------------------------------------
(* The clean-up: the entries that are kept are some of the old ones, each   *)
(* of them once and in their order, and none that has I/O is missing.       *)
Kept(L, m, s, n, f) ==
  /\ f \in [1..m -> 1..n] /\ \A j, k \in 1..m : (j < k => f[j] < f[k]) /\ (f[j] = f[k] => j = k)
  /\ \A k \in 1..m : L[k] = s[f[k]]
  /\ \A i \in 1..n : ~Unused(s[i]) => \E k \in 1..m : f[k] = i

LEMMA KeepOne ==
  ASSUME NEW s \in [1..ca_size -> Entry], NEW n \in 1..ca_size, NEW L \in Seq(Entry), Len(L) <= n - 1,
         NEW f, Kept(L, Len(L), s, n - 1, f)
  PROVE  LET M == IF Unused(s[n]) THEN L ELSE Append(L, s[n])
         IN  M \in Seq(Entry) /\ Len(M) <= n /\ \E h : Kept(M, Len(M), s, n, h)
<1> DEFINE m == Len(L)
<1>0. m \in Nat /\ s[n] \in Entry /\ n \in Nat /\ m <= n - 1
  BY SizeAssumption
<1>1. f \in [1..m -> 1..(n - 1)] /\ \A j, k \in 1..m : (j < k => f[j] < f[k]) /\ (f[j] = f[k] => j = k)
  BY DEF Kept
<1>2. \A k \in 1..m : L[k] = s[f[k]]
  BY DEF Kept
<1>3. \A i \in 1..(n - 1) : ~Unused(s[i]) => \E k \in 1..m : f[k] = i
  BY DEF Kept
<1> HIDE DEF m
<1>4. f \in [1..m -> 1..n]
  BY <1>0, <1>1
<1>5. CASE Unused(s[n])
  <2>1. Kept(L, m, s, n, f)
    <3>1. \A i \in 1..n : ~Unused(s[i]) => i \in 1..(n - 1)
      BY <1>0, <1>5
    <3> QED BY <3>1, <1>1, <1>2, <1>3, <1>4 DEF Kept
  <2>2. m <= n
    BY <1>0
  <2> QED BY <2>1, <2>2, <1>5 DEF m
<1>6. CASE ~Unused(s[n])
  <2> DEFINE M == Append(L, s[n])
             h == [k \in 1..(m + 1) |-> IF k = m + 1 THEN n ELSE f[k]]
  <2>1. M \in Seq(Entry) /\ Len(M) = m + 1 /\ M[m + 1] = s[n] /\ \A k \in 1..m : M[k] = L[k]
    BY <1>0 DEF m
  <2> HIDE DEF M
  <2>2. \A k \in 1..m : k \in 1..(m + 1) /\ k # m + 1 /\ h[k] = f[k]
    BY <1>0
  <2>3. m + 1 \in 1..(m + 1) /\ h[m + 1] = n
    BY <1>0
  <2>4. \A k \in 1..(m + 1) : k = m + 1 \/ k \in 1..m
    BY <1>0
  <2>5. h \in [1..(m + 1) -> 1..n]
    BY <1>0, <1>4, <2>4
  <2> HIDE DEF h
  <2>6. \A k \in 1..m : h[k] # n
    BY <2>2, <1>0, <1>1
  <2>7. \A j, k \in 1..(m + 1) : (j < k => h[j] < h[k]) /\ (h[j] = h[k] => j = k)
    <3>1. \A j, k \in 1..(m + 1) : h[j] = h[k] => j = k
      BY <2>2, <2>3, <2>4, <2>6, <1>1
    <3>2. ASSUME NEW j \in 1..(m + 1), NEW k \in 1..(m + 1), j < k PROVE h[j] < h[k]
      <4>1. j \in 1..m /\ f[j] \in 1..(n - 1) /\ h[j] = f[j]
        BY <3>2, <1>0, <1>1, <2>2
      <4>2. CASE k \in 1..m
        BY <4>1, <4>2, <3>2, <2>2, <1>1
      <4>3. CASE k = m + 1
        BY <4>1, <4>3, <2>3, <1>0
      <4> QED BY <4>2, <4>3, <2>4
    <3> QED BY <3>1, <3>2
  <2>8. \A k \in 1..(m + 1) : M[k] = s[h[k]]
    BY <2>1, <2>2, <2>3, <2>4, <1>2
  <2>9. \A i \in 1..n : ~Unused(s[i]) => \E k \in 1..(m + 1) : h[k] = i
    <3>1. SUFFICES ASSUME NEW i \in 1..n, ~Unused(s[i]) PROVE \E k \in 1..(m + 1) : h[k] = i
      OBVIOUS
    <3>2. CASE i = n
      BY <3>2, <2>3
    <3>3. CASE i # n
      <4>1. i \in 1..(n - 1)
        BY <3>3, <1>0
      <4>2. PICK k \in 1..m : f[k] = i
        BY <4>1, <3>1, <1>3
      <4> QED BY <4>2, <2>2
    <3> QED BY <3>2, <3>3
  <2>10. Kept(M, m + 1, s, n, h)
    BY <2>5, <2>7, <2>8, <2>9 DEF Kept
  <2>11. m + 1 <= n
    BY <1>0
  <2> QED BY <2>1, <2>10, <2>11, <1>6 DEF M
<1> QED BY <1>5, <1>6

LEMMA CleanedOK ==
  ASSUME NEW c \in MemType
  PROVE  /\ CleanedList(c) \in [1..ca_size -> Entry]
         /\ \E m \in 0..ca_size : \E f :
              /\ Kept(CleanedList(c), m, c.ca_lst, ca_size, f)
              /\ \A k \in 1..ca_size : k > m => CleanedList(c)[k] = CleanEntry
<1> DEFINE n == ca_size
           s == c.ca_lst
           IsKept(h, k) == h = [i \in 0..k |-> IF i = 0 THEN <<>>
                                 ELSE IF Unused(c.ca_lst[i]) THEN h[i - 1] ELSE Append(h[i - 1], c.ca_lst[i])]
           T == {k \in 0..n : \E h : IsKept(h, k)}
           w == CHOOSE h : IsKept(h, n)
           Good(L, k) == L \in Seq(Entry) /\ Len(L) <= k /\ \E f : Kept(L, Len(L), s, k, f)
           K == {k \in 0..n : Good(w[k], k)}
<1>1. n \in Nat /\ s \in [1..n -> Entry]
  BY CacheFields, SizeAssumption
<1>2. CleanedList(c) = [i \in 1..n |-> IF i <= Len(w[n]) THEN w[n][i] ELSE CleanEntry]
  BY Zenon DEF CleanedList
<1> HIDE DEF n
<1>3. T = 0..n
  <2>1. 0 \in T
    <3>1. IsKept([i \in 0..0 |-> <<>>], 0)
      OBVIOUS
    <3>2. 0 \in 0..n /\ \E h : IsKept(h, 0)
      <4> HIDE DEF IsKept
      <4> QED BY <1>1, <3>1
    <3> QED BY <3>2, Zenon
  <2>2. ASSUME NEW k \in 1..n, k - 1 \in T PROVE k \in T
    <3>1. PICK h : IsKept(h, k - 1)
      BY <2>2, Zenon
    <3>2. k - 1 \in Nat /\ k \in 0..n
      BY <1>1
    <3> DEFINE x == [i \in 0..k |-> IF i = 0 THEN <<>>
                      ELSE IF Unused(c.ca_lst[i]) THEN h[i - 1] ELSE Append(h[i - 1], c.ca_lst[i])]
    <3>3. ASSUME NEW i \in 0..(k - 1) PROVE x[i] = h[i]
      <4>1. h[i] = IF i = 0 THEN <<>>
                   ELSE IF Unused(c.ca_lst[i]) THEN h[i - 1] ELSE Append(h[i - 1], c.ca_lst[i])
        BY <3>1
      <4>2. x[i] = IF i = 0 THEN <<>>
                   ELSE IF Unused(c.ca_lst[i]) THEN h[i - 1] ELSE Append(h[i - 1], c.ca_lst[i])
        BY <3>2
      <4> QED BY <4>1, <4>2
    <3>4. ASSUME NEW i \in 0..k, i # 0 PROVE h[i - 1] = x[i - 1]
      <4>1. i - 1 \in 0..(k - 1)
        BY <3>4
      <4> HIDE DEF x
      <4> QED BY <3>3, <4>1
    <3>5. IsKept(x, k)
      BY <3>4
    <3> HIDE DEF x, IsKept
    <3> QED BY <3>2, <3>5
  <2> HIDE DEF T
  <2>3. T \in SUBSET (0..n)
    BY DEF T
  <2> QED BY <1>1, <2>1, <2>2, <2>3, IntervalInduction
<1>4. IsKept(w, n)
  <2>1. n \in T
    <3> HIDE DEF T
    <3> QED BY <1>1, <1>3
  <2>2. \E h : IsKept(h, n)
    BY <2>1, Zenon
  <2> QED BY <2>2, Zenon
<1> HIDE DEF w
<1>5. w[0] = <<>> /\ \A k \in 1..n : w[k] = IF Unused(s[k]) THEN w[k - 1] ELSE Append(w[k - 1], s[k])
  <2>1. 0 \in 0..n /\ \A k \in 1..n : k \in 0..n /\ k # 0
    BY <1>1
  <2> QED BY <1>4, <2>1
<1> HIDE DEF s
<1>6. Good(<<>>, 0)
  <2>1. <<>> \in Seq(Entry) /\ Len(<<>>) = 0
    OBVIOUS
  <2>2. 1..0 = {}
    OBVIOUS
  <2>3. Kept(<<>>, 0, s, 0, [i \in 1..0 |-> 0])
    BY <2>2 DEF Kept
  <2> QED BY <2>1, <2>3
<1>7. ASSUME NEW k \in 1..n, Good(w[k - 1], k - 1) PROVE Good(w[k], k)
  <2> DEFINE L == w[k - 1]
             M == IF Unused(s[k]) THEN L ELSE Append(L, s[k])
  <2>1. PICK f : Kept(L, Len(L), s, k - 1, f)
    BY <1>7
  <2>2. L \in Seq(Entry) /\ Len(L) <= k - 1
    BY <1>7
  <2>3. w[k] = M
    BY <1>5
  <2> HIDE DEF L
  <2>4. s \in [1..ca_size -> Entry] /\ k \in 1..ca_size
    BY <1>1 DEF n
  <2>5. M \in Seq(Entry) /\ Len(M) <= k /\ \E h : Kept(M, Len(M), s, k, h)
    BY <2>1, <2>2, <2>4, KeepOne
  <2> HIDE DEF M
  <2> QED BY <2>3, <2>5
<1> HIDE DEF Good
<1>8. K = 0..n
  <2>1. 0 \in K
    BY <1>1, <1>5, <1>6
  <2>2. ASSUME NEW k \in 1..n, k - 1 \in K PROVE k \in K
    BY <2>2, <1>1, <1>7
  <2>3. K \in SUBSET (0..n)
    OBVIOUS
  <2> HIDE DEF K
  <2> QED BY <1>1, <2>1, <2>2, <2>3, IntervalInduction
<1>9. Good(w[n], n)
  <2>1. n \in K
    <3> HIDE DEF K
    <3> QED BY <1>1, <1>8
  <2> QED BY <2>1
<1> DEFINE W == w[n]
           m == Len(W)
           L == [i \in 1..n |-> IF i <= m THEN W[i] ELSE CleanEntry]
<1>10. PICK f : Kept(W, m, s, n, f)
  BY <1>9 DEF Good
<1>11. W \in Seq(Entry) /\ m <= n /\ m \in Nat
  BY <1>9 DEF Good
<1>12. CleanEntry \in Entry
  <2>1. Cardinality(Req) \in Nat
    BY SizeAssumption, FS_CardinalityType
  <2>2. 0 \in 0..Cardinality(Req)
    BY <2>1
  <2> QED BY <2>2 DEF CleanEntry, Entry
<1>13. CleanedList(c) = L
  BY <1>2
<1> HIDE DEF W
<1>14. L \in [1..n -> Entry]
  BY <1>1, <1>11, <1>12
<1>15. Kept(L, m, s, n, f)
  <2>1. \A k \in 1..m : k \in 1..n /\ L[k] = W[k]
    BY <1>1, <1>11
  <2> HIDE DEF L
  <2> QED BY <2>1, <1>10 DEF Kept
<1>16. \A k \in 1..n : k > m => L[k] = CleanEntry
  BY <1>1, <1>11
<1>17. m \in 0..n
  BY <1>1, <1>11
<1> HIDE DEF L, m
<1> QED BY <1>13, <1>14, <1>15, <1>16, <1>17 DEF n, s

-----------------------------------------------------------------------------
(* The cache lookup.                                                        *)
LEMMA MirrorsOK ==
  ASSUME NEW t \in Tg
  PROVE  /\ Mirrors(t) \subseteq Pv /\ IsFiniteSet(Mirrors(t))
         /\ Cardinality(Mirrors(t)) \in Nat /\ Cardinality(Mirrors(t)) <= NPvWait
<1> DEFINE s == Copies[Part[t]]
<1>1. Part[t] \in Lp
  BY CopiesAssumption
<1>2. s \in Seq(Pv) /\ NPvWait >= Len(s) /\ NPvWait \in Nat
  <2>1. s \in Seq(Pv)
    BY <1>1, CopiesAssumption
  <2>2. NPvWait >= Len(s) /\ NPvWait \in Nat
    BY <1>1, SizeAssumption
  <2> QED BY <2>1, <2>2
<1>3. Mirrors(t) = Range(s)
  BY DEF Mirrors
<1> HIDE DEF s
<1>4. Range(s) \subseteq Pv
  BY <1>2, RangeEmpty
<1>5. Len(s) \in Nat /\ DOMAIN s = 1..Len(s)
  BY <1>2
<1>6. s \in Surjection(1..Len(s), Range(s))
  BY <1>2, <1>5 DEF Surjection, Range
<1>7. Cardinality(Range(s)) <= Len(s)
  BY <1>5, <1>6, FS_SurjCardinalityBound DEF ExistsSurjection
<1>8. IsFiniteSet(Range(s)) /\ Cardinality(Range(s)) \in Nat
  BY <1>4, SizeAssumption, FS_Subset, FS_CardinalityType
<1> QED BY <1>2, <1>3, <1>4, <1>5, <1>7, <1>8

LEMMA RoomFor ==
  ASSUME NEW c \in MemType, NEW r \in Req, r \notin c.cached
  PROVE  Cardinality(Users(c, c.lb[r])) + 1 \in 0..Cardinality(Req)
<1> DEFINE U == Users(c, c.lb[r])
<1>1. U \in SUBSET Req /\ r \notin U
  BY CacheFields DEF Users
<1>2. IsFiniteSet(U) /\ Cardinality(U) \in Nat
  <2>1. IsFiniteSet(U)
    BY UsersFinite
  <2> QED BY <2>1, FS_CardinalityType
<1> HIDE DEF U
<1>3. Cardinality(U \cup {r}) = Cardinality(U) + 1
  BY <1>1, <1>2, FS_AddElement
<1>4. U \cup {r} \in SUBSET Req /\ Cardinality(Req) \in Nat
  BY <1>1, SizeAssumption, FS_CardinalityType
<1>5. Cardinality(U \cup {r}) <= Cardinality(Req)
  BY <1>4, SizeAssumption, FS_Subset
<1> QED BY <1>2, <1>3, <1>4, <1>5 DEF U

LEMMA Hold ==
  ASSUME NEW c, NEW B \in SUBSET Req, NEW D, Sound(c, B, D),
         NEW r \in Req, r \notin Queued(c), r \notin B, r \notin c.cached, c.lb[r] # NULL
  PROVE  LET d == Held(c, r)
         IN  Sound(d, B, D) /\ Leaves(c, d, B) /\ d.lb = c.lb /\ d.ca_lst = c.ca_lst
<1> DEFINE Q == Append(c.ca_hld, r)
           d == [c EXCEPT !.ca_hld = Q]
<1>0. c \in MemType /\ c.lb \in [Req -> Tg \cup {NULL}] /\ c.ca_hld \in Seq(Req) /\ IsInjective(c.ca_hld)
  BY CacheFields DEF Sound, Places
<1>1. r \notin Range(c.ca_hld) /\ r \notin Range(c.pending_Q) /\ r \notin Waiting(c)
  BY DEF Queued
<1>2. Q \in Seq(Req) /\ Range(Q) = Range(c.ca_hld) \cup {r} /\ IsInjective(Q)
  BY <1>0, <1>1, RangeAppend
<1> HIDE DEF Q
<1>3. /\ d.flags = c.flags /\ d.ca_lst = c.ca_lst /\ d.ca_pv = c.ca_pv /\ d.ca_freepvw = c.ca_freepvw
      /\ d.av_forw = c.av_forw /\ d.pvwrt = c.pvwrt /\ d.ca_inflt_cnt = c.ca_inflt_cnt
      /\ d.cached = c.cached /\ d.ca_hld = Q
      /\ d.pending_Q = c.pending_Q /\ d.lb = c.lb
  BY <1>0 DEF MemType
<1>4. d \in MemType
  BY <1>0, <1>2 DEF MemType
<1> HIDE DEF d
<1>5. Waits(d) = Waits(c) /\ Waiting(d) = Waiting(c) /\ \A q \in Req : WaitsFor(d, q) = WaitsFor(c, q)
  BY <1>3 DEF WaitsFor, Waits, Waiting
<1>6. Queued(d) = Queued(c) \cup {r}
  BY <1>2, <1>3, <1>5 DEF Queued
<1>7. Tally(d)
  <2>1. Tally(c)
    BY DEF Sound
  <2> QED BY <2>1, <1>0, <1>3, <1>4, TallyFrame
<1>8. Tickets(d) /\ Flow(d, D)
  BY <1>3, <1>5 DEF Sound, Tickets, Flow
<1>9. Places(d, B)
  <2>1. \A q \in Queued(d) \cup d.cached \cup B : d.lb[q] # NULL
    BY <1>3, <1>6 DEF Sound, Places
  <2>2. B \cap Queued(d) = {}
    BY <1>6 DEF Sound, Places
  <2> QED BY <2>1, <2>2, <1>1, <1>2, <1>3, <1>5 DEF Sound, Places
<1>11. Leaves(c, d, B)
  BY <1>0, <1>3 DEF Leaves
<1> QED BY <1>3, <1>4, <1>7, <1>8, <1>9, <1>11 DEF Sound, d, Q, Held

LEMMA HitOK ==
  ASSUME NEW c, NEW B \in SUBSET Req, NEW D, Sound(c, B, D), Moves(c),
         NEW r \in Req, r \notin Queued(c), r \notin B, r \notin c.cached, c.lb[r] \in Image(c)
  PROVE  LET d == hd_ca_hit(c, r)
         IN  /\ Sound(d, B, D) /\ Moves(d) /\ Leaves(c, d, B) /\ d.lb = c.lb
             /\ Queued(d) = Queued(c) /\ d.pending_Q = c.pending_Q
<1> DEFINE t == c.lb[r]
           i == EntryOf(c, t)
           e == [c.ca_lst[i] EXCEPT !.iocnt = @ + 1]
           L == <<e>> \o RemoveAt(c.ca_lst, i)
           C == c.cached \cup {r}
           d == [c EXCEPT !.ca_lst = L, !.cached = C]
<1>0. /\ c \in MemType /\ c.lb \in [Req -> Tg \cup {NULL}] /\ Tally(c)
      /\ c.ca_lst \in [1..ca_size -> Entry] /\ c.cached \in SUBSET Req
  BY CacheFields DEF Sound
<1>1. i \in 1..ca_size /\ c.ca_lst[i].tg = t /\ t # NULL
  BY <1>0, InImage
<1>2. c.ca_lst[i] \in Entry /\ c.ca_lst[i].iocnt = Cardinality(Users(c, t)) /\ c.ca_lst[i].iocnt \in Nat
  BY <1>0, <1>1, EntryFields DEF Tally
<1>3. e \in Entry /\ e.tg = t /\ e.iocnt = c.ca_lst[i].iocnt + 1
  <2>1. c.ca_lst[i].iocnt + 1 \in 0..Cardinality(Req)
    BY <1>0, <1>2, RoomFor
  <2> QED BY <2>1, <1>1, <1>2 DEF Entry
<1>4. hd_ca_hit(c, r) = d
  <2>1. hd_ca_use(c, i, e, "CAHEAD") = [c EXCEPT !.ca_lst = L]
    BY DEF hd_ca_use
  <2> HIDE DEF L
  <2>2. [c EXCEPT !.ca_lst = L].cached = c.cached
    BY <1>0 DEF MemType
  <2> QED BY <2>1, <2>2 DEF hd_ca_hit
<1> HIDE DEF e, i
<1>5. ca_size \in Nat
  BY SizeAssumption
<1>6. L \in [1..ca_size -> Entry] /\ \E f : Shuffled(L, c.ca_lst, ca_size, i, e, f)
  BY <1>0, <1>1, <1>3, <1>5, PutFirst
<1> HIDE DEF L
<1>7. PICK f : Shuffled(L, c.ca_lst, ca_size, i, e, f)
  BY <1>6
<1>8. C \in SUBSET Req /\ C = c.cached \cup {r}
  BY <1>0
<1> HIDE DEF C
<1>9. /\ d.flags = c.flags /\ d.ca_lst = L /\ d.ca_pv = c.ca_pv /\ d.ca_freepvw = c.ca_freepvw
      /\ d.av_forw = c.av_forw /\ d.pvwrt = c.pvwrt /\ d.ca_inflt_cnt = c.ca_inflt_cnt
      /\ d.cached = C /\ d.ca_hld = c.ca_hld
      /\ d.pending_Q = c.pending_Q /\ d.lb = c.lb
  BY <1>0 DEF MemType
<1>10. d \in MemType
  BY <1>0, <1>6, <1>8 DEF MemType
<1> HIDE DEF d
<1>11. Tally(d)
  <2>1. Shuffled(d.ca_lst, c.ca_lst, ca_size, i, e, f) /\ d.cached = c.cached \cup {r} /\ d.lb = c.lb
        /\ e.tg = c.lb[r] /\ c.lb[r] # NULL /\ c.ca_lst[i].tg = c.lb[r]
    BY <1>1, <1>3, <1>7, <1>8, <1>9
  <2> QED BY <2>1, <1>0, <1>1, <1>3, <1>10, TallyUse
<1>12. Waits(d) = Waits(c) /\ Waiting(d) = Waiting(c) /\ \A q \in Req : WaitsFor(d, q) = WaitsFor(c, q)
  BY <1>9 DEF WaitsFor, Waits, Waiting
<1>13. Queued(d) = Queued(c)
  BY <1>9, <1>12 DEF Queued
<1>14. Tickets(d) /\ Flow(d, D)
  BY <1>9, <1>12 DEF Sound, Tickets, Flow
<1>15. Places(d, B)
  <2>1. \A q \in Queued(d) \cup d.cached \cup B : d.lb[q] # NULL
    BY <1>1, <1>8, <1>9, <1>13 DEF Sound, Places
  <2>2. Range(d.ca_hld) \cap d.cached = {}
    BY <1>8, <1>9 DEF Sound, Places, Queued
  <2>3. Waiting(d) \subseteq d.cached
    BY <1>8, <1>9, <1>12 DEF Sound, Places
  <2> QED BY <2>1, <2>2, <2>3, <1>9, <1>12, <1>13 DEF Sound, Places
<1>16. Moves(d)
  <2>1. hd_ca_new(c) = {} => hd_ca_new(d) = {}
    <3>1. \A k \in 1..ca_size : L[k] = IF f[k] = i THEN e ELSE c.ca_lst[f[k]]
      BY <1>7 DEF Shuffled
    <3>2. f \in [1..ca_size -> 1..ca_size]
      BY <1>7 DEF Shuffled
    <3>3. e.iocnt # 0
      BY <1>2, <1>3
    <3> QED BY <3>1, <3>2, <3>3, <1>9 DEF hd_ca_new
  <2> QED BY <2>1, <1>9 DEF Moves
<1>17. Leaves(c, d, B)
  BY <1>0, <1>9 DEF Leaves
<1>18. Sound(d, B, D)
  BY <1>10, <1>11, <1>14, <1>15 DEF Sound
<1> QED BY <1>4, <1>9, <1>13, <1>16, <1>17, <1>18

LEMMA TakeOK ==
  ASSUME NEW c, NEW B \in SUBSET Req, NEW D, Sound(c, B, D), Moves(c),
         "CA_INFLT" \notin c.flags, hd_ca_new(c) # {}
  PROVE  LET d == [hd_ca_use(c, Max(hd_ca_new(c)), CleanEntry, "CATAIL") EXCEPT !.flags = @ \ {"CA_FULL"}]
         IN  /\ Sound(d, B, D) /\ Moves(d) /\ d.flags = c.flags \ {"CA_FULL"} /\ d.lb = c.lb
             /\ Image(d) \subseteq Image(c) /\ d.ca_lst[ca_size] = CleanEntry
             /\ Queued(d) = Queued(c) /\ d.cached = c.cached /\ d.ca_freepvw = c.ca_freepvw
<1> DEFINE i == Max(hd_ca_new(c))
           L == Append(RemoveAt(c.ca_lst, i), CleanEntry)
           F == c.flags \ {"CA_FULL"}
           d == [c EXCEPT !.ca_lst = L, !.flags = F]
<1>0. /\ c \in MemType /\ c.lb \in [Req -> Tg \cup {NULL}] /\ Tally(c)
      /\ c.ca_lst \in [1..ca_size -> Entry] /\ c.flags \in SUBSET Flag
  BY CacheFields DEF Sound
<1>1. ca_size \in Nat
  BY SizeAssumption
<1>2. i \in 1..ca_size /\ c.ca_lst[i].iocnt = 0
  <2>1. hd_ca_new(c) \in SUBSET (1..ca_size)
    BY DEF hd_ca_new
  <2>2. i \in hd_ca_new(c)
    BY <2>1, <1>1, MaxIn
  <2> QED BY <2>2 DEF hd_ca_new
<1>3. CleanEntry \in Entry
  <2>1. Cardinality(Req) \in Nat
    BY SizeAssumption, FS_CardinalityType
  <2>2. 0 \in 0..Cardinality(Req)
    BY <2>1
  <2> QED BY <2>2 DEF CleanEntry, Entry
<1>4. [hd_ca_use(c, Max(hd_ca_new(c)), CleanEntry, "CATAIL") EXCEPT !.flags = @ \ {"CA_FULL"}] = d
  <2>1. hd_ca_use(c, i, CleanEntry, "CATAIL") = [c EXCEPT !.ca_lst = L]
    BY DEF hd_ca_use
  <2> HIDE DEF L
  <2>2. [c EXCEPT !.ca_lst = L].flags = c.flags
    BY <1>0 DEF MemType
  <2> QED BY <2>1, <2>2
<1> HIDE DEF i
<1>5. /\ L \in [1..ca_size -> Entry] /\ L[ca_size] = CleanEntry
      /\ \E f : Shuffled(L, c.ca_lst, ca_size, i, CleanEntry, f)
  <2>0. c.ca_lst \in [1..ca_size -> Entry] /\ i \in 1..ca_size
    BY <1>0, <1>2
  <2> HIDE DEF d
  <2>1. \E f : f[ca_size] = i /\ Shuffled(L, c.ca_lst, ca_size, i, CleanEntry, f)
    BY <2>0, <1>1, <1>3, PutLast
  <2>2. L \in [1..ca_size -> Entry]
    BY <2>0, <1>1, <1>3, PutLast
  <2> HIDE DEF L
  <2>3. L[ca_size] = CleanEntry
    <3>1. PICK f : f[ca_size] = i /\ Shuffled(L, c.ca_lst, ca_size, i, CleanEntry, f)
      BY <2>1
    <3>2. \A k \in 1..ca_size : f[k] = i => L[k] = CleanEntry
      BY <3>1 DEF Shuffled
    <3>3. ca_size \in 1..ca_size
      BY SizeAssumption
    <3> HIDE DEF i
    <3> QED BY <3>1, <3>2, <3>3
  <2> QED BY <2>1, <2>2, <2>3
<1> HIDE DEF L
<1>6. PICK f : Shuffled(L, c.ca_lst, ca_size, i, CleanEntry, f)
  BY <1>5
<1>7. F \in SUBSET Flag /\ F = c.flags \ {"CA_FULL"}
  BY <1>0
<1> HIDE DEF F
<1>9. /\ d.flags = F /\ d.ca_lst = L /\ d.ca_pv = c.ca_pv /\ d.ca_freepvw = c.ca_freepvw
      /\ d.av_forw = c.av_forw /\ d.pvwrt = c.pvwrt /\ d.ca_inflt_cnt = c.ca_inflt_cnt
      /\ d.cached = c.cached /\ d.ca_hld = c.ca_hld
      /\ d.pending_Q = c.pending_Q /\ d.lb = c.lb
  BY <1>0 DEF MemType
<1>10. d \in MemType
  BY <1>0, <1>5, <1>7 DEF MemType
<1> HIDE DEF d
<1>11. Tally(d) /\ Image(d) \subseteq Image(c)
  <2>1. Shuffled(d.ca_lst, c.ca_lst, ca_size, i, CleanEntry, f)
    BY <1>6, <1>9
  <2> QED BY <2>1, <1>0, <1>2, <1>9, <1>10, TallyTake
<1>12. Waits(d) = Waits(c) /\ Waiting(d) = Waiting(c) /\ \A q \in Req : WaitsFor(d, q) = WaitsFor(c, q)
  BY <1>9 DEF WaitsFor, Waits, Waiting
<1>13. Queued(d) = Queued(c)
  BY <1>9, <1>12 DEF Queued
<1>14. Tickets(d)
  BY <1>9, <1>12 DEF Sound, Tickets
<1>15. Flow(d, D)
  BY <1>7, <1>9 DEF Sound, Flow
<1>16. Places(d, B)
  BY <1>9, <1>12, <1>13 DEF Sound, Places
<1>17. Moves(d)
  BY <1>7, <1>9 DEF Moves
<1> QED BY <1>4, <1>5, <1>7, <1>9, <1>10, <1>11, <1>13, <1>14, <1>15, <1>16, <1>17 DEF Sound

AnEntry == [tg : Tg \cup {NULL}, state : {"CACLEAN", "CACHG", "CANOCHG"}, iocnt : Nat]

Enters(c, i, e, r) ==
  [hd_ca_pvque(hd_ca_use(c, i, e, "CAHEAD"), r)
   EXCEPT !.flags = @ \cup {"CA_VGACT"}, !.cached = @ \cup {r}]

LEMMA PvqueOK ==
  ASSUME NEW c, NEW B \in SUBSET Req, NEW D, Sound(c, B, D), "CA_INFLT" \notin c.flags,
         NEW r \in Req, r \notin Queued(c), r \notin B, r \notin c.cached, c.lb[r] \in Tg, c.lb[r] # NULL,
         NEW i \in 1..ca_size, NEW e \in AnEntry, e.tg = c.lb[r], e.iocnt = c.ca_lst[i].iocnt + 1,
         c.ca_lst[i].tg = c.lb[r] \/ (c.ca_lst[i].tg = NULL /\ c.lb[r] \notin Image(c)),
         PvWaits(c.lb[r]) # {}, Cardinality(PvWaits(c.lb[r])) <= c.ca_freepvw
  PROVE  LET d == Enters(c, i, e, r)
         IN  Sound(d, B, D) /\ Moves(d) /\ Steady(c, d, B)
<1> DEFINE t == c.lb[r]
           P == PvWaits(t)
           L == <<e>> \o RemoveAt(c.ca_lst, i)
           C == c.cached \cup {r}
           F == c.flags \cup {"CA_VGACT"}
           pv == [p \in Pv |-> IF p \in P THEN Append(c.ca_pv[p], r) ELSE c.ca_pv[p]]
           free == c.ca_freepvw - Cardinality(P)
           av == [c.av_forw EXCEPT ![r] = Cardinality(P)]
           W == c.pvwrt \cup P
           d == [c EXCEPT !.ca_lst = L, !.ca_pv = pv, !.ca_freepvw = free, !.av_forw = av,
                          !.pvwrt = W, !.flags = F, !.cached = C]
<1>0. /\ c \in MemType /\ c.lb \in [Req -> Tg \cup {NULL}] /\ Tally(c) /\ Tickets(c)
      /\ c.ca_lst \in [1..ca_size -> Entry] /\ c.cached \in SUBSET Req /\ c.flags \in SUBSET Flag
      /\ c.ca_pv \in [Pv -> Seq(Req)] /\ c.pvwrt \in SUBSET Pv
      /\ c.ca_freepvw \in Nat /\ c.ca_freepvw <= NPvWait /\ c.av_forw \in [Req -> Nat]
  BY CacheFields DEF Sound
<1>1. P \in SUBSET Pv /\ Cardinality(P) \in Nat /\ P # {} /\ Cardinality(P) <= c.ca_freepvw
  <2>1. P \subseteq Mirrors(t)
    BY DEF PvWaits
  <2>2. Mirrors(t) \subseteq Pv /\ IsFiniteSet(Mirrors(t))
    BY MirrorsOK
  <2>3. IsFiniteSet(P)
    BY <2>1, <2>2, FS_Subset
  <2> QED BY <2>1, <2>2, <2>3, FS_CardinalityType
<1>2. c.ca_lst[i].iocnt \in Nat /\ c.ca_lst[i].iocnt = Cardinality(Users(c, t))
  <2>1. c.ca_lst[i].iocnt \in Nat
    BY <1>0, EntryFields
  <2>2. CASE c.ca_lst[i].tg = t
    BY <2>1, <2>2, <1>0 DEF Tally
  <2>3. CASE c.ca_lst[i].tg = NULL /\ t \notin Image(c)
    <3>1. Users(c, t) = {}
      BY <2>3, <1>0 DEF Users, Tally
    <3> QED BY <3>1, <2>1, <2>3, <1>0, UsersFinite DEF Tally
  <2> QED BY <2>2, <2>3
<1>3. e \in Entry
  <2>1. e.iocnt \in 0..Cardinality(Req)
    BY <1>0, <1>2, RoomFor
  <2> QED BY <2>1 DEF Entry, AnEntry
<1>4. Enters(c, i, e, r) = d
  <2> DEFINE u == [c EXCEPT !.ca_lst = L]
  <2>1. hd_ca_use(c, i, e, "CAHEAD") = u
    BY DEF hd_ca_use
  <2> HIDE DEF L
  <2>2. u.flags = c.flags /\ u.cached = c.cached /\ u.lb = c.lb /\ u.ca_pv = c.ca_pv
        /\ u.ca_freepvw = c.ca_freepvw /\ u.av_forw = c.av_forw /\ u.pvwrt = c.pvwrt
    BY <1>0 DEF MemType
  <2> DEFINE v == [u EXCEPT !.ca_pv = pv, !.ca_freepvw = free, !.av_forw = av, !.pvwrt = W]
  <2>3. hd_ca_pvque(u, r) = v
    <3> HIDE DEF u
    <3> QED BY <2>2 DEF hd_ca_pvque
  <2> HIDE DEF pv, free, av, W
  <2>4. v.flags = c.flags /\ v.cached = c.cached
    BY <2>2, <1>0 DEF MemType
  <2>5. [v EXCEPT !.flags = @ \cup {"CA_VGACT"}, !.cached = @ \cup {r}] = [v EXCEPT !.flags = F, !.cached = C]
    <3> HIDE DEF v
    <3> QED BY <2>4
  <2> HIDE DEF F, C
  <2>6. [v EXCEPT !.flags = F, !.cached = C] = d
    BY <1>0 DEF MemType
  <2> HIDE DEF u, v, d
  <2> QED BY <2>1, <2>3, <2>5, <2>6 DEF Enters
<1>5. ca_size \in Nat
  BY SizeAssumption
<1>6. L \in [1..ca_size -> Entry] /\ \E f : Shuffled(L, c.ca_lst, ca_size, i, e, f)
  BY <1>0, <1>3, <1>5, PutFirst
<1> HIDE DEF L
<1>7. PICK f : Shuffled(L, c.ca_lst, ca_size, i, e, f)
  BY <1>6
<1>8. /\ C \in SUBSET Req /\ F \in SUBSET Flag /\ W \in SUBSET Pv
      /\ free \in 0..NPvWait /\ av \in [Req -> Nat]
  <2>1. C \in SUBSET Req /\ W \in SUBSET Pv
    BY <1>0, <1>1
  <2>2. F \in SUBSET Flag
    BY <1>0 DEF Flag
  <2>3. NPvWait \in Nat
    BY SizeAssumption
  <2>4. PICK k \in Nat : k = Cardinality(P) /\ k <= c.ca_freepvw
    BY <1>1
  <2>5. c.ca_freepvw - k \in 0..NPvWait
    BY <2>3, <2>4, <1>0
  <2>6. av \in [Req -> Nat]
    BY <1>0, <1>1
  <2> QED BY <2>1, <2>2, <2>4, <2>5, <2>6
<1>9. pv \in [Pv -> Seq(Req)] /\ \A p \in Pv : IsInjective(pv[p])
  <2>1. SUFFICES ASSUME NEW p \in Pv PROVE pv[p] \in Seq(Req) /\ IsInjective(pv[p])
    OBVIOUS
  <2>2. c.ca_pv[p] \in Seq(Req) /\ IsInjective(c.ca_pv[p])
    BY <1>0 DEF Sound, Places
  <2>3. r \notin Range(c.ca_pv[p])
    BY <1>0, QueuedIn DEF Queued
  <2>4. Append(c.ca_pv[p], r) \in Seq(Req) /\ IsInjective(Append(c.ca_pv[p], r))
    BY <2>2, <2>3, RangeAppend
  <2> QED BY <2>2, <2>4
<1>10. C = c.cached \cup {r} /\ F = c.flags \cup {"CA_VGACT"} /\ W = c.pvwrt \cup P
  OBVIOUS
<1>11. \A p \in Pv : p \notin P => pv[p] = c.ca_pv[p]
  OBVIOUS
<1>12. /\ d.flags = F /\ d.ca_lst = L /\ d.ca_pv = pv /\ d.ca_freepvw = free
       /\ d.av_forw = av /\ d.pvwrt = W /\ d.ca_inflt_cnt = c.ca_inflt_cnt
       /\ d.cached = C /\ d.ca_hld = c.ca_hld
       /\ d.pending_Q = c.pending_Q /\ d.lb = c.lb
  <2> HIDE DEF pv, free, av, W, F, C
  <2> QED BY <1>0 DEF MemType
<1>13. d \in MemType
  <2> HIDE DEF pv, free, av, W, F, C
  <2> QED BY <1>0, <1>6, <1>8, <1>9 DEF MemType
<1> HIDE DEF d
<1>14. Tally(d)
  <2>1. Shuffled(d.ca_lst, c.ca_lst, ca_size, i, e, f) /\ d.cached = c.cached \cup {r} /\ d.lb = c.lb
    BY <1>7, <1>12
  <2> QED BY <2>1, <1>0, <1>3, <1>13, TallyUse
<1>15. WaitsFor(c, r) = {}
  BY DEF Queued, Waiting
<1>16. Tickets(d) /\ \A q \in Req : WaitsFor(d, q) = IF q = r THEN P ELSE WaitsFor(c, q)
  <2>1. /\ \A p \in Pv : d.ca_pv[p] = IF p \in P THEN Append(c.ca_pv[p], r) ELSE c.ca_pv[p]
        /\ d.ca_freepvw = c.ca_freepvw - Cardinality(P)
        /\ \A q \in Req : d.av_forw[q] = IF q = r THEN Cardinality(P) ELSE c.av_forw[q]
    BY <1>0, <1>12
  <2>2. P \in SUBSET Pv
    BY <1>1
  <2> HIDE DEF P, pv, free, av
  <2>3. Hung(c, d, r, P)
    BY <2>1, <2>2, <1>15 DEF Hung
  <2> QED BY <2>3, <1>0, <1>13, TicketsQueue
<1> HIDE DEF pv, free, av, W, F, C, P
<1>17. Waiting(d) = Waiting(c) \cup {r}
  BY <1>1, <1>16 DEF Waiting
<1>18. Queued(d) = Queued(c) \cup {r}
  BY <1>12, <1>17 DEF Queued
<1>19. Flow(d, D)
  <2>1. \A p \in Pv : d.ca_pv[p] # <<>> => p \in d.pvwrt \cup D
    BY <1>10, <1>11, <1>12 DEF Sound, Flow
  <2>2. "CA_VGACT" \in d.flags /\ "CA_INFLT" \notin d.flags
    BY <1>10, <1>12
  <2>3. D = {}
    BY DEF Sound, Flow
  <2> QED BY <2>1, <2>2, <2>3, <1>12 DEF Sound, Flow
<1>20. Places(d, B)
  <2>1. \A q \in Queued(d) \cup d.cached \cup B : d.lb[q] # NULL
    BY <1>10, <1>12, <1>18 DEF Sound, Places
  <2>2. Range(d.ca_hld) \cap d.cached = {} /\ B \cap Queued(d) = {}
    BY <1>10, <1>12, <1>18 DEF Sound, Places, Queued
  <2>3. Waiting(d) \subseteq d.cached
    BY <1>10, <1>12, <1>17 DEF Sound, Places
  <2>4. (Range(d.pending_Q) \cup Range(d.ca_hld)) \cap Waiting(d) = {}
    BY <1>12, <1>17 DEF Sound, Places, Queued
  <2> QED BY <2>1, <2>2, <2>3, <2>4, <1>9, <1>12 DEF Sound, Places
<1>21. Moves(d)
  BY <1>10, <1>12 DEF Moves
<1>22. Steady(c, d, B)
  BY <1>10, <1>12 DEF Steady
<1> QED BY <1>4, <1>13, <1>14, <1>16, <1>19, <1>20, <1>21, <1>22 DEF Sound

(* The flags change and nothing else.                                       *)
LEMMA FlagsOK ==
  ASSUME NEW c, NEW B \in SUBSET Req, NEW D, Sound(c, B, D), NEW F \in SUBSET Flag,
         D # {} => "CA_INFLT" \in F, "CA_VGACT" \in F => "CA_INFLT" \notin F,
         c.pvwrt # {} => "CA_VGACT" \in F
  PROVE  LET d == [c EXCEPT !.flags = F]
         IN  /\ Sound(d, B, D) /\ d.flags = F /\ d.lb = c.lb /\ d.ca_lst = c.ca_lst
             /\ d.ca_hld = c.ca_hld /\ d.ca_inflt_cnt = c.ca_inflt_cnt /\ d.pvwrt = c.pvwrt
<1> DEFINE d == [c EXCEPT !.flags = F]
<1>0. c \in MemType /\ Tally(c) /\ c.cached \in SUBSET Req
  BY CacheFields DEF Sound
<1>1. /\ d.flags = F /\ d.ca_lst = c.ca_lst /\ d.ca_pv = c.ca_pv /\ d.ca_freepvw = c.ca_freepvw
      /\ d.av_forw = c.av_forw /\ d.pvwrt = c.pvwrt /\ d.ca_inflt_cnt = c.ca_inflt_cnt
      /\ d.cached = c.cached /\ d.ca_hld = c.ca_hld /\ d.pending_Q = c.pending_Q /\ d.lb = c.lb
  BY <1>0 DEF MemType
<1>2. d \in MemType
  BY <1>0 DEF MemType
<1> HIDE DEF d
<1>3. Tally(d)
  BY <1>0, <1>1, <1>2, TallyFrame
<1>4. Waits(d) = Waits(c) /\ Waiting(d) = Waiting(c) /\ \A q \in Req : WaitsFor(d, q) = WaitsFor(c, q)
  BY <1>1 DEF WaitsFor, Waits, Waiting
<1>5. Queued(d) = Queued(c)
  BY <1>1, <1>4 DEF Queued
<1>6. Tickets(d)
  BY <1>1, <1>4 DEF Sound, Tickets
<1>7. Flow(d, D)
  BY <1>1 DEF Sound, Flow
<1>8. Places(d, B)
  BY <1>1, <1>4, <1>5 DEF Sound, Places
<1> QED BY <1>1, <1>2, <1>3, <1>6, <1>7, <1>8 DEF Sound, d

(* Somebody waits for the disks, so that the record will be written.        *)
LEMMA Active ==
  ASSUME NEW c, NEW B \in SUBSET Req, NEW D, Sound(c, B, D),
         "CA_INFLT" \notin c.flags, c.ca_freepvw < NPvWait
  PROVE  "CA_VGACT" \in c.flags
<1>1. c \in MemType /\ c.ca_freepvw \in Nat /\ NPvWait \in Nat
  BY CacheFields, SizeAssumption DEF Sound
<1>2. Cardinality(Waits(c)) # 0
  <2>1. PICK n \in Nat : n = Cardinality(Waits(c))
    BY <1>1, WaitsFinite
  <2>2. c.ca_freepvw + n = NPvWait
    BY <2>1 DEF Sound, Tickets
  <2> QED BY <2>1, <2>2, <1>1
<1>3. Waits(c) # {}
  BY <1>1, <1>2, WaitsFinite
<1>4. PICK p \in Pv : c.ca_pv[p] # <<>>
  <2>1. PICK w \in Waits(c) : TRUE
    BY <1>3
  <2>2. w[1] \in Pv /\ w[2] \in Range(c.ca_pv[w[1]])
    BY <2>1 DEF Waits
  <2>3. c.ca_pv[w[1]] \in Seq(Req)
    BY <1>1, <2>2, CacheFields
  <2> QED BY <2>2, <2>3, RangeEmpty
<1>5. D = {}
  BY DEF Sound, Flow
<1>6. c.pvwrt # {}
  BY <1>4, <1>5 DEF Sound, Flow
<1> QED BY <1>6 DEF Sound, Flow

LEMMA MissOK ==
  ASSUME NEW c, NEW B \in SUBSET Req, NEW D, Sound(c, B, D), Moves(c),
         NEW r \in Req, r \notin Queued(c), r \notin B, r \notin c.cached,
         c.lb[r] \in Tg, c.lb[r] # NULL
  PROVE  LET d == hd_ca_miss(c, r)
         IN  Sound(d, B, D) /\ Moves(d) /\ Steady(c, d, B)
<1> DEFINE t == c.lb[r]
           known == t \in Image(c)
           i == IF known THEN EntryOf(c, t) ELSE Max(hd_ca_new(c))
           P == PvWaits(t)
           taken == IF known THEN c
                    ELSE [hd_ca_use(c, i, CleanEntry, "CATAIL") EXCEPT !.flags = @ \ {"CA_FULL"}]
           e == [tg |-> t, state |-> "CACHG", iocnt |-> IF known THEN c.ca_lst[i].iocnt + 1 ELSE 1]
           j == IF known THEN i ELSE ca_size
           d == hd_ca_miss(c, r)
<1>0. c \in MemType /\ c.lb \in [Req -> Tg \cup {NULL}] /\ c.flags \in SUBSET Flag
  BY CacheFields DEF Sound
<1>1. CASE "CA_INFLT" \in c.flags
  <2>1. d = Held(c, r)
    BY <1>1 DEF hd_ca_miss
  <2> HIDE DEF d
  <2>2. Sound(d, B, D) /\ Leaves(c, d, B)
    BY <2>1, Hold
  <2>3. Steady(c, d, B) /\ Moves(d)
    BY <1>1, <2>2 DEF Leaves, Steady, Moves
  <2> QED BY <2>2, <2>3 DEF d
<1>2. CASE "CA_INFLT" \notin c.flags /\ ~known /\ hd_ca_new(c) = {}
  <2> DEFINE h == Held(c, r)
             F == c.flags \cup {"CA_FULL"}
  <2>1. Sound(h, B, D) /\ Leaves(c, h, B) /\ h.lb = c.lb /\ h.ca_lst = c.ca_lst /\ h.flags = c.flags
    BY Hold DEF Leaves
  <2>2. d = [h EXCEPT !.flags = F]
    <3>1. d = [h EXCEPT !.flags = @ \cup {"CA_FULL"}]
      BY <1>2 DEF hd_ca_miss
    <3> HIDE DEF h, d
    <3> QED BY <3>1, <2>1
  <2> HIDE DEF h, d
  <2>3. F \in SUBSET Flag
    BY <1>0 DEF Flag
  <2>4. /\ D # {} => "CA_INFLT" \in F
        /\ "CA_VGACT" \in F => "CA_INFLT" \notin F
        /\ h.pvwrt # {} => "CA_VGACT" \in F
    BY <2>1 DEF Sound, Flow
  <2>5. F = c.flags \cup {"CA_FULL"}
    OBVIOUS
  <2> HIDE DEF F
  <2>6. Sound(d, B, D) /\ d.flags = F /\ d.lb = h.lb /\ d.ca_lst = h.ca_lst
    BY <2>1, <2>2, <2>3, <2>4, FlagsOK
  <2>7. hd_ca_new(d) = {}
    BY <1>2, <2>1, <2>6 DEF hd_ca_new
  <2>8. Steady(c, d, B) /\ Moves(d)
    BY <1>0, <2>1, <2>5, <2>6, <2>7 DEF Steady, Moves
  <2> QED BY <2>6, <2>8 DEF d
<1>3. CASE "CA_INFLT" \notin c.flags /\ (known \/ hd_ca_new(c) # {})
  <2>1. /\ Sound(taken, B, D) /\ Moves(taken) /\ taken.lb = c.lb
        /\ \A x \in {"CA_INFLT", "CA_VGACT", "VG_FORCEDOFF"} : x \in taken.flags <=> x \in c.flags
        /\ Queued(taken) = Queued(c) /\ taken.cached = c.cached /\ taken.ca_freepvw = c.ca_freepvw
    <3>1. CASE known
      BY <3>1
    <3>2. CASE ~known
      <4>1. taken = [hd_ca_use(c, Max(hd_ca_new(c)), CleanEntry, "CATAIL") EXCEPT !.flags = @ \ {"CA_FULL"}]
        BY <3>2
      <4> HIDE DEF taken
      <4>2. /\ Sound(taken, B, D) /\ Moves(taken) /\ taken.flags = c.flags \ {"CA_FULL"} /\ taken.lb = c.lb
            /\ Queued(taken) = Queued(c) /\ taken.cached = c.cached /\ taken.ca_freepvw = c.ca_freepvw
        BY <1>3, <3>2, <4>1, TakeOK
      <4> QED BY <4>2
    <3> QED BY <3>1, <3>2
  <2>2. /\ j \in 1..ca_size /\ e.tg = t /\ e.iocnt = taken.ca_lst[j].iocnt + 1
        /\ e \in AnEntry
        /\ taken.ca_lst[j].tg = t \/ (taken.ca_lst[j].tg = NULL /\ t \notin Image(taken))
    <3>1. CASE known
      <4>1. i = EntryOf(c, t) /\ taken = c /\ j = i /\ e = [tg |-> t, state |-> "CACHG", iocnt |-> c.ca_lst[i].iocnt + 1]
        BY <3>1
      <4> HIDE DEF i, taken, j, e
      <4>2. i \in 1..ca_size /\ c.ca_lst[i].tg = t
        BY <1>0, <3>1, <4>1, InImage
      <4>3. c.ca_lst[i].iocnt + 1 \in Nat
        <5>1. PICK k \in Nat : k = c.ca_lst[i].iocnt
          BY <1>0, <4>2, EntryFields
        <5> QED BY <5>1
      <4>4. e \in AnEntry
        BY <4>1, <4>3 DEF AnEntry
      <4> QED BY <4>1, <4>2, <4>4
    <3>2. CASE ~known
      <4>1. /\ taken = [hd_ca_use(c, Max(hd_ca_new(c)), CleanEntry, "CATAIL") EXCEPT !.flags = @ \ {"CA_FULL"}]
            /\ j = ca_size /\ e = [tg |-> t, state |-> "CACHG", iocnt |-> 1]
        BY <3>2
      <4> HIDE DEF i, taken, j, e
      <4>2. Image(taken) \subseteq Image(c) /\ taken.ca_lst[ca_size] = CleanEntry
        BY <1>3, <3>2, <4>1, TakeOK
      <4>3. ca_size \in 1..ca_size
        BY SizeAssumption
      <4>4. taken.ca_lst[j].tg = NULL /\ taken.ca_lst[j].iocnt = 0
        BY <4>1, <4>2 DEF CleanEntry
      <4>5. e.tg = t /\ e.iocnt = 1 /\ e \in AnEntry
        BY <4>1 DEF AnEntry
      <4>6. t \notin Image(taken)
        BY <3>2, <4>2
      <4> QED BY <4>1, <4>3, <4>4, <4>5, <4>6
    <3> QED BY <3>1, <3>2
  <2>3. CASE P = {}
    <3>1. d = [taken EXCEPT !.lb[r] = NULL]
      BY <1>3, <2>3 DEF hd_ca_miss
    <3> HIDE DEF taken, d, P
    <3>2. Sound(d, B \ {r}, D) /\ Moves(d) /\ Leaves(taken, d, B \ {r})
      BY <2>1, <3>1, Gone
    <3>3. B \ {r} = B
      OBVIOUS
    <3>4. d.flags = taken.flags /\ (\A q \in B : d.lb[q] = taken.lb[q])
          /\ \A q \in Req : d.lb[q] \in {taken.lb[q], NULL}
      BY <3>2, <3>3 DEF Leaves
    <3>5. Steady(c, d, B)
      BY <2>1, <3>4 DEF Steady
    <3> QED BY <3>2, <3>3, <3>5 DEF d
  <2>4. CASE P # {} /\ Cardinality(P) > c.ca_freepvw
    <3>1. d = Held(taken, r)
      BY <1>3, <2>4 DEF hd_ca_miss
    <3>2. c.ca_freepvw < NPvWait
      <4>1. P \subseteq Mirrors(t)
        BY DEF PvWaits
      <4>2. IsFiniteSet(Mirrors(t)) /\ Cardinality(Mirrors(t)) \in Nat /\ Cardinality(Mirrors(t)) <= NPvWait
        BY MirrorsOK
      <4> HIDE DEF P, t
      <4>3. IsFiniteSet(P) /\ Cardinality(P) <= Cardinality(Mirrors(t)) /\ Cardinality(P) \in Nat
        BY <4>1, <4>2, FS_Subset, FS_CardinalityType
      <4>4. c.ca_freepvw \in Nat /\ NPvWait \in Nat
        BY <1>0, CacheFields, SizeAssumption
      <4>5. PICK k \in Nat, m \in Nat : k = Cardinality(P) /\ m = Cardinality(Mirrors(t))
        BY <4>2, <4>3
      <4>6. k > c.ca_freepvw /\ k <= m /\ m <= NPvWait
        BY <2>4, <4>2, <4>3, <4>5
      <4> QED BY <4>4, <4>6
    <3> HIDE DEF taken, d, P
    <3>3. "CA_VGACT" \in taken.flags
      BY <1>3, <2>1, <3>2, Active
    <3>4. Sound(d, B, D) /\ Leaves(taken, d, B)
      BY <2>1, <3>1, Hold
    <3>5. d.flags = taken.flags /\ (\A q \in B : d.lb[q] = taken.lb[q])
          /\ \A q \in Req : d.lb[q] \in {taken.lb[q], NULL}
      BY <3>4 DEF Leaves
    <3>6. Steady(c, d, B)
      BY <2>1, <3>5 DEF Steady
    <3>7. Moves(d)
      BY <3>3, <3>5 DEF Moves
    <3> QED BY <3>4, <3>6, <3>7 DEF d
  <2>5. CASE P # {} /\ ~(Cardinality(P) > c.ca_freepvw)
    <3>1. d = Enters(taken, j, e, r)
      BY <1>3, <2>5 DEF hd_ca_miss, Enters
    <3>2. Cardinality(P) <= taken.ca_freepvw
      <4>1. P \subseteq Mirrors(t) /\ IsFiniteSet(Mirrors(t))
        BY MirrorsOK DEF PvWaits
      <4> HIDE DEF P, t, taken
      <4>2. PICK k \in Nat : k = Cardinality(P)
        BY <4>1, FS_Subset, FS_CardinalityType
      <4>3. c.ca_freepvw \in Nat
        BY <1>0, CacheFields
      <4>4. k <= c.ca_freepvw
        BY <2>5, <4>2, <4>3
      <4> QED BY <2>1, <4>2, <4>4
    <3>3. Cardinality(PvWaits(taken.lb[r])) <= taken.ca_freepvw /\ PvWaits(taken.lb[r]) # {}
      BY <2>1, <2>5, <3>2
    <3> HIDE DEF P, taken, d, e, j, known
    <3>4. "CA_INFLT" \notin taken.flags /\ r \notin Queued(taken) /\ r \notin taken.cached
          /\ taken.lb[r] \in Tg /\ taken.lb[r] # NULL
      BY <1>3, <2>1
    <3>7. /\ e.tg = taken.lb[r]
          /\ taken.ca_lst[j].tg = taken.lb[r] \/ (taken.ca_lst[j].tg = NULL /\ taken.lb[r] \notin Image(taken))
      BY <2>1, <2>2
    <3> HIDE DEF t
    <3>5. Sound(d, B, D) /\ Moves(d) /\ Steady(taken, d, B)
      <4>1. Sound(taken, B, D) /\ j \in 1..ca_size /\ e \in AnEntry /\ e.iocnt = taken.ca_lst[j].iocnt + 1
        BY <2>1, <2>2
      <4> DEFINE x == Enters(taken, j, e, r)
      <4>2. Sound(x, B, D)
        BY <4>1, <3>3, <3>4, <3>7, PvqueOK
      <4>3. Moves(x)
        BY <4>1, <3>3, <3>4, <3>7, PvqueOK
      <4>4. Steady(taken, x, B)
        BY <4>1, <3>3, <3>4, <3>7, PvqueOK
      <4> QED BY <4>2, <4>3, <4>4, <3>1
    <3>6. Steady(c, d, B)
      BY <2>1, <3>5 DEF Steady
    <3> QED BY <3>5, <3>6 DEF d
  <2> QED BY <2>3, <2>4, <2>5
<1> QED BY <1>1, <1>2, <1>3

Wrt(c) ==
  [c EXCEPT !.flags = (@ \ {"CA_VGACT"}) \cup {"CA_INFLT"},
            !.ca_inflt_cnt = @ + Cardinality(c.pvwrt), !.pvwrt = {}]

(* What is left of the cache is to be written as it is.                     *)
LEMMA WrtOK ==
  ASSUME NEW c \in MemType, NEW B \in SUBSET Req, Places(c, B), Tally(c), Tickets(c),
         c.ca_inflt_cnt = 0, \A p \in Pv : c.ca_pv[p] # <<>> => p \in c.pvwrt
  PROVE  /\ Sound(Wrt(c), B, c.pvwrt) /\ Moves(Wrt(c))
         /\ Follows(c, Wrt(c), (c.flags \ {"CA_VGACT"}) \cup {"CA_INFLT"}, B)
<1> DEFINE F == (c.flags \ {"CA_VGACT"}) \cup {"CA_INFLT"}
           n == c.ca_inflt_cnt + Cardinality(c.pvwrt)
           d == [c EXCEPT !.flags = F, !.ca_inflt_cnt = n, !.pvwrt = {}]
<1>0. /\ c.flags \in SUBSET Flag /\ c.pvwrt \in SUBSET Pv /\ c.lb \in [Req -> Tg \cup {NULL}]
      /\ c.cached \in SUBSET Req
  BY CacheFields
<1>1. IsFiniteSet(c.pvwrt) /\ Cardinality(c.pvwrt) \in Nat
  BY <1>0, SizeAssumption, FS_Subset, FS_CardinalityType
<1>2. n = Cardinality(c.pvwrt) /\ n \in Nat
  <2>1. PICK k \in Nat : k = Cardinality(c.pvwrt)
    BY <1>1
  <2> QED BY <2>1
<1>3. F \in SUBSET Flag
  BY <1>0 DEF Flag
<1>4. Wrt(c) = d
  BY DEF Wrt
<1>5. F = (c.flags \ {"CA_VGACT"}) \cup {"CA_INFLT"}
  OBVIOUS
<1> HIDE DEF F, n
<1>6. /\ d.flags = F /\ d.ca_lst = c.ca_lst /\ d.ca_pv = c.ca_pv /\ d.ca_freepvw = c.ca_freepvw
      /\ d.av_forw = c.av_forw /\ d.pvwrt = {} /\ d.ca_inflt_cnt = n
      /\ d.cached = c.cached /\ d.ca_hld = c.ca_hld /\ d.pending_Q = c.pending_Q /\ d.lb = c.lb
  BY DEF MemType
<1>7. d \in MemType
  BY <1>2, <1>3 DEF MemType
<1> HIDE DEF d
<1>8. Tally(d)
  BY <1>0, <1>6, <1>7, TallyFrame
<1>9. Waits(d) = Waits(c) /\ Waiting(d) = Waiting(c) /\ \A q \in Req : WaitsFor(d, q) = WaitsFor(c, q)
  BY <1>6 DEF WaitsFor, Waits, Waiting
<1>10. Queued(d) = Queued(c)
  BY <1>6, <1>9 DEF Queued
<1>11. Tickets(d)
  BY <1>6, <1>9 DEF Tickets
<1>12. Flow(d, c.pvwrt)
  BY <1>2, <1>5, <1>6 DEF Flow
<1>13. Places(d, B)
  BY <1>6, <1>9, <1>10 DEF Places
<1>14. Moves(d) /\ Follows(c, d, F, B)
  BY <1>0, <1>5, <1>6 DEF Moves, Follows
<1> QED BY <1>4, <1>5, <1>7, <1>8, <1>11, <1>12, <1>13, <1>14 DEF Sound

(* The cache is prepared to be written, its list of disks empty.            *)
Prepared(c, d) ==
  /\ d.flags = c.flags /\ d.ca_pv = c.ca_pv /\ d.ca_freepvw = c.ca_freepvw /\ d.av_forw = c.av_forw
  /\ d.ca_inflt_cnt = c.ca_inflt_cnt /\ d.cached = c.cached /\ d.ca_hld = c.ca_hld
  /\ d.pending_Q = c.pending_Q /\ d.lb = c.lb

LEMMA PreparedOK ==
  ASSUME NEW c, NEW B \in SUBSET Req, Sound(c, B, {}), "CA_VGACT" \notin c.flags,
         NEW d \in MemType, Prepared(c, d), Tally(d)
  PROVE  /\ Sound(Wrt(d), B, d.pvwrt) /\ Moves(Wrt(d))
         /\ Follows(c, Wrt(d), c.flags \cup {"CA_INFLT"}, B)
         /\ d.pvwrt = {} => Sound(d, B, {})
<1>0. c \in MemType
  BY DEF Sound
<1>1. Waits(d) = Waits(c) /\ Waiting(d) = Waiting(c) /\ \A q \in Req : WaitsFor(d, q) = WaitsFor(c, q)
  BY DEF WaitsFor, Waits, Waiting, Prepared
<1>2. Queued(d) = Queued(c)
  BY <1>1 DEF Queued, Prepared
<1>3. Tickets(d)
  BY <1>1 DEF Sound, Tickets, Prepared
<1>4. Places(d, B)
  BY <1>1, <1>2 DEF Sound, Places, Prepared
<1>5. d.ca_inflt_cnt = 0
  BY FS_EmptySet DEF Sound, Flow, Prepared
<1>6. \A p \in Pv : d.ca_pv[p] = <<>>
  BY DEF Sound, Flow, Prepared
<1>7. /\ Sound(Wrt(d), B, d.pvwrt) /\ Moves(Wrt(d))
      /\ Follows(d, Wrt(d), (d.flags \ {"CA_VGACT"}) \cup {"CA_INFLT"}, B)
  BY <1>3, <1>4, <1>5, <1>6, WrtOK
<1>8. d.lb = c.lb /\ (d.flags \ {"CA_VGACT"}) \cup {"CA_INFLT"} = c.flags \cup {"CA_INFLT"}
  BY DEF Prepared
<1>9. Follows(c, Wrt(d), c.flags \cup {"CA_INFLT"}, B)
  BY <1>7, <1>8 DEF Follows
<1>10. ASSUME d.pvwrt = {} PROVE Sound(d, B, {})
  <2>1. Flow(d, {})
    BY <1>5, <1>6, <1>10, FS_EmptySet DEF Sound, Flow, Prepared
  <2> QED BY <2>1, <1>3, <1>4 DEF Sound
<1> QED BY <1>7, <1>9, <1>10

(* The entries that no request uses are cleaned.                            *)
LEMMA TallyClean ==
  ASSUME NEW c \in MemType, Tally(c), NEW d \in MemType, d.ca_lst = CleanedList(c),
         d.cached = c.cached, d.lb = c.lb
  PROVE  Tally(d)
<1>0. PICK m \in 0..ca_size : \E f :
        /\ Kept(CleanedList(c), m, c.ca_lst, ca_size, f)
        /\ \A k \in 1..ca_size : k > m => CleanedList(c)[k] = CleanEntry
  BY CleanedOK
<1>1. PICK f :
        /\ Kept(CleanedList(c), m, c.ca_lst, ca_size, f)
        /\ \A k \in 1..ca_size : k > m => CleanedList(c)[k] = CleanEntry
  BY <1>0
<1>2. ca_size \in Nat
  BY SizeAssumption
<1>3. \A k \in 1..ca_size : k \notin 1..m => d.ca_lst[k].tg = NULL /\ d.ca_lst[k].iocnt = 0
  BY <1>1, <1>2 DEF CleanEntry
<1>4. \A k \in 1..m : f[k] \in 1..ca_size /\ d.ca_lst[k] = c.ca_lst[f[k]] /\ k \in 1..ca_size
  BY <1>1, <1>2 DEF Kept
<1>5. \A t : Users(d, t) = Users(c, t)
  BY DEF Users
<1>6. ASSUME NEW i \in 1..ca_size
      PROVE  d.ca_lst[i].iocnt = IF d.ca_lst[i].tg = NULL THEN 0 ELSE Cardinality(Users(d, d.ca_lst[i].tg))
  BY <1>3, <1>4, <1>5 DEF Tally
<1>7. ASSUME NEW i \in 1..ca_size, NEW j \in 1..ca_size, d.ca_lst[i].tg = d.ca_lst[j].tg, d.ca_lst[i].tg # NULL
      PROVE  i = j
  <2>1. i \in 1..m /\ j \in 1..m
    BY <1>3, <1>7
  <2>2. f[i] = f[j]
    BY <1>4, <1>7, <2>1 DEF Tally
  <2> QED BY <1>1, <2>1, <2>2 DEF Kept
<1>8. ASSUME NEW r \in c.cached PROVE d.lb[r] \in Image(d)
  <2>1. c.lb[r] \in Image(c)
    BY DEF Tally
  <2>2. PICK i \in 1..ca_size : c.ca_lst[i].tg = c.lb[r] /\ c.lb[r] # NULL
    BY <2>1, InImage
  <2>3. r \in Users(c, c.lb[r])
    BY DEF Users
  <2>4. c.ca_lst[i].iocnt # 0
    BY <2>2, <2>3, UsersFinite DEF Tally
  <2>5. ~Unused(c.ca_lst[i])
    BY <2>4 DEF Unused
  <2>6. PICK k \in 1..m : f[k] = i
    BY <1>1, <2>5 DEF Kept
  <2> QED BY <1>4, <2>2, <2>6, InImage
<1> QED BY <1>6, <1>7, <1>8 DEF Tally

LEMMA CleanOK ==
  ASSUME NEW c, NEW B \in SUBSET Req, Sound(c, B, {}), "CA_VGACT" \notin c.flags, NEW P \in SUBSET Pv
  PROVE  LET d == [c EXCEPT !.ca_lst = CleanedList(c), !.pvwrt = P]
             e == hd_ca_mvhld([d EXCEPT !.flags = @ \ {"CA_INFLT"}])
         IN  /\ Sound(Wrt(d), B, P) /\ Moves(Wrt(d))
             /\ Follows(c, Wrt(d), c.flags \cup {"CA_INFLT"}, B)
             /\ d.pvwrt = P
             /\ P = {} => /\ Sound(e, B, {}) /\ Moves(e)
                          /\ Follows(c, e, c.flags \ {"CA_INFLT"}, B)
<1> DEFINE L == CleanedList(c)
           d == [c EXCEPT !.ca_lst = L, !.pvwrt = P]
           F == c.flags \ {"CA_INFLT"}
           e == hd_ca_mvhld([d EXCEPT !.flags = F])
<1>0. c \in MemType /\ Tally(c) /\ c.flags \in SUBSET Flag
  BY CacheFields DEF Sound
<1>1. L \in [1..ca_size -> Entry] /\ L = CleanedList(c)
  BY <1>0, CleanedOK
<1> HIDE DEF L
<1>2. Prepared(c, d) /\ d.ca_lst = L /\ d.pvwrt = P
  BY <1>0 DEF MemType, Prepared
<1>3. d \in MemType
  BY <1>0, <1>1 DEF MemType
<1> HIDE DEF d
<1>4. Tally(d)
  BY <1>0, <1>1, <1>2, <1>3, TallyClean DEF Prepared
<1>5. /\ Sound(Wrt(d), B, d.pvwrt) /\ Moves(Wrt(d))
      /\ Follows(c, Wrt(d), c.flags \cup {"CA_INFLT"}, B)
      /\ d.pvwrt = {} => Sound(d, B, {})
  BY <1>2, <1>3, <1>4, PreparedOK
<1>6. ASSUME P = {} PROVE Sound(e, B, {}) /\ Moves(e) /\ Follows(c, e, F, B)
  <2>1. Sound(d, B, {}) /\ d.pvwrt = {}
    BY <1>2, <1>5, <1>6
  <2> DEFINE h == [d EXCEPT !.flags = F]
  <2>2. F \in SUBSET Flag /\ "CA_VGACT" \notin F
    BY <1>0
  <2> HIDE DEF F
  <2>3. Sound(h, B, {}) /\ h.flags = F /\ h.lb = d.lb
    BY <2>1, <2>2, FlagsOK
  <2> HIDE DEF h
  <2>4. Sound(e, B, {}) /\ e.ca_hld = <<>> /\ Leaves(h, e, B)
    <3>1. e = hd_ca_mvhld(h)
      BY DEF h
    <3> HIDE DEF e
    <3> QED BY <2>3, <3>1, MvHeld
  <2> HIDE DEF e
  <2>5. Moves(e)
    BY <2>4 DEF Moves
  <2>6. Follows(c, e, F, B)
    BY <1>2, <2>3, <2>4 DEF Leaves, Follows, Prepared
  <2> QED BY <2>4, <2>5, <2>6
<1>7. e = hd_ca_mvhld([d EXCEPT !.flags = @ \ {"CA_INFLT"}])
  BY <1>2 DEF Prepared
<1> HIDE DEF e, F
<1> QED BY <1>1, <1>2, <1>5, <1>6, <1>7 DEF d, F

(* The cache after an open.                                                 *)
LEMMA NewCacheOK == Sound(NewCache, {}, {}) /\ Moves(NewCache)
<1> DEFINE n == NewCache
<1>1. ca_size \in Nat /\ NPvWait \in Nat /\ Cardinality(Req) \in Nat
  BY SizeAssumption, FS_CardinalityType
<1>2. CleanEntry \in Entry
  <2>1. 0 \in 0..Cardinality(Req)
    BY <1>1
  <2> QED BY <2>1 DEF CleanEntry, Entry
<1>3. <<>> \in Seq(Req)
  OBVIOUS
<1>4. /\ n.flags = {} /\ n.ca_lst = [i \in 1..ca_size |-> CleanEntry] /\ n.ca_hld = <<>>
      /\ n.pending_Q = <<>> /\ n.ca_pv = [p \in Pv |-> <<>>] /\ n.ca_freepvw = NPvWait
      /\ n.av_forw = [r \in Req |-> 0] /\ n.pvwrt = {} /\ n.ca_inflt_cnt = 0
      /\ n.cached = {} /\ n.lb = [r \in Req |-> NULL]
  BY DEF NewCache
<1>5. n \in MemType
  <2>1. [i \in 1..ca_size |-> CleanEntry] \in [1..ca_size -> Entry]
    BY <1>2
  <2>2. [p \in Pv |-> <<>>] \in [Pv -> Seq(Req)]
    BY <1>3
  <2>3. NPvWait \in 0..NPvWait /\ 0 \in Nat
    BY <1>1
  <2>4. [r \in Req |-> 0] \in [Req -> Nat] /\ [r \in Req |-> NULL] \in [Req -> Tg \cup {NULL}]
    OBVIOUS
  <2> QED BY <1>3, <2>1, <2>2, <2>3, <2>4 DEF NewCache, MemType
<1> HIDE DEF n
<1>6. IsInjective(<<>>) /\ Range(<<>>) = {}
  BY <1>3, RangeEmpty
<1>7. Waits(n) = {} /\ Waiting(n) = {} /\ \A q \in Req : WaitsFor(n, q) = {}
  BY <1>4, <1>6 DEF Waits, Waiting, WaitsFor
<1>8. Queued(n) = {}
  BY <1>4, <1>6, <1>7 DEF Queued
<1>9. Places(n, {})
  BY <1>4, <1>6, <1>7, <1>8 DEF Places
<1>10. Tally(n)
  BY <1>4 DEF Tally, CleanEntry
<1>11. Tickets(n)
  <2>1. Cardinality(Waits(n)) = 0 /\ \A q \in Req : Cardinality(WaitsFor(n, q)) = 0
    BY <1>7, FS_EmptySet
  <2>2. NPvWait + 0 = NPvWait
    BY <1>1
  <2>3. \A q \in Req : n.av_forw[q] = 0
    BY <1>4
  <2> QED BY <1>4, <2>1, <2>2, <2>3 DEF Tickets
<1>12. Flow(n, {}) /\ Moves(n)
  BY <1>4, FS_EmptySet DEF Flow, Moves
<1> QED BY <1>5, <1>9, <1>10, <1>11, <1>12 DEF Sound, n

(* More or fewer requests are in write.                                     *)
LEMMA InWriteOK ==
  ASSUME NEW c, NEW B \in SUBSET Req, NEW D, Sound(c, B, D), NEW C \in SUBSET Req,
         \A r \in C \ B : r \notin Queued(c) /\ c.lb[r] # NULL
  PROVE  Sound(c, C, D)
BY DEF Sound, Places

(* A new request.                                                           *)
Accepts(c, r, t) == [c EXCEPT !.lb[r] = t, !.pending_Q = Append(@, r)]
Accepted(c, d, r, t, B) ==
  d.flags = c.flags /\ d.lb = [c.lb EXCEPT ![r] = t] /\ \A q \in B : d.lb[q] = c.lb[q]

LEMMA AcceptOK ==
  ASSUME NEW c, NEW B \in SUBSET Req, NEW D, Sound(c, B, D), Moves(c),
         NEW r \in Req, NEW t \in Tg, c.lb[r] = NULL, t # NULL
  PROVE  LET d == Accepts(c, r, t)
         IN  Sound(d, B, D) /\ Moves(d) /\ Accepted(c, d, r, t, B)
<1> DEFINE l == [c.lb EXCEPT ![r] = t]
           Q == Append(c.pending_Q, r)
           d == [c EXCEPT !.lb = l, !.pending_Q = Q]
<1>0. /\ c \in MemType /\ c.lb \in [Req -> Tg \cup {NULL}] /\ Tally(c) /\ c.cached \in SUBSET Req
      /\ c.pending_Q \in Seq(Req)
  BY CacheFields DEF Sound
<1>1. r \notin Queued(c) /\ r \notin c.cached /\ r \notin B
  BY DEF Sound, Places
<1>2. l \in [Req -> Tg \cup {NULL}] /\ \A q \in Req : l[q] = IF q = r THEN t ELSE c.lb[q]
  BY <1>0
<1>3. Q \in Seq(Req) /\ Range(Q) = Range(c.pending_Q) \cup {r} /\ IsInjective(Q)
  <2>1. IsInjective(c.pending_Q) /\ r \notin Range(c.pending_Q)
    BY <1>1 DEF Queued, Sound, Places
  <2> QED BY <2>1, <1>0, RangeAppend
<1>4. Accepts(c, r, t) = d
  BY <1>0 DEF MemType, Accepts
<1>5. l = [c.lb EXCEPT ![r] = t]
  OBVIOUS
<1> HIDE DEF l, Q
<1>6. /\ d.flags = c.flags /\ d.ca_lst = c.ca_lst /\ d.ca_pv = c.ca_pv /\ d.ca_freepvw = c.ca_freepvw
      /\ d.av_forw = c.av_forw /\ d.pvwrt = c.pvwrt /\ d.ca_inflt_cnt = c.ca_inflt_cnt
      /\ d.cached = c.cached /\ d.ca_hld = c.ca_hld /\ d.pending_Q = Q /\ d.lb = l
  BY <1>0 DEF MemType
<1>7. d \in MemType
  BY <1>0, <1>2, <1>3 DEF MemType
<1> HIDE DEF d
<1>8. Tally(d)
  <2>1. \A q \in c.cached : d.lb[q] = c.lb[q]
    BY <1>0, <1>1, <1>2, <1>6
  <2> QED BY <2>1, <1>0, <1>6, <1>7, TallyFrame
<1>9. Waits(d) = Waits(c) /\ Waiting(d) = Waiting(c) /\ \A q \in Req : WaitsFor(d, q) = WaitsFor(c, q)
  BY <1>6 DEF WaitsFor, Waits, Waiting
<1>10. Queued(d) = Queued(c) \cup {r}
  BY <1>3, <1>6, <1>9 DEF Queued
<1>11. Tickets(d)
  BY <1>6, <1>9 DEF Sound, Tickets
<1>12. Flow(d, D)
  BY <1>6 DEF Sound, Flow
<1>13. Places(d, B)
  <2>1. \A q \in Queued(d) \cup d.cached \cup B : d.lb[q] # NULL
    <3>1. Queued(c) \subseteq Req
      BY <1>0, QueuedIn DEF Queued
    <3> QED BY <3>1, <1>0, <1>2, <1>6, <1>10 DEF Sound, Places
  <2>2. /\ Range(d.pending_Q) \cap Range(d.ca_hld) = {}
        /\ (Range(d.pending_Q) \cup Range(d.ca_hld)) \cap Waiting(d) = {}
        /\ B \cap Queued(d) = {}
    BY <1>1, <1>3, <1>6, <1>9, <1>10 DEF Sound, Places, Queued
  <2> QED BY <2>1, <2>2, <1>3, <1>6, <1>9 DEF Sound, Places
<1>14. Moves(d)
  BY <1>6 DEF Moves, hd_ca_new
<1>15. \A q \in B : d.lb[q] = c.lb[q]
  BY <1>1, <1>2, <1>6
<1>16. Accepted(c, d, r, t, B)
  BY <1>5, <1>6, <1>15 DEF Accepted
<1> QED BY <1>4, <1>7, <1>8, <1>11, <1>12, <1>13, <1>14, <1>16 DEF Sound

-----------------------------------------------------------------------------
(* The cache, step by step.                                                 *)
LEMMA InWriteIn == InWrite \in SUBSET Req /\ Busy \in SUBSET Pv
BY DEF InWrite, Busy

LEMMA StrategyCache ==
  ASSUME CacheInv, NEW r \in Req, NEW t \in Tg, hd_strategy(r, t)
  PROVE  /\ CacheInv' /\ g'.flags = g.flags /\ g'.lb = [g.lb EXCEPT ![r] = t]
         /\ \A q \in InWrite : g'.lb[q] = g.lb[q]
<1>1. g' = Accepts(g, r, t) /\ g.lb[r] = NULL
  BY DEF hd_strategy, Accepts
<1>2. Sound(g, InWrite, Busy) /\ Moves(g) /\ t # NULL
  BY ValueAssumption DEF CacheInv
<1>3. InWrite' = InWrite /\ Busy' = Busy
  BY DEF hd_strategy, InWrite, Busy
<1>4. Sound(g', InWrite, Busy) /\ Moves(g') /\ Accepted(g, g', r, t, InWrite)
  BY <1>1, <1>2, InWriteIn, AcceptOK
<1> QED BY <1>3, <1>4 DEF CacheInv, Accepted

(* A request is issued, or none is.                                         *)
Issues(r) ==
  /\ writing' = [writing EXCEPT ![r] = [live |-> Live(g.lb[r]), broken |-> Broken(g.lb[r])]]
  /\ g'.lb = g.lb /\ g.lb[r] \in Tg /\ r \notin InWrite

LEMMA ParallelCache ==
  ASSUME CacheInv, Wheel, hd_parallel
  PROVE  /\ CacheInv' /\ Steady(g, g', InWrite)
         /\ UNCHANGED writing \/ \E r \in Req : Issues(r)
<1> DEFINE r == Head(g.pending_Q)
           t == g.lb[r]
           c == [g EXCEPT !.pending_Q = Tail(@)]
           d == IF NeedsCache(c, r) THEN hd_ca_hit(c, r) ELSE c
<1>0. /\ Sound(g, InWrite, Busy) /\ Moves(g) /\ g.pending_Q # <<>>
      /\ InWrite \in SUBSET Req /\ Busy' = Busy
      /\ writing \in [Req -> Issued \cup {NULL}]
  BY InWriteIn DEF CacheInv, hd_parallel, Busy, Wheel
<1>1. /\ Sound(c, InWrite, Busy) /\ Moves(c) /\ Leaves(g, c, InWrite) /\ c.lb = g.lb /\ c.cached = g.cached
      /\ r \in Req /\ r \notin Queued(c) /\ r \notin InWrite /\ c.lb[r] \in Tg /\ c.lb[r] # NULL
  BY <1>0, Dequeue
<1>2. /\ \/ NeedsCache(c, r) /\ ~IsHit(c, t) /\ g' = hd_ca_miss(c, r) /\ UNCHANGED writing
         \/ ~(NeedsCache(c, r) /\ ~IsHit(c, t)) /\ g' = [d EXCEPT !.pending_Q = <<r>> \o @] /\ UNCHANGED writing
         \/ ~(NeedsCache(c, r) /\ ~IsHit(c, t)) /\ g' = Returned(d, r) /\ UNCHANGED writing
         \/ /\ ~(NeedsCache(c, r) /\ ~IsHit(c, t)) /\ g' = d
            /\ writing' = [writing EXCEPT ![r] = [live |-> Live(t), broken |-> Broken(t)]]
  BY DEF hd_parallel
<1>3. t = c.lb[r]
  BY <1>1
<1> HIDE DEF c
<1>4. c.flags = g.flags /\ (\A q \in InWrite : c.lb[q] = g.lb[q]) /\ \A q \in Req : c.lb[q] \in {g.lb[q], NULL}
  BY <1>1 DEF Leaves
<1>5. CASE UNCHANGED writing /\ NeedsCache(c, r) /\ ~IsHit(c, t) /\ g' = hd_ca_miss(c, r)
  <2> HIDE DEF r
  <2>1. r \notin c.cached
    BY <1>5 DEF NeedsCache
  <2>2. Sound(g', InWrite, Busy) /\ Moves(g') /\ Steady(c, g', InWrite)
    BY <1>0, <1>1, <1>5, <2>1, MissOK
  <2>3. InWrite' = InWrite
    BY <1>5 DEF InWrite
  <2>4. Steady(g, g', InWrite)
    BY <1>1, <1>4, <2>2 DEF Steady
  <2> QED BY <1>0, <1>5, <2>2, <2>3, <2>4 DEF CacheInv
<1>6. ASSUME ~(NeedsCache(c, r) /\ ~IsHit(c, t))
      PROVE  /\ Sound(d, InWrite, Busy) /\ Moves(d) /\ Leaves(c, d, InWrite) /\ d.lb = c.lb
             /\ Queued(d) = Queued(c) /\ d.pending_Q \in Seq(Req)
  <2> HIDE DEF r
  <2>1. CASE NeedsCache(c, r)
    <3>1. d = hd_ca_hit(c, r) /\ c.lb[r] \in Image(c) /\ r \notin c.cached
      BY <1>3, <1>6, <2>1 DEF IsHit, NeedsCache
    <3> HIDE DEF d, t
    <3>2. /\ Sound(d, InWrite, Busy) /\ Moves(d) /\ Leaves(c, d, InWrite) /\ d.lb = c.lb
          /\ Queued(d) = Queued(c)
      BY <1>0, <1>1, <3>1, HitOK
    <3> QED BY <3>2, CacheFields DEF Sound
  <2>2. CASE ~NeedsCache(c, r)
    <3>1. d = c
      BY <2>2
    <3>2. c \in MemType /\ c.lb \in [Req -> Tg \cup {NULL}]
      BY <1>1, CacheFields DEF Sound
    <3>3. Leaves(c, c, InWrite)
      BY DEF Leaves
    <3> HIDE DEF d
    <3> QED BY <1>1, <3>1, <3>2, <3>3, CacheFields
  <2> QED BY <2>1, <2>2
<1>7. CASE UNCHANGED writing /\ ~(NeedsCache(c, r) /\ ~IsHit(c, t)) /\ g' = [d EXCEPT !.pending_Q = <<r>> \o @]
  <2> HIDE DEF r
  <2> DEFINE Q == <<r>> \o d.pending_Q
  <2>1. r \notin Queued(d) /\ d.lb[r] # NULL
    BY <1>1, <1>6, <1>7
  <2>2. Q \in Seq(Req) /\ Range(Q) = {r} \cup Range(d.pending_Q) /\ IsInjective(Q)
    <3>1. IsInjective(d.pending_Q) /\ r \notin Range(d.pending_Q)
      BY <1>6, <1>7, <2>1 DEF Sound, Places, Queued
    <3> HIDE DEF d, t
    <3> QED BY <3>1, <1>1, <1>6, <1>7, RangePush
  <2>3. g' = [d EXCEPT !.pending_Q = Q]
    <3> HIDE DEF d
    <3> QED BY <1>7
  <2> HIDE DEF d, Q
  <2>4. Sound(g', InWrite, Busy) /\ Moves(g') /\ Leaves(d, g', InWrite) /\ g'.lb = d.lb
    <3>1. Sound(d, InWrite, Busy) /\ Moves(d)
      BY <1>6, <1>7
    <3>2. Sound(g', InWrite, Busy)
      BY <1>0, <1>1, <2>1, <2>2, <2>3, <3>1, Enqueue
    <3>3. Moves(g') /\ Leaves(d, g', InWrite)
      BY <1>0, <1>1, <2>1, <2>2, <2>3, <3>1, Enqueue
    <3>4. g'.lb = d.lb
      BY <1>0, <1>1, <2>1, <2>2, <2>3, <3>1, <3>2, Enqueue
    <3> QED BY <3>2, <3>3, <3>4
  <2>5. InWrite' = InWrite
    BY <1>7 DEF InWrite
  <2>6. Steady(g, g', InWrite)
    BY <1>1, <1>4, <1>6, <1>7, <2>4 DEF Steady, Leaves
  <2> QED BY <1>0, <1>7, <2>4, <2>5, <2>6 DEF CacheInv
<1>8. CASE UNCHANGED writing /\ ~(NeedsCache(c, r) /\ ~IsHit(c, t)) /\ g' = Returned(d, r)
  <2> HIDE DEF r
  <2>1. r \notin Queued(d)
    BY <1>1, <1>6, <1>8
  <2> HIDE DEF d
  <2>2. Sound(g', InWrite \ {r}, Busy) /\ Moves(g') /\ Leaves(d, g', InWrite \ {r})
    BY <1>0, <1>1, <1>6, <1>8, <2>1, ReturnedOK
  <2>3. InWrite \ {r} = InWrite
    BY <1>1
  <2>4. InWrite' = InWrite
    BY <1>8 DEF InWrite
  <2>5. Leaves(d, g', InWrite)
    BY <2>2, <2>3
  <2>6. Steady(g, g', InWrite)
    BY <1>1, <1>4, <1>6, <1>8, <2>5 DEF Steady, Leaves
  <2> QED BY <1>0, <1>8, <2>2, <2>3, <2>4, <2>6 DEF CacheInv
<1>9. CASE /\ ~(NeedsCache(c, r) /\ ~IsHit(c, t)) /\ g' = d
           /\ writing' = [writing EXCEPT ![r] = [live |-> Live(t), broken |-> Broken(t)]]
  <2> HIDE DEF r
  <2>1. Sound(g', InWrite, Busy) /\ Moves(g') /\ Leaves(c, g', InWrite) /\ g'.lb = c.lb
        /\ Queued(g') = Queued(c)
    BY <1>6, <1>9
  <2>2. InWrite' \subseteq InWrite \cup {r} /\ InWrite' \in SUBSET Req
    BY <1>0, <1>9 DEF InWrite
  <2>3. Sound(g', InWrite', Busy)
    <3>1. \A q \in InWrite' \ InWrite : q \notin Queued(g') /\ g'.lb[q] # NULL
      BY <1>1, <2>1, <2>2
    <3> QED BY <3>1, <1>0, <2>1, <2>2, InWriteOK
  <2>4. Steady(g, g', InWrite)
    BY <1>1, <1>4, <2>1 DEF Steady, Leaves
  <2>5. Issues(r)
    BY <1>1, <1>9, <2>1 DEF Issues
  <2> QED BY <1>0, <1>1, <2>1, <2>3, <2>4, <2>5 DEF CacheInv
<1> QED BY <1>2, <1>5, <1>7, <1>8, <1>9

LEMMA ScheduleCache ==
  ASSUME CacheInv, hd_schedule, pv_pbuf \in [Pv -> {"idle", "writing", "wheel"}]
  PROVE  /\ CacheInv' /\ pv_pbuf' \in [Pv -> {"idle", "writing", "wheel"}]
         /\ \/ "CA_VGACT" \notin g.flags /\ UNCHANGED <<g, pv_pbuf>>
            \/ /\ "CA_VGACT" \in g.flags
               /\ Follows(g, g', (g.flags \ {"CA_VGACT"}) \cup {"CA_INFLT"}, InWrite)
<1>0. Sound(g, InWrite, Busy) /\ Moves(g) /\ InWrite \in SUBSET Req /\ InWrite' = InWrite
  BY InWriteIn DEF CacheInv, hd_schedule, InWrite
<1>1. CASE "CA_VGACT" \notin g.flags
  <2>1. UNCHANGED <<g, pv_pbuf>>
    BY <1>1 DEF hd_schedule
  <2>2. Busy' = Busy
    BY <2>1 DEF Busy
  <2> QED BY <1>0, <1>1, <2>1, <2>2 DEF CacheInv
<1>2. CASE "CA_VGACT" \in g.flags
  <2>1. g' = Wrt(g) /\ pv_pbuf' = [p \in Pv |-> IF p \in g.pvwrt THEN "writing" ELSE pv_pbuf[p]]
    BY <1>2 DEF hd_schedule, hd_ca_wrt, Wrt
  <2>2. Busy = {} /\ g.ca_inflt_cnt = 0 /\ g.pvwrt \in SUBSET Pv
    <3>1. Busy = {} /\ g.ca_inflt_cnt = Cardinality(Busy)
      BY <1>0, <1>2 DEF Sound, Flow
    <3>2. g.pvwrt \in SUBSET Pv
      BY <1>0, CacheFields DEF Sound
    <3> QED BY <3>1, <3>2, FS_EmptySet
  <2>3. Busy' = g.pvwrt
    <3>1. \A p \in Pv : pv_pbuf[p] = "idle"
      BY <2>2 DEF Busy
    <3> QED BY <2>1, <2>2, <3>1 DEF Busy
  <2>4. /\ Sound(g', InWrite, g.pvwrt) /\ Moves(g')
        /\ Follows(g, g', (g.flags \ {"CA_VGACT"}) \cup {"CA_INFLT"}, InWrite)
    <3>1. g \in MemType /\ Places(g, InWrite) /\ Tally(g) /\ Tickets(g)
          /\ \A p \in Pv : g.ca_pv[p] # <<>> => p \in g.pvwrt
      BY <1>0, <2>2 DEF Sound, Flow
    <3> QED BY <1>0, <2>1, <2>2, <3>1, WrtOK
  <2> QED BY <1>0, <1>2, <2>1, <2>3, <2>4 DEF CacheInv
<1> QED BY <1>1, <1>2

LEMMA CheckedOK ==
  ASSUME CacheInv, NEW M
  PROVE  LET c == Checked(g, M)
         IN  /\ Sound(c, InWrite, Busy) /\ Moves(c) /\ c.ca_inflt_cnt = g.ca_inflt_cnt
             /\ Follows(g, c, IF Quorate(M) THEN g.flags ELSE g.flags \cup {"VG_FORCEDOFF"}, Req)
<1> DEFINE c == Checked(g, M)
           F == g.flags \cup {"VG_FORCEDOFF"}
<1>0. Sound(g, InWrite, Busy) /\ Moves(g) /\ InWrite \in SUBSET Req /\ g.flags \in SUBSET Flag
  BY InWriteIn, CacheFields DEF CacheInv, Sound
<1>1. CASE Quorate(M)
  <2>1. c = g
    BY <1>1 DEF Checked
  <2>2. Follows(g, g, g.flags, Req)
    BY DEF Follows
  <2> QED BY <1>0, <1>1, <2>1, <2>2
<1>2. CASE ~Quorate(M)
  <2>1. c = [g EXCEPT !.flags = F]
    BY <1>2 DEF Checked
  <2> HIDE DEF c
  <2>2. /\ F \in SUBSET Flag /\ (Busy # {} => "CA_INFLT" \in F)
        /\ ("CA_VGACT" \in F => "CA_INFLT" \notin F) /\ (g.pvwrt # {} => "CA_VGACT" \in F)
    BY <1>0 DEF Flag, Sound, Flow
  <2>3. F = g.flags \cup {"VG_FORCEDOFF"}
    OBVIOUS
  <2> HIDE DEF F
  <2>4. /\ Sound(c, InWrite, Busy) /\ c.flags = F /\ c.lb = g.lb /\ c.ca_lst = g.ca_lst
        /\ c.ca_hld = g.ca_hld /\ c.ca_inflt_cnt = g.ca_inflt_cnt
    BY <1>0, <2>1, <2>2, FlagsOK
  <2>5. Moves(c) /\ Follows(g, c, F, Req)
    BY <1>0, <2>3, <2>4 DEF Moves, hd_ca_new, Follows
  <2> QED BY <1>2, <2>3, <2>4, <2>5 DEF c
<1> QED BY <1>1, <1>2

(* The end of a write of the record.                                        *)
LEMMA WendCache ==
  ASSUME CacheInv, NEW c, Sound(c, InWrite, Busy), NEW p \in Pv, pv_pbuf[p] # "idle",
         pv_pbuf \in [Pv -> {"idle", "writing", "wheel"}],
         pv_pbuf' = [pv_pbuf EXCEPT ![p] = "idle"], g' = hd_ca_wend(c, p), UNCHANGED writing
  PROVE  /\ CacheInv' /\ Busy' = Busy \ {p}
         /\ Follows(c, g', IF Busy = {p} /\ ~Sleeping THEN c.flags \ {"CA_INFLT"} ELSE c.flags, InWrite)
         /\ c.ca_inflt_cnt = 1 <=> Busy = {p}
<1>1. InWrite \in SUBSET Req /\ Busy \in SUBSET Pv /\ InWrite' = InWrite
  BY InWriteIn DEF InWrite
<1>2. p \in Busy /\ Busy' = Busy \ {p}
  BY DEF Busy
<1>3. /\ Sound(g', InWrite, Busy \ {p}) /\ Moves(g')
      /\ Follows(c, g', IF Busy = {p} /\ ~Sleeping THEN c.flags \ {"CA_INFLT"} ELSE c.flags, InWrite)
      /\ c.ca_inflt_cnt = 1 <=> Busy = {p}
  <2> DEFINE F == IF Busy = {p} /\ ~Sleeping THEN c.flags \ {"CA_INFLT"} ELSE c.flags
  <2>1. Sound(g', InWrite, Busy \ {p})
    BY <1>1, <1>2, WendOK
  <2>2. Moves(g')
    BY <1>1, <1>2, <2>1, WendOK
  <2>3. Follows(c, g', F, InWrite)
    BY <1>1, <1>2, <2>1, WendOK
  <2>4. c.ca_inflt_cnt = 1 <=> Busy = {p}
    <3>1. IsFiniteSet(Busy) /\ c.ca_inflt_cnt = Cardinality(Busy)
      BY <1>1, SizeAssumption, FS_Subset DEF Sound, Flow
    <3>2. Cardinality(Busy \ {p}) = Cardinality(Busy) - 1 /\ IsFiniteSet(Busy \ {p})
      BY <1>2, <3>1, FS_RemoveElement
    <3>3. PICK k \in Nat, m \in Nat : k = Cardinality(Busy) /\ m = Cardinality(Busy \ {p})
      BY <3>1, <3>2, FS_CardinalityType
    <3>4. m = 0 <=> Busy \ {p} = {}
      BY <3>2, <3>3, FS_EmptySet
    <3>5. k = 1 <=> m = 0
      BY <3>2, <3>3
    <3> QED BY <1>2, <3>1, <3>3, <3>4, <3>5
  <2> QED BY <2>1, <2>2, <2>3, <2>4
<1> QED BY <1>1, <1>2, <1>3 DEF CacheInv

(* A request returns.                                                       *)
LEMMA FinishedCache ==
  ASSUME CacheInv, Wheel, NEW c, Sound(c, InWrite, Busy), Moves(c), NEW r \in InWrite,
         g' = Returned(c, r), writing' = [writing EXCEPT ![r] = NULL], UNCHANGED pv_pbuf
  PROVE  CacheInv' /\ Follows(c, g', c.flags, InWrite \ {r}) /\ InWrite' = InWrite \ {r}
<1>1. InWrite \in SUBSET Req /\ InWrite' = InWrite \ {r} /\ Busy' = Busy
  BY InWriteIn DEF InWrite, Busy, Wheel
<1>2. r \in Req /\ r \notin Queued(c)
  BY <1>1 DEF Sound, Places
<1>3. Sound(g', InWrite \ {r}, Busy) /\ Moves(g') /\ Leaves(c, g', InWrite \ {r})
  BY <1>1, <1>2, ReturnedOK
<1> QED BY <1>1, <1>3 DEF CacheInv, Follows, Leaves

(* The record is written to disks none of which is busy.                    *)
LEMMA WrtCache ==
  ASSUME NEW d, Sound(Wrt(d), InWrite, d.pvwrt), Moves(Wrt(d)), d.pvwrt \in SUBSET Pv,
         Busy = {}, hd_ca_wrt(d), UNCHANGED writing,
         pv_pbuf \in [Pv -> {"idle", "writing", "wheel"}]
  PROVE  CacheInv' /\ g' = Wrt(d) /\ pv_pbuf' \in [Pv -> {"idle", "writing", "wheel"}]
<1>1. g' = Wrt(d) /\ pv_pbuf' = [p \in Pv |-> IF p \in d.pvwrt THEN "writing" ELSE pv_pbuf[p]]
  BY DEF hd_ca_wrt, Wrt
<1>2. \A p \in Pv : pv_pbuf[p] = "idle"
  BY DEF Busy
<1>3. Busy' = d.pvwrt /\ InWrite' = InWrite
  BY <1>1, <1>2 DEF Busy, InWrite
<1>4. pv_pbuf' \in [Pv -> {"idle", "writing", "wheel"}]
  BY <1>1
<1> QED BY <1>1, <1>3, <1>4 DEF CacheInv

LEMMA CleanCache ==
  ASSUME NEW c, Sound(c, InWrite, {}), "CA_VGACT" \notin c.flags, Busy = {}, Clean(c), UNCHANGED writing,
         pv_pbuf \in [Pv -> {"idle", "writing", "wheel"}]
  PROVE  /\ CacheInv' /\ pv_pbuf' \in [Pv -> {"idle", "writing", "wheel"}]
         /\ \/ proc' = "writing" /\ lock' = "free" /\ Follows(c, g', c.flags \cup {"CA_INFLT"}, InWrite)
            \/ /\ proc' = "none" /\ lock' = "schedule" /\ UNCHANGED pv_pbuf
               /\ Follows(c, g', c.flags \ {"CA_INFLT"}, InWrite)
<1> DEFINE P == IF \E i \in 1..ca_size : Unused(c.ca_lst[i]) THEN Pv \ missing ELSE {}
           d == [c EXCEPT !.ca_lst = CleanedList(c), !.pvwrt = P]
           e == hd_ca_mvhld([d EXCEPT !.flags = @ \ {"CA_INFLT"}])
<1>1. \/ P # {} /\ hd_ca_wrt(d) /\ proc' = "writing" /\ lock' = "free"
      \/ P = {} /\ g' = e /\ proc' = "none" /\ lock' = "schedule" /\ UNCHANGED pv_pbuf
  BY DEF Clean
<1>2. P \in SUBSET Pv
  OBVIOUS
<1> HIDE DEF P
<1>3. /\ Sound(Wrt(d), InWrite, P) /\ Moves(Wrt(d))
      /\ Follows(c, Wrt(d), c.flags \cup {"CA_INFLT"}, InWrite)
      /\ d.pvwrt = P
      /\ P = {} => /\ Sound(e, InWrite, {}) /\ Moves(e)
                   /\ Follows(c, e, c.flags \ {"CA_INFLT"}, InWrite)
  BY <1>2, InWriteIn, CleanOK
<1> HIDE DEF d, e
<1>4. CASE P # {} /\ hd_ca_wrt(d) /\ proc' = "writing" /\ lock' = "free"
  <2>1. CacheInv' /\ g' = Wrt(d) /\ pv_pbuf' \in [Pv -> {"idle", "writing", "wheel"}]
    BY <1>2, <1>3, <1>4, WrtCache
  <2> QED BY <1>3, <1>4, <2>1
<1>5. CASE P = {} /\ g' = e /\ proc' = "none" /\ lock' = "schedule" /\ UNCHANGED pv_pbuf
  <2>1. Busy' = {} /\ InWrite' = InWrite
    BY <1>5 DEF Busy, InWrite
  <2> QED BY <1>3, <1>5, <2>1 DEF CacheInv
<1> QED BY <1>1, <1>4, <1>5

LEMMA ReservedOK ==
  ASSUME CacheInv, "CA_VGACT" \notin g.flags
  PROVE  LET c == [g EXCEPT !.flags = @ \cup {"CA_INFLT"}]
         IN  /\ Sound(c, InWrite, Busy) /\ "CA_VGACT" \notin c.flags
             /\ Follows(g, c, g.flags \cup {"CA_INFLT"}, Req)
<1> DEFINE F == g.flags \cup {"CA_INFLT"}
           c == [g EXCEPT !.flags = F]
<1>0. Sound(g, InWrite, Busy) /\ InWrite \in SUBSET Req /\ g.flags \in SUBSET Flag
  BY InWriteIn, CacheFields DEF CacheInv, Sound
<1>1. /\ F \in SUBSET Flag /\ (Busy # {} => "CA_INFLT" \in F) /\ "CA_VGACT" \notin F
      /\ (g.pvwrt # {} => "CA_VGACT" \in F)
  BY <1>0 DEF Flag, Sound, Flow
<1>2. F = g.flags \cup {"CA_INFLT"}
  OBVIOUS
<1> HIDE DEF F
<1>3. Sound(c, InWrite, Busy) /\ c.flags = F /\ c.lb = g.lb
  BY <1>0, <1>1, FlagsOK
<1> HIDE DEF c
<1>4. Follows(g, c, F, Req)
  BY <1>3 DEF Follows
<1> QED BY <1>1, <1>2, <1>3, <1>4 DEF c

LEMMA CleanWrittenCache ==
  ASSUME CacheInv, Busy = {}, CleanWritten
  PROVE  CacheInv' /\ Follows(g, g', g.flags \ {"CA_INFLT"}, InWrite)
<1> DEFINE F == g.flags \ {"CA_INFLT"}
           c == [g EXCEPT !.flags = F]
<1>0. Sound(g, InWrite, {}) /\ InWrite \in SUBSET Req /\ g.flags \in SUBSET Flag
  BY InWriteIn, CacheFields DEF CacheInv, Sound
<1>1. /\ F \in SUBSET Flag /\ ("CA_VGACT" \in F => "CA_INFLT" \notin F)
      /\ (g.pvwrt # {} => "CA_VGACT" \in F)
  BY <1>0 DEF Flag, Sound, Flow
<1>2. F = g.flags \ {"CA_INFLT"} /\ g' = hd_ca_mvhld(c)
  BY DEF CleanWritten
<1> HIDE DEF F
<1>3. Sound(c, InWrite, {}) /\ c.flags = F /\ c.lb = g.lb
  BY <1>0, <1>1, FlagsOK
<1> HIDE DEF c
<1>4. Sound(g', InWrite, {}) /\ g'.ca_hld = <<>> /\ Leaves(c, g', InWrite)
  BY <1>0, <1>2, <1>3, MvHeld
<1>5. Busy' = {} /\ InWrite' = InWrite
  BY DEF CleanWritten, Busy, InWrite
<1>6. Moves(g') /\ Follows(g, g', F, InWrite)
  BY <1>3, <1>4 DEF Moves, Follows, Leaves
<1> QED BY <1>2, <1>4, <1>5, <1>6 DEF CacheInv

LEMMA InitmwcCache ==
  ASSUME CacheInv, Busy = {}, "CA_VGACT" \notin g.flags, hd_kdis_initmwc,
         pv_pbuf \in [Pv -> {"idle", "writing", "wheel"}]
  PROVE  /\ CacheInv' /\ pv_pbuf' \in [Pv -> {"idle", "writing", "wheel"}]
         /\ Follows(g, g', g.flags \cup {"CA_INFLT"}, InWrite)
<1> DEFINE P == Pv \ missing
           d == [g EXCEPT !.pvwrt = P]
<1>0. Sound(g, InWrite, {}) /\ InWrite \in SUBSET Req /\ g \in MemType /\ Tally(g) /\ g.cached \in SUBSET Req
  BY InWriteIn, CacheFields DEF CacheInv, Sound
<1>1. hd_ca_wrt(d) /\ UNCHANGED writing
  BY DEF hd_kdis_initmwc
<1>2. P \in SUBSET Pv
  OBVIOUS
<1> HIDE DEF P
<1>3. Prepared(g, d) /\ d.ca_lst = g.ca_lst /\ d.pvwrt = P
  BY <1>0 DEF MemType, Prepared
<1>4. d \in MemType
  BY <1>0, <1>2 DEF MemType
<1> HIDE DEF d
<1>5. Tally(d)
  BY <1>0, <1>3, <1>4, TallyFrame DEF Prepared
<1>6. Sound(Wrt(d), InWrite, d.pvwrt) /\ Moves(Wrt(d)) /\ Follows(g, Wrt(d), g.flags \cup {"CA_INFLT"}, InWrite)
  BY <1>0, <1>3, <1>4, <1>5, PreparedOK
<1>7. CacheInv' /\ g' = Wrt(d) /\ pv_pbuf' \in [Pv -> {"idle", "writing", "wheel"}]
  BY <1>1, <1>2, <1>3, <1>6, WrtCache
<1> QED BY <1>6, <1>7

LEMMA EmptyCache ==
  ASSUME NEW F \in SUBSET Flag, "CA_VGACT" \notin F, g' = [NewCache EXCEPT !.flags = F],
         InWrite' = {}, Busy' = {}
  PROVE  CacheInv' /\ g'.flags = F /\ g'.lb = [r \in Req |-> NULL]
<1>1. /\ Sound(g', {}, {}) /\ g'.flags = F /\ g'.lb = NewCache.lb /\ g'.ca_hld = NewCache.ca_hld
  <2>1. NewCache.pvwrt = {}
    BY DEF NewCache
  <2> QED BY <2>1, NewCacheOK, FlagsOK
<1>2. NewCache.lb = [r \in Req |-> NULL] /\ NewCache.ca_hld = <<>>
  BY DEF NewCache
<1> QED BY <1>1, <1>2 DEF CacheInv, Moves

-----------------------------------------------------------------------------
(* What the other parts of the invariant need of a step.                    *)
LEMMA NoneLeft ==
  ASSUME CacheInv', \A r \in Req : g'.lb[r] \in {g.lb[r], NULL}, g.lb = [r \in Req |-> NULL]
  PROVE  g'.lb = [r \in Req |-> NULL]
<1>1. g'.lb \in [Req -> Tg \cup {NULL}]
  BY CacheFields DEF CacheInv, Sound
<1> QED BY <1>1

LEMMA WheelFrame ==
  ASSUME Wheel, UNCHANGED <<onwheel, stale, chging>>, writing' \in [Req -> Issued \cup {NULL}],
         \A r \in Req : onwheel[r] # NULL => writing'[r] # NULL /\ g'.lb[r] = g.lb[r],
         missing' \subseteq Pv, sa_miss' \subseteq Pv, ForcedOff(g) => ForcedOff(g')
  PROVE  Wheel'
<1>1. \A r \in Req : MarkedBy(r)' = MarkedBy(r)
  BY DEF MarkedBy
<1> QED BY <1>1 DEF Wheel

LEMMA RecordingFrame ==
  ASSUME Recording, UNCHANGED <<onwheel, stale, chging, sa_stale, behind, mode, rcv>>,
         count'.off = 0 => count.off = 0 /\ ~ForcedOff(g'),
         \A r \in InWrite' : r \in InWrite /\ writing'[r] = writing[r] /\ g'.lb[r] = g.lb[r],
         \A r \in Req : onwheel[r] # NULL => g'.lb[r] = g.lb[r],
         mode = "recover" /\ proc' # "none" => proc # "none"
  PROVE  Recording'
BY DEF Recording, OnRecord

(* A request that is on the wheel is in write.                              *)
LEMMA WheelWrites ==
  ASSUME Wheel, NEW r \in Req, onwheel[r] # NULL
  PROVE  r \in InWrite
BY DEF Wheel, InWrite

LEMMA StrategyStep ==
  ASSUME IInv, NEW r \in Req, NEW t \in Tg, hd_strategy(r, t)
  PROVE  IInv'
<1>1. CacheInv /\ Control /\ Wheel /\ Recording
  BY DEF IInv
<1>2. /\ CacheInv' /\ g'.flags = g.flags /\ \A q \in InWrite : g'.lb[q] = g.lb[q]
  BY <1>1, StrategyCache
<1>3. /\ mode = "up" /\ lock' = "schedule" /\ count'.off = count.off /\ InWrite' = InWrite /\ Busy' = Busy
      /\ UNCHANGED <<writing, onwheel, pv_pbuf, missing, proc, mwc_tm, stale, chging, disks, mode, rcv>>
  BY DEF hd_strategy, InWrite, Busy
<1>4. Control'
  BY <1>1, <1>2, <1>3 DEF Control
<1>5. \A q \in Req : onwheel[q] # NULL => q \in InWrite
  BY <1>1, WheelWrites
<1>6. Wheel'
  BY <1>1, <1>2, <1>3, <1>5, WheelFrame DEF Wheel, ForcedOff, disks
<1>7. Recording'
  BY <1>1, <1>2, <1>3, <1>5, RecordingFrame DEF Recording, ForcedOff, disks
<1> QED BY <1>2, <1>4, <1>6, <1>7 DEF IInv

LEMMA ParallelUp ==
  ASSUME CacheInv, hd_parallel
  PROVE  g.lb # [q \in Req |-> NULL]
<1>1. Sound(g, InWrite, Busy) /\ Moves(g) /\ g.pending_Q # <<>> /\ InWrite \in SUBSET Req
  BY InWriteIn DEF CacheInv, hd_parallel
<1> DEFINE c == [g EXCEPT !.pending_Q = Tail(@)]
           r == Head(g.pending_Q)
<1>2. c.lb = g.lb /\ r \in Req /\ c.lb[r] # NULL
  BY <1>1, Dequeue
<1> HIDE DEF c, r
<1> QED BY <1>2

LEMMA ParallelStep ==
  ASSUME IInv, hd_parallel
  PROVE  IInv'
<1>1. CacheInv /\ Control /\ Wheel /\ Recording
  BY DEF IInv
<1>2. /\ CacheInv' /\ Steady(g, g', InWrite) /\ g.lb # [q \in Req |-> NULL]
      /\ UNCHANGED writing \/ \E r \in Req : Issues(r)
  BY <1>1, ParallelCache, ParallelUp
<1>3. /\ lock' \in {"schedule", "blocked"} /\ Busy' = Busy
      /\ UNCHANGED <<onwheel, pv_pbuf, missing, proc, stale, chging, disks, mode, rcv, count>>
  BY DEF hd_parallel, Busy
<1>4. mode = "up"
  BY <1>1, <1>2 DEF Control
<1>5. Control'
  BY <1>1, <1>2, <1>3, <1>4 DEF Control, Steady
<1>6. /\ ForcedOff(g) <=> ForcedOff(g')
      /\ \A q \in InWrite : g'.lb[q] = g.lb[q]
  BY <1>2 DEF Steady, ForcedOff
<1>7. \A q \in Req : onwheel[q] # NULL => q \in InWrite
  BY <1>1, WheelWrites
<1>8. CASE UNCHANGED writing
  <2>1. InWrite' = InWrite
    BY <1>8 DEF InWrite
  <2>2. Wheel'
    BY <1>1, <1>3, <1>6, <1>7, <1>8, WheelFrame DEF Wheel, disks
  <2>3. Recording'
    BY <1>1, <1>3, <1>6, <1>7, <1>8, <2>1, RecordingFrame DEF Recording, disks
  <2> QED BY <1>2, <1>5, <2>2, <2>3 DEF IInv
<1>9. ASSUME NEW r \in Req, Issues(r) PROVE IInv'
  <2> DEFINE t == g.lb[r]
             w == [live |-> Live(t), broken |-> Broken(t)]
  <2>1. writing' = [writing EXCEPT ![r] = w] /\ g'.lb = g.lb /\ t \in Tg /\ r \notin InWrite
    BY <1>9 DEF Issues
  <2>2. w \in Issued
    <3>1. Live(t) \subseteq Pv /\ Broken(t) \subseteq Pv
      BY <2>1, MirrorsOK DEF Live, Broken, FreshIn
    <3> QED BY <3>1 DEF Issued
  <2>3. Wheel'
    <3> HIDE DEF w
    <3>1. writing' \in [Req -> Issued \cup {NULL}]
      BY <1>1, <2>1, <2>2 DEF Wheel
    <3>2. \A q \in Req : onwheel[q] # NULL => writing'[q] # NULL /\ g'.lb[q] = g.lb[q]
      BY <1>1, <1>7, <2>1 DEF Wheel
    <3> QED BY <1>1, <1>3, <1>6, <3>1, <3>2, WheelFrame DEF Wheel, disks
  <2>4. Recording'
    <3>1. InWrite' \subseteq InWrite \cup {r} /\ writing'[r] = w
          /\ \A q \in InWrite : writing'[q] = writing[q]
      <4> HIDE DEF w
      <4> QED BY <1>1, <2>1 DEF Wheel, InWrite
    <3>2. w.live = FreshIn(t, stale \ chging)
      BY DEF Live
    <3> HIDE DEF w, t
    <3>3. ASSUME count.off = 0 PROVE OnRecord(t, Mirrors(t) \ w.live)
      BY <1>1, <1>4, <3>2, <3>3 DEF Recording, OnRecord, FreshIn
    <3>4. ASSUME count.off = 0, NEW q \in InWrite'
          PROVE  OnRecord(g'.lb[q], Mirrors(g'.lb[q]) \ writing'[q].live)
      <4>1. CASE q = r
        <5>1. g'.lb[q] = t /\ writing'[q].live = w.live
          BY <2>1, <3>1, <4>1 DEF t
        <5> QED BY <3>3, <3>4, <5>1
      <4>2. CASE q # r
        <5>1. q \in InWrite /\ g'.lb[q] = g.lb[q] /\ writing'[q] = writing[q]
          BY <1>6, <3>1, <3>4, <4>2
        <5>2. OnRecord(g.lb[q], Mirrors(g.lb[q]) \ writing[q].live)
          BY <1>1, <3>4, <5>1 DEF Recording
        <5> QED BY <5>1, <5>2
      <4> QED BY <4>1, <4>2
    <3>5. UNCHANGED <<onwheel, stale, chging, sa_stale, behind, mode, proc, rcv, count>>
      BY <1>3 DEF disks
    <3> QED BY <1>1, <1>6, <1>7, <3>4, <3>5 DEF Recording, OnRecord
  <2> QED BY <1>2, <1>5, <2>3, <2>4 DEF IInv
<1> QED BY <1>2, <1>8, <1>9

LEMMA ScheduleStep ==
  ASSUME IInv, hd_schedule
  PROVE  IInv'
<1>1. CacheInv /\ Control /\ Wheel /\ Recording
  BY DEF IInv
<1>2. /\ CacheInv' /\ pv_pbuf' \in [Pv -> {"idle", "writing", "wheel"}]
      /\ \/ "CA_VGACT" \notin g.flags /\ UNCHANGED <<g, pv_pbuf>>
         \/ /\ "CA_VGACT" \in g.flags
            /\ Follows(g, g', (g.flags \ {"CA_VGACT"}) \cup {"CA_INFLT"}, InWrite)
  BY <1>1, ScheduleCache DEF Control
<1>3. /\ lock' = "free" /\ InWrite' = InWrite
      /\ UNCHANGED <<writing, onwheel, missing, proc, stale, chging, disks, mode, rcv, count>>
  BY DEF hd_schedule, InWrite
<1>4. /\ ForcedOff(g) <=> ForcedOff(g')
      /\ \A q \in InWrite : g'.lb[q] = g.lb[q]
      /\ "CA_VGACT" \notin g'.flags
      /\ "CA_INFLT" \in g.flags => "CA_INFLT" \in g'.flags
  BY <1>2 DEF Follows, ForcedOff
<1>7. Control'
  <2>1. CASE "CA_VGACT" \notin g.flags /\ UNCHANGED <<g, pv_pbuf>>
    <3>1. Busy' = Busy
      BY <2>1 DEF Busy
    <3> QED BY <1>1, <1>3, <2>1, <3>1 DEF Control
  <2>2. CASE "CA_VGACT" \in g.flags
    <3>1. "CA_INFLT" \notin g.flags
      BY <1>1, <2>2 DEF CacheInv, Sound, Flow
    <3>2. mode = "up" /\ proc = "none"
      BY <1>1, <2>2, <3>1 DEF Control
    <3> QED BY <1>1, <1>2, <1>3, <1>4, <3>2 DEF Control
  <2> QED BY <1>2, <2>1, <2>2
<1>8. \A q \in Req : onwheel[q] # NULL => q \in InWrite
  BY <1>1, WheelWrites
<1>9. Wheel'
  BY <1>1, <1>3, <1>4, <1>8, WheelFrame DEF Wheel, disks
<1>10. Recording'
  BY <1>1, <1>3, <1>4, <1>8, RecordingFrame DEF Recording, disks
<1> QED BY <1>2, <1>7, <1>9, <1>10 DEF IInv

(* The end of a write of the record, the volume group perhaps forced off.   *)
LEMMA WendStep ==
  ASSUME CacheInv, Control, NEW c, NEW p \in Pv, pv_pbuf[p] # "idle", Sound(c, InWrite, Busy),
         c.ca_inflt_cnt = g.ca_inflt_cnt, NEW F, Follows(g, c, F, Req),
         F \in {g.flags, g.flags \cup {"VG_FORCEDOFF"}},
         pv_pbuf' = [pv_pbuf EXCEPT ![p] = "idle"], g' = hd_ca_wend(c, p),
         proc' = Woken(g), lock' = "schedule", UNCHANGED <<writing, onwheel, chging, mode>>
  PROVE  /\ CacheInv' /\ Control' /\ InWrite' = InWrite
         /\ ForcedOff(g') <=> "VG_FORCEDOFF" \in F
         /\ \A r \in InWrite : g'.lb[r] = g.lb[r]
         /\ proc' # "none" => proc # "none"
<1>1. pv_pbuf \in [Pv -> {"idle", "writing", "wheel"}]
  BY DEF Control
<1>2. /\ CacheInv' /\ Busy' = Busy \ {p}
      /\ Follows(c, g', IF Busy = {p} /\ ~Sleeping THEN c.flags \ {"CA_INFLT"} ELSE c.flags, InWrite)
      /\ c.ca_inflt_cnt = 1 <=> Busy = {p}
  BY <1>1, WendCache
<1>3. c.flags = F /\ \A r \in Req : c.lb[r] = g.lb[r]
  BY DEF Follows
<1>4. /\ g'.flags = IF Busy = {p} /\ ~Sleeping THEN F \ {"CA_INFLT"} ELSE F
      /\ \A r \in InWrite : g'.lb[r] = g.lb[r]
      /\ \A r \in Req : g'.lb[r] \in {g.lb[r], NULL}
  BY <1>2, <1>3, InWriteIn DEF Follows
<1>5. /\ "CA_INFLT" \in g.flags /\ "CA_VGACT" \notin g.flags /\ p \in Busy
  BY DEF CacheInv, Sound, Flow, Busy
<1>6. proc \in {"none", "asleep", "writing", "initmwc"}
  BY <1>5 DEF Control
<1>7. /\ proc' = "none" <=> proc = "none"
      /\ proc' \in {"awake", "written", "cleared"} => Busy = {p}
      /\ proc' = proc \/ proc' = CASE proc = "asleep" -> "awake" [] proc = "writing" -> "written" [] OTHER -> "cleared"
      /\ proc # "none" => Sleeping
  BY <1>2, <1>6 DEF Woken, Sleeping
<1>8. mode = "up" \/ (mode = "recover" /\ proc = "initmwc")
  BY <1>5, <1>6 DEF Control
<1>9. proc' \in {"none", "asleep", "awake", "writing", "written", "initmwc", "cleared"}
      /\ (proc = "initmwc" => proc' \in {"initmwc", "cleared"})
      /\ (proc # "initmwc" => proc' \notin {"initmwc", "cleared"})
  BY <1>6, <1>7
<1>10. mode = "up" => proc # "initmwc"
  BY DEF Control
<1>11. "CA_VGACT" \notin g'.flags
  BY <1>4, <1>5
<1>12. proc' # "none" => "CA_INFLT" \in g'.flags
  BY <1>4, <1>5, <1>7
<1>13. mode # "up" => g'.lb = [r \in Req |-> NULL]
  BY <1>2, <1>4, NoneLeft DEF Control
<1>14. pv_pbuf' \in [Pv -> {"idle", "writing", "wheel"}]
  BY <1>1
<1>15. proc' \in {"awake", "written", "cleared"} => Busy' = {}
  BY <1>2, <1>7
<1>16. Control'
  BY <1>7, <1>8, <1>9, <1>10, <1>11, <1>12, <1>13, <1>14, <1>15 DEF Control
<1>17. InWrite' = InWrite
  BY DEF InWrite
<1>18. ForcedOff(g') <=> "VG_FORCEDOFF" \in F
  BY <1>4 DEF ForcedOff
<1> QED BY <1>2, <1>4, <1>7, <1>16, <1>17, <1>18

LEMMA CacheWrittenStep ==
  ASSUME IInv, NEW p \in Pv, CacheWritten(p)
  PROVE  IInv'
<1>1. CacheInv /\ Control /\ Wheel /\ Recording
  BY DEF IInv
<1>2. /\ pv_pbuf[p] # "idle" /\ pv_pbuf' = [pv_pbuf EXCEPT ![p] = "idle"] /\ g' = hd_ca_wend(g, p)
      /\ proc' = Woken(g) /\ lock' = "schedule"
      /\ UNCHANGED <<writing, onwheel, missing, stale, chging, sa_stale, sa_miss, behind, mode, rcv, count>>
  BY DEF CacheWritten
<1>3. Follows(g, g, g.flags, Req) /\ Sound(g, InWrite, Busy)
  BY <1>1 DEF Follows, CacheInv
<1>4. /\ CacheInv' /\ Control' /\ InWrite' = InWrite
      /\ ForcedOff(g') <=> "VG_FORCEDOFF" \in g.flags
      /\ \A r \in InWrite : g'.lb[r] = g.lb[r]
      /\ proc' # "none" => proc # "none"
  BY <1>1, <1>2, <1>3, WendStep
<1>5. \A q \in Req : onwheel[q] # NULL => q \in InWrite
  BY <1>1, WheelWrites
<1>6. Wheel'
  BY <1>1, <1>2, <1>4, <1>5, WheelFrame DEF Wheel, ForcedOff
<1>7. Recording'
  BY <1>1, <1>2, <1>4, <1>5, RecordingFrame DEF Recording, ForcedOff
<1> QED BY <1>4, <1>6, <1>7 DEF IInv

LEMMA CacheFailedStep ==
  ASSUME IInv, NEW p \in Pv, CacheFailed(p)
  PROVE  IInv'
<1>1. CacheInv /\ Control /\ Wheel /\ Recording
  BY DEF IInv
<1>2. /\ pv_pbuf[p] # "idle" /\ lock' = "schedule" /\ lock = "free" /\ missing' = missing \cup {p}
      /\ UNCHANGED <<writing, onwheel, stale, chging, sa_stale, sa_miss, behind, mode, rcv, count>>
  BY DEF CacheFailed, disks
<1>3. Follows(g, g, g.flags, Req) /\ Sound(g, InWrite, Busy)
  BY <1>1 DEF Follows, CacheInv
<1>4. /\ CacheInv' /\ Control' /\ InWrite' = InWrite
      /\ ForcedOff(g') <=> "VG_FORCEDOFF" \in g.flags
      /\ \A r \in InWrite : g'.lb[r] = g.lb[r]
      /\ proc' # "none" => proc # "none"
  <2>1. CASE ForcedOff(g)
    <3>1. pv_pbuf' = [pv_pbuf EXCEPT ![p] = "idle"] /\ g' = hd_ca_wend(g, p) /\ proc' = Woken(g)
      BY <2>1 DEF CacheFailed
    <3> QED BY <1>1, <1>2, <1>3, <3>1, WendStep
  <2>2. CASE ~ForcedOff(g)
    <3>1. pv_pbuf' = [pv_pbuf EXCEPT ![p] = "wheel"] /\ UNCHANGED <<g, proc>>
      BY <2>2 DEF CacheFailed
    <3>2. pv_pbuf' \in [Pv -> {"idle", "writing", "wheel"}] /\ Busy' = Busy /\ InWrite' = InWrite
      BY <1>1, <1>2, <3>1 DEF Control, Busy, InWrite
    <3>3. CacheInv'
      BY <1>1, <3>1, <3>2 DEF CacheInv
    <3>4. Control'
      BY <1>1, <1>2, <3>1, <3>2 DEF Control
    <3> QED BY <3>1, <3>2, <3>3, <3>4 DEF ForcedOff
  <2> QED BY <2>1, <2>2
<1>5. \A q \in Req : onwheel[q] # NULL => q \in InWrite
  BY <1>1, WheelWrites
<1>6. Wheel'
  BY <1>1, <1>2, <1>4, <1>5, WheelFrame DEF Wheel, ForcedOff
<1>7. Recording'
  BY <1>1, <1>2, <1>4, <1>5, RecordingFrame DEF Recording, ForcedOff
<1> QED BY <1>4, <1>6, <1>7 DEF IInv

LEMMA SaPvMissingStep ==
  ASSUME IInv, NEW p \in Pv, SaPvMissing(p), Ledger
  PROVE  IInv'
<1> DEFINE c == Checked(g, missing)
           F == IF Quorate(missing) THEN g.flags ELSE g.flags \cup {"VG_FORCEDOFF"}
<1>1. CacheInv /\ Control /\ Wheel /\ Recording
  BY DEF IInv
<1>2. /\ pv_pbuf[p] # "idle" /\ pv_pbuf' = [pv_pbuf EXCEPT ![p] = "idle"] /\ g' = hd_ca_wend(c, p)
      /\ proc' = Woken(g) /\ lock' = "schedule" /\ count' = CountOff(missing)
      /\ sa_miss' = IF Quorate(missing) THEN sa_miss \cup {p} ELSE sa_miss
      /\ UNCHANGED <<writing, onwheel, missing, stale, chging, sa_stale, behind, mode, rcv>>
  BY DEF SaPvMissing
<1>3. Sound(c, InWrite, Busy) /\ c.ca_inflt_cnt = g.ca_inflt_cnt /\ Follows(g, c, F, Req)
  BY <1>1, CheckedOK
<1>4. /\ F \in {g.flags, g.flags \cup {"VG_FORCEDOFF"}}
      /\ "VG_FORCEDOFF" \in F <=> ForcedOff(g) \/ ~Quorate(missing)
  BY DEF ForcedOff
<1> HIDE DEF c, F
<1>5. /\ CacheInv' /\ Control' /\ InWrite' = InWrite
      /\ ForcedOff(g') <=> "VG_FORCEDOFF" \in F
      /\ \A r \in InWrite : g'.lb[r] = g.lb[r]
      /\ proc' # "none" => proc # "none"
  BY <1>1, <1>2, <1>3, <1>4, WendStep
<1>6. \A q \in Req : onwheel[q] # NULL => q \in InWrite
  BY <1>1, WheelWrites
<1>7. Wheel'
  BY <1>1, <1>2, <1>4, <1>5, <1>6, WheelFrame DEF Wheel
<1>8. count'.off = 0 => count.off = 0 /\ Quorate(missing)
  BY <1>2 DEF CountOff, Ledger
<1>9. Recording'
  BY <1>1, <1>2, <1>4, <1>5, <1>6, <1>8, RecordingFrame DEF Recording
<1> QED BY <1>5, <1>7, <1>9 DEF IInv

-----------------------------------------------------------------------------
(* A request that ends: what is left of it, whoever ends it.                *)
Ends(c, r, err, bad) ==
  /\ g' = Returned(c, r) /\ writing' = [writing EXCEPT ![r] = NULL]
  /\ behind' = IF err THEN behind
               ELSE behind \cup ({c.lb[r]} \X (Mirrors(c.lb[r]) \ (writing[r].live \ bad)))

LEMMA FinishedStep ==
  ASSUME CacheInv, Control, Wheel, NEW r \in InWrite, NEW M, NEW err, NEW bad,
         NEW c, c = g \/ c = Checked(g, M), Ends(c, r, err, bad), lock' = "schedule",
         UNCHANGED <<pv_pbuf, mode, proc>>
  PROVE  /\ CacheInv' /\ Control' /\ InWrite' = InWrite \ {r} /\ mode = "up"
         /\ \A q \in InWrite \ {r} : g'.lb[q] = g.lb[q] /\ writing'[q] = writing[q]
         /\ writing' \in [Req -> Issued \cup {NULL}]
         /\ c.lb[r] = g.lb[r] /\ (c = g => (ForcedOff(g') <=> ForcedOff(g))) /\ (ForcedOff(g) => ForcedOff(g'))
         /\ ForcedOff(g') <=> ForcedOff(c)
         /\ behind' = IF err THEN behind
                      ELSE behind \cup ({g.lb[r]} \X (Mirrors(g.lb[r]) \ (writing[r].live \ bad)))
<1>1. /\ Sound(c, InWrite, Busy) /\ Moves(c)
      /\ \A q \in Req : c.lb[q] = g.lb[q]
      /\ c.flags \in {g.flags, g.flags \cup {"VG_FORCEDOFF"}} /\ (c = g => c.flags = g.flags)
  <2>1. CASE c = g
    BY <2>1 DEF CacheInv
  <2>2. CASE c = Checked(g, M)
    <3>1. Sound(c, InWrite, Busy) /\ Moves(c)
      BY <2>2, CheckedOK
    <3>2. Follows(g, c, IF Quorate(M) THEN g.flags ELSE g.flags \cup {"VG_FORCEDOFF"}, Req)
      BY <2>2, CheckedOK
    <3> QED BY <3>1, <3>2 DEF Follows
  <2> QED BY <2>1, <2>2
<1>2. /\ g' = Returned(c, r) /\ writing' = [writing EXCEPT ![r] = NULL] /\ UNCHANGED pv_pbuf
      /\ behind' = IF err THEN behind
                   ELSE behind \cup ({c.lb[r]} \X (Mirrors(c.lb[r]) \ (writing[r].live \ bad)))
  BY DEF Ends
<1>3. CacheInv' /\ Follows(c, g', c.flags, InWrite \ {r}) /\ InWrite' = InWrite \ {r}
  BY <1>1, <1>2, FinishedCache
<1>4. r \in Req /\ writing[r] # NULL /\ InWrite \in SUBSET Req
  BY InWriteIn DEF InWrite
<1>5. mode = "up"
  BY <1>4 DEF Control
<1>6. /\ g'.flags \in {g.flags, g.flags \cup {"VG_FORCEDOFF"}}
      /\ c = g => g'.flags = g.flags
      /\ \A q \in InWrite \ {r} : g'.lb[q] = g.lb[q]
  BY <1>1, <1>3, <1>4 DEF Follows
<1>7. Busy' = Busy
  BY <1>2 DEF Busy
<1>8. Control'
  BY <1>5, <1>6, <1>7 DEF Control
<1>9. writing' \in [Req -> Issued \cup {NULL}] /\ \A q \in InWrite \ {r} : writing'[q] = writing[q]
  BY <1>2, <1>4 DEF Wheel
<1>10. (c = g => (ForcedOff(g') <=> ForcedOff(g))) /\ (ForcedOff(g) => ForcedOff(g'))
  BY <1>6 DEF ForcedOff
<1>11. ForcedOff(g') <=> ForcedOff(c)
  BY <1>3 DEF ForcedOff, Follows
<1> QED BY <1>1, <1>2, <1>3, <1>4, <1>5, <1>6, <1>8, <1>9, <1>10, <1>11

(* The copies to be marked, and those that the wheel has to record.         *)
LEMMA MarkedIn ==
  ASSUME Wheel, NEW r \in InWrite, NEW E, E \subseteq writing[r].live
  PROVE  LET w == writing[r]
             mirbad == w.broken \cup E
             bad == Marked(g.lb[r], w.live, mirbad)
         IN  /\ mirbad \subseteq Pv /\ bad \subseteq mirbad
             /\ ~(FreshIn(g.lb[r], stale) \cap w.live \subseteq mirbad) => bad = mirbad
<1>1. writing[r] \in Issued
  BY DEF Wheel, InWrite
<1>2. writing[r].live \subseteq Pv /\ writing[r].broken \subseteq Pv
  BY <1>1 DEF Issued
<1> QED BY <1>2 DEF Marked

LEMMA ParwriteStep ==
  ASSUME IInv, NEW r \in Req, NEW E \in SUBSET Pv, hd_parwrite(r, E)
  PROVE  IInv'
<1> DEFINE t == g.lb[r]
           w == writing[r]
           mirbad == w.broken \cup E
           err == FreshIn(t, stale) \cap w.live \subseteq mirbad
           bad == Marked(t, w.live, mirbad)
           copies == {<<Part[t], p>> : p \in bad}
           wait == {p \in bad : <<Part[t], p>> \notin stale \ chging}
<1>1. CacheInv /\ Control /\ Wheel /\ Recording
  BY DEF IInv
<1>2. /\ w # NULL /\ onwheel[r] = NULL /\ E \subseteq w.live /\ lock' = "schedule"
      /\ \/ hd_finished(g, r, mirbad # {}, mirbad, stale) /\ UNCHANGED <<stale, chging>>
         \/ /\ stale' = stale \cup copies /\ chging' = chging \cup (copies \ stale)
            /\ \/ /\ wait # {} /\ ~ForcedOff(g)
                  /\ onwheel' = [onwheel EXCEPT ![r] = [bad |-> mirbad, marked |-> wait, err |-> err]]
                  /\ UNCHANGED <<g, writing, behind>>
               \/ /\ ~(wait # {} /\ ~ForcedOff(g))
                  /\ hd_finished(g, r, err \/ wait # {}, mirbad, stale')
      /\ UNCHANGED <<pv_pbuf, missing, proc, sa_stale, sa_miss, mode, rcv, count>>
  BY DEF hd_parwrite
<1>3. r \in InWrite /\ InWrite \in SUBSET Req
  BY <1>2, InWriteIn DEF InWrite
<1>4. mirbad \subseteq Pv /\ bad \subseteq mirbad /\ (~err => bad = mirbad)
  BY <1>1, <1>2, <1>3, MarkedIn
<1>5. \A q \in Req : onwheel[q] # NULL => q \in InWrite \ {r}
  BY <1>1, <1>2, WheelWrites
<1>6. mode = "up" /\ onwheel \in [Req -> OnWheel \cup {NULL}]
  BY <1>1, <1>2 DEF Control, Wheel
<1>7. /\ wait \subseteq bad
      /\ \A p \in bad : p \notin wait => <<Part[t], p>> \in stale \ chging
      /\ \A p \in bad : <<Part[t], p>> \notin stale => p \in wait
      /\ \A x \in copies : \E p \in bad : x = <<Part[t], p>>
  BY <1>1 DEF Wheel
<1>8. count.off = 0 => /\ ~ForcedOff(g) /\ stale \ chging \subseteq sa_stale
                       /\ OnRecord(t, Mirrors(t) \ w.live)
                       /\ \A x \in behind : <<Part[x[1]], x[2]>> \in sa_stale
  BY <1>1, <1>3, <1>6 DEF Recording
<1>9. t = g.lb[r] /\ w = writing[r]
  OBVIOUS
<1> HIDE DEF t, w, mirbad, bad, copies, wait
<1>10. CASE hd_finished(g, r, mirbad # {}, mirbad, stale) /\ UNCHANGED <<stale, chging>>
  <2>1. /\ CacheInv' /\ Control' /\ InWrite' = InWrite \ {r}
        /\ \A q \in InWrite \ {r} : g'.lb[q] = g.lb[q] /\ writing'[q] = writing[q]
        /\ writing' \in [Req -> Issued \cup {NULL}]
        /\ ForcedOff(g') <=> ForcedOff(g)
        /\ behind' = IF mirbad # {} THEN behind
                     ELSE behind \cup ({t} \X (Mirrors(t) \ (w.live \ mirbad)))
    <3>1. Ends(g, r, mirbad # {}, mirbad)
      BY <1>10 DEF hd_finished, Ends
    <3> QED BY <1>1, <1>2, <1>3, <1>9, <3>1, FinishedStep
  <2>2. onwheel' = onwheel
    BY <1>2, <1>6, <1>10 DEF hd_finished
  <2>3. Wheel'
    <3>1. \A q \in Req : onwheel[q] # NULL => writing'[q] # NULL /\ g'.lb[q] = g.lb[q]
      BY <1>1, <1>5, <2>1 DEF Wheel
    <3> QED BY <1>1, <1>2, <1>10, <2>1, <2>2, <3>1, WheelFrame DEF Wheel
  <2>4. ASSUME count.off = 0, NEW x \in behind' PROVE <<Part[x[1]], x[2]>> \in sa_stale
    <3>1. CASE x \in behind
      BY <1>8, <2>4, <3>1
    <3>2. CASE x \notin behind
      <4>1. mirbad = {} /\ x \in {t} \X (Mirrors(t) \ (w.live \ mirbad))
        BY <2>1, <2>4, <3>2
      <4>2. x[1] = t /\ x[2] \in Mirrors(t) \ w.live
        BY <4>1
      <4> QED BY <1>8, <2>4, <4>2 DEF OnRecord
    <3> QED BY <3>1, <3>2
  <2>5. Recording'
    BY <1>1, <1>2, <1>5, <1>6, <1>10, <2>1, <2>2, <2>4 DEF Recording, OnRecord
  <2> QED BY <2>1, <2>3, <2>5 DEF IInv
<1>11. CASE /\ stale' = stale \cup copies /\ chging' = chging \cup (copies \ stale)
            /\ wait # {} /\ ~ForcedOff(g)
            /\ onwheel' = [onwheel EXCEPT ![r] = [bad |-> mirbad, marked |-> wait, err |-> err]]
            /\ UNCHANGED <<g, writing, behind>>
  <2> DEFINE v == [bad |-> mirbad, marked |-> wait, err |-> err]
  <2>1. v \in OnWheel /\ v # NULL /\ v.bad = mirbad /\ v.marked = wait /\ v.err = err
    <3>1. err \in BOOLEAN /\ mirbad \in SUBSET Pv /\ wait \in SUBSET Pv
      BY <1>4, <1>7
    <3> HIDE DEF err
    <3>2. v \in OnWheel
      BY <3>1 DEF OnWheel
    <3>3. NULL \notin OnWheel
      BY ValueAssumption DEF OnWheel
    <3>4. v.bad = mirbad /\ v.marked = wait /\ v.err = err
      OBVIOUS
    <3> QED BY <3>2, <3>3, <3>4
  <2>2. InWrite' = InWrite /\ Busy' = Busy
    BY <1>2, <1>11 DEF InWrite, Busy
  <2>3. CacheInv'
    BY <1>1, <1>11, <2>2 DEF CacheInv
  <2>4. Control'
    BY <1>1, <1>2, <1>6, <1>11, <2>2 DEF Control
  <2> HIDE DEF v, err
  <2>5. onwheel' = [onwheel EXCEPT ![r] = v]
    BY <1>11 DEF v
  <2>6. onwheel' \in [Req -> OnWheel \cup {NULL}] /\ onwheel'[r] = v
        /\ \A q \in Req : q # r => onwheel'[q] = onwheel[q]
    BY <1>6, <2>1, <2>5
  <2>7. chging' \subseteq UNION {MarkedBy(q)' : q \in Req}
    <3>1. SUFFICES ASSUME NEW x \in chging' PROVE \E q \in Req : x \in MarkedBy(q)'
      OBVIOUS
    <3>2. CASE x \in chging
      <4>1. PICK q \in Req : x \in MarkedBy(q)
        BY <1>1, <1>11, <3>2 DEF Wheel
      <4>2. q # r
        BY <1>2, <4>1 DEF MarkedBy
      <4> QED BY <1>11, <2>6, <4>1, <4>2 DEF MarkedBy
    <3>3. CASE x \notin chging
      <4>1. x \in copies /\ x \notin stale
        BY <1>11, <3>3
      <4>2. PICK p \in wait : x = <<Part[t], p>>
        BY <1>7, <4>1
      <4>3. x \in MarkedBy(r)'
        BY <1>9, <1>11, <2>1, <2>6, <4>1, <4>2 DEF MarkedBy
      <4> QED BY <4>3
    <3> QED BY <3>2, <3>3
  <2>8. Wheel'
    <3>1. \A q \in Req : onwheel'[q] # NULL => writing'[q] # NULL
      BY <1>1, <1>2, <1>9, <1>11, <2>6 DEF Wheel
    <3>2. chging' \subseteq stale'
      BY <1>1, <1>11 DEF Wheel
    <3> QED BY <1>1, <1>2, <1>11, <2>6, <2>7, <3>1, <3>2 DEF Wheel
  <2>9. ASSUME count.off = 0 PROVE stale' \ chging' \subseteq sa_stale
    BY <1>8, <1>11, <2>9
  <2>10. ASSUME count.off = 0, NEW q \in Req, onwheel'[q] # NULL, ~onwheel'[q].err
         PROVE  OnRecord(g.lb[q], onwheel'[q].bad \ onwheel'[q].marked)
    <3>1. CASE q # r
      BY <1>1, <2>6, <2>10, <3>1 DEF Recording
    <3>2. CASE q = r
      <4>1. ~err /\ onwheel'[q].bad = bad /\ onwheel'[q].marked = wait
        BY <1>4, <2>1, <2>6, <2>10, <3>2
      <4> QED BY <1>7, <1>8, <1>9, <2>10, <3>2, <4>1 DEF OnRecord
    <3> QED BY <3>1, <3>2
  <2>11. Recording'
    BY <1>1, <1>2, <1>6, <1>11, <2>2, <2>9, <2>10 DEF Recording, OnRecord
  <2> QED BY <2>3, <2>4, <2>8, <2>11 DEF IInv
<1>12. CASE /\ stale' = stale \cup copies /\ chging' = chging \cup (copies \ stale)
            /\ ~(wait # {} /\ ~ForcedOff(g))
            /\ hd_finished(g, r, err \/ wait # {}, mirbad, stale')
  <2> HIDE DEF err
  <2>1. /\ CacheInv' /\ Control' /\ InWrite' = InWrite \ {r}
        /\ \A q \in InWrite \ {r} : g'.lb[q] = g.lb[q] /\ writing'[q] = writing[q]
        /\ writing' \in [Req -> Issued \cup {NULL}]
        /\ ForcedOff(g') <=> ForcedOff(g)
        /\ behind' = IF err \/ wait # {} THEN behind
                     ELSE behind \cup ({t} \X (Mirrors(t) \ (w.live \ mirbad)))
    <3>1. Ends(g, r, err \/ wait # {}, mirbad)
      BY <1>12 DEF hd_finished, Ends
    <3> QED BY <1>1, <1>2, <1>3, <1>9, <3>1, FinishedStep
  <2>2. onwheel' = onwheel
    BY <1>2, <1>6, <1>12 DEF hd_finished
  <2>3. ~ForcedOff(g) => wait = {} /\ chging' = chging
    <3>1. ASSUME ~ForcedOff(g) PROVE copies \subseteq stale
      BY <1>7, <1>12, <3>1
    <3> QED BY <1>12, <3>1
  <2>4. Wheel'
    <3>1. \A q \in Req : onwheel[q] # NULL => writing'[q] # NULL /\ g'.lb[q] = g.lb[q]
      BY <1>1, <1>5, <2>1 DEF Wheel
    <3>2. \A q \in Req : MarkedBy(q) \subseteq MarkedBy(q)'
      BY <1>12, <2>2, <3>1 DEF MarkedBy
    <3>3. ~ForcedOff(g') => chging' \subseteq UNION {MarkedBy(q)' : q \in Req}
      BY <1>1, <2>1, <2>3, <3>2 DEF Wheel
    <3>4. chging' \subseteq stale'
      BY <1>1, <1>12 DEF Wheel
    <3> QED BY <1>1, <1>2, <2>1, <2>2, <3>1, <3>3, <3>4 DEF Wheel
  <2>5. ASSUME count.off = 0, NEW x \in behind' PROVE <<Part[x[1]], x[2]>> \in sa_stale
    <3>1. CASE x \in behind
      BY <1>8, <2>5, <3>1
    <3>2. CASE x \notin behind
      <4>1. ~err /\ wait = {} /\ x \in {t} \X (Mirrors(t) \ (w.live \ mirbad))
        BY <2>1, <2>5, <3>2
      <4>2. x[1] = t /\ x[2] \in Mirrors(t) /\ (x[2] \notin w.live \/ x[2] \in bad)
        BY <1>4, <4>1
      <4> QED BY <1>7, <1>8, <2>5, <4>1, <4>2 DEF OnRecord
    <3> QED BY <3>1, <3>2
  <2>6. ASSUME count.off = 0 PROVE stale' \ chging' \subseteq sa_stale
    BY <1>8, <1>12, <2>6
  <2>7. Recording'
    BY <1>1, <1>2, <1>5, <1>6, <2>1, <2>2, <2>5, <2>6 DEF Recording, OnRecord
  <2> QED BY <2>1, <2>4, <2>7 DEF IInv
<1> QED BY <1>2, <1>10, <1>11, <1>12

LEMMA CheckedForced ==
  ASSUME CacheInv, NEW M
  PROVE  ForcedOff(Checked(g, M)) <=> ~Quorate(M)
<1>1. CASE Quorate(M)
  BY <1>1 DEF Checked, Quorate
<1>2. CASE ~Quorate(M)
  <2>1. Follows(g, Checked(g, M), IF Quorate(M) THEN g.flags ELSE g.flags \cup {"VG_FORCEDOFF"}, Req)
    BY CheckedOK
  <2> QED BY <1>2, <2>1 DEF Follows, ForcedOff
<1> QED BY <1>1, <1>2

LEMMA StaleppeStep ==
  ASSUME IInv, Ledger, NEW r \in Req, NEW M \in SUBSET MayFail, hd_staleppe(r, M)
  PROVE  IInv'
<1> DEFINE t == g.lb[r]
           w == onwheel[r]
           gone == missing \cup M
           copies == {<<Part[t], p>> : p \in w.marked}
           c == Checked(g, gone)
           e == w.err \/ ~Quorate(gone)
           now == writing[r].live
<1>1. CacheInv /\ Control /\ Wheel /\ Recording
  BY DEF IInv
<1>2. /\ w # NULL /\ lock' = "schedule" /\ Ends(c, r, e, w.bad)
      /\ onwheel' = [onwheel EXCEPT ![r] = NULL]
      /\ missing' = gone /\ chging' = chging \ copies /\ count' = CountOff(gone)
      /\ sa_miss' = IF Quorate(gone) THEN sa_miss \cup M ELSE sa_miss
      /\ sa_stale' = IF Quorate(gone) THEN sa_stale \cup copies ELSE sa_stale
      /\ UNCHANGED <<pv_pbuf, proc, stale, mode, rcv>>
  BY DEF hd_staleppe, hd_finished, Ends
<1>3. r \in InWrite /\ InWrite \in SUBSET Req
  BY <1>1, <1>2, InWriteIn, WheelWrites
<1>4. /\ onwheel \in [Req -> OnWheel \cup {NULL}]
      /\ onwheel' \in [Req -> OnWheel \cup {NULL}] /\ onwheel'[r] = NULL
      /\ \A q \in Req : q # r => onwheel'[q] = onwheel[q]
  BY <1>1, <1>2 DEF Wheel
<1>5. ForcedOff(c) <=> ~Quorate(gone)
  BY <1>1, CheckedForced
<1>6. t = g.lb[r] /\ now = writing[r].live /\ \A p \in w.marked : <<Part[t], p>> \in copies
  OBVIOUS
<1>7. gone \subseteq Pv /\ M \subseteq Pv
  BY <1>1, ValueAssumption DEF Wheel
<1>8. c = Checked(g, gone)
  OBVIOUS
<1>9. MarkedBy(r) \subseteq copies
  BY DEF MarkedBy
<1>10. e = (w.err \/ ~Quorate(gone)) /\ (Quorate(gone) => ~ForcedOff(g))
  BY DEF Quorate
<1> HIDE DEF t, now, copies, gone, c, e
<1>11. /\ CacheInv' /\ Control' /\ InWrite' = InWrite \ {r} /\ mode = "up"
       /\ \A q \in InWrite \ {r} : g'.lb[q] = g.lb[q] /\ writing'[q] = writing[q]
       /\ writing' \in [Req -> Issued \cup {NULL}]
       /\ ForcedOff(g') <=> ForcedOff(c)
       /\ behind' = IF e THEN behind ELSE behind \cup ({t} \X (Mirrors(t) \ (now \ w.bad)))
  BY <1>1, <1>2, <1>3, <1>6, <1>8, FinishedStep
<1>12. \A q \in Req : onwheel'[q] # NULL => /\ q # r /\ q \in InWrite \ {r} /\ onwheel'[q] = onwheel[q]
                                            /\ writing'[q] # NULL
  <2>1. SUFFICES ASSUME NEW q \in Req, onwheel'[q] # NULL
                 PROVE  /\ q # r /\ q \in InWrite \ {r} /\ onwheel'[q] = onwheel[q] /\ writing'[q] # NULL
    OBVIOUS
  <2>2. q # r /\ onwheel'[q] = onwheel[q]
    BY <1>4, <2>1
  <2>3. q \in InWrite
    BY <1>1, <2>1, <2>2, WheelWrites
  <2>4. writing'[q] = writing[q] /\ writing[q] # NULL
    BY <1>11, <2>2, <2>3 DEF InWrite
  <2> QED BY <2>2, <2>3, <2>4
<1>13. ~ForcedOff(g') => chging' \subseteq UNION {MarkedBy(q)' : q \in Req}
  <2>1. SUFFICES ASSUME ~ForcedOff(g'), NEW x \in chging' PROVE \E q \in Req : x \in MarkedBy(q)'
    OBVIOUS
  <2>2. x \in chging /\ x \notin copies
    BY <1>2, <2>1
  <2>3. ~ForcedOff(g)
    BY <1>5, <1>10, <1>11, <2>1
  <2>4. PICK q \in Req : x \in MarkedBy(q)
    BY <1>1, <2>2, <2>3 DEF Wheel
  <2>5. q # r
    BY <1>9, <2>2, <2>4
  <2>6. onwheel[q] # NULL
    BY <2>4 DEF MarkedBy
  <2>7. onwheel'[q] = onwheel[q] /\ g'.lb[q] = g.lb[q]
    BY <1>4, <1>11, <1>12, <2>5, <2>6
  <2>8. x \in MarkedBy(q)'
    BY <1>2, <2>4, <2>7 DEF MarkedBy
  <2> QED BY <2>8
<1>14. Wheel'
  <2>1. missing' \subseteq Pv /\ sa_miss' \subseteq Pv /\ chging' \subseteq stale'
    BY <1>1, <1>2, <1>7 DEF Wheel
  <2> QED BY <1>4, <1>11, <1>12, <1>13, <2>1 DEF Wheel
<1>15. ASSUME count'.off = 0
       PROVE  count.off = 0 /\ Quorate(gone) /\ ~ForcedOff(g') /\ sa_stale' = sa_stale \cup copies
  <2>1. count'.off = IF Quorate(gone) THEN count.off ELSE 1
    BY <1>2 DEF CountOff, Ledger
  <2>2. count.off = 0 /\ Quorate(gone)
    BY <1>15, <2>1
  <2> QED BY <1>2, <1>5, <1>11, <2>2
<1>16. ASSUME count'.off = 0 PROVE stale' \ chging' \subseteq sa_stale'
  <2>1. stale \ chging \subseteq sa_stale
    BY <1>1, <1>11, <1>15, <1>16 DEF Recording
  <2> QED BY <1>2, <1>15, <1>16, <2>1
<1>17. ASSUME count'.off = 0, NEW x \in behind' PROVE <<Part[x[1]], x[2]>> \in sa_stale'
  <2>1. CASE x \in behind
    BY <1>1, <1>15, <1>17, <2>1 DEF Recording
  <2>2. CASE x \notin behind
    <3>1. ~w.err /\ x \in {t} \X (Mirrors(t) \ (now \ w.bad))
      BY <1>10, <1>11, <1>17, <2>2
    <3>2. x[1] = t /\ x[2] \in Mirrors(t) /\ (x[2] \notin now \/ x[2] \in w.bad)
      BY <3>1
    <3>3. OnRecord(t, Mirrors(t) \ now) /\ OnRecord(t, w.bad \ w.marked)
      BY <1>1, <1>2, <1>3, <1>6, <1>15, <1>17, <3>1 DEF Recording
    <3>4. x[2] \in w.marked => <<Part[t], x[2]>> \in copies
      BY <1>6
    <3> QED BY <1>15, <1>17, <3>2, <3>3, <3>4 DEF OnRecord
  <2> QED BY <2>1, <2>2
<1>18. ASSUME count'.off = 0, NEW q \in InWrite'
       PROVE  OnRecord(g.lb[q], Mirrors(g.lb[q]) \ writing[q].live)'
  <2>1. g'.lb[q] = g.lb[q] /\ writing'[q] = writing[q] /\ q \in InWrite
    BY <1>11, <1>18
  <2>2. OnRecord(g.lb[q], Mirrors(g.lb[q]) \ writing[q].live)
    BY <1>1, <1>15, <1>18, <2>1 DEF Recording
  <2> QED BY <1>15, <1>18, <2>1, <2>2 DEF OnRecord
<1>19. ASSUME count'.off = 0, NEW q \in Req, onwheel'[q] # NULL, ~onwheel'[q].err
       PROVE  OnRecord(g.lb[q], onwheel[q].bad \ onwheel[q].marked)'
  <2>1. g'.lb[q] = g.lb[q] /\ onwheel'[q] = onwheel[q]
    BY <1>11, <1>12, <1>19
  <2>2. OnRecord(g.lb[q], onwheel[q].bad \ onwheel[q].marked)
    BY <1>1, <1>15, <1>19, <2>1 DEF Recording
  <2> QED BY <1>15, <1>19, <2>1, <2>2 DEF OnRecord
<1>20. Recording'
  BY <1>2, <1>11, <1>15, <1>16, <1>17, <1>18, <1>19 DEF Recording
<1> QED BY <1>11, <1>14, <1>20 DEF IInv

-----------------------------------------------------------------------------
(* A resync, and a disk that comes back: the cache is not touched.          *)
LEMMA ResyncStep ==
  ASSUME IInv, Ledger, NEW l \in Lp, Resync(l)
  PROVE  IInv'
<1> DEFINE S == {p \in Range(Copies[l]) \ missing : <<l, p>> \in stale}
           tgs == {t \in Tg : Part[t] = l}
           now == {l} \X S
<1>1. CacheInv /\ Control /\ Wheel /\ Recording
  BY DEF IInv
<1>2. /\ mode = "up" /\ ~ForcedOff(g) /\ \A r \in Req : g.lb[r] \notin tgs
      /\ stale' = stale \ now /\ sa_stale' = sa_stale \ now /\ behind' = behind \ (tgs \X S)
      /\ UNCHANGED <<g, writing, onwheel, lock, pv_pbuf, missing, proc, chging, sa_miss, mode, rcv, count>>
  BY DEF Resync
<1>3. InWrite' = InWrite /\ Busy' = Busy
  BY <1>2 DEF InWrite, Busy
<1>4. CacheInv' /\ Control'
  BY <1>1, <1>2, <1>3 DEF CacheInv, Control
<1>5. \A r \in InWrite : \A p : <<Part[g.lb[r]], p>> \notin now
  <2>1. SUFFICES ASSUME NEW r \in InWrite, NEW p, <<Part[g.lb[r]], p>> \in now PROVE FALSE
    OBVIOUS
  <2>2. r \in Req /\ g.lb[r] # NULL /\ g.lb \in [Req -> Tg \cup {NULL}]
    BY <1>1, InWriteIn, CacheFields DEF CacheInv, Sound, Places
  <2>3. Part[g.lb[r]] = l
    BY <2>1
  <2> QED BY <1>2, <2>2, <2>3
<1>6. \A r \in Req : onwheel[r] # NULL => r \in InWrite
  BY <1>1, WheelWrites
<1>7. \A x \in behind : x \in behind' => <<Part[x[1]], x[2]>> \notin now
  <2>1. SUFFICES ASSUME NEW x \in behind', x \in behind, <<Part[x[1]], x[2]>> \in now PROVE FALSE
    OBVIOUS
  <2>2. x[1] \in Tg /\ x = <<x[1], x[2]>>
    BY <2>1 DEF Ledger
  <2>3. Part[x[1]] = l /\ x[2] \in S
    BY <2>1
  <2>4. x \in tgs \X S
    BY <2>2, <2>3
  <2> QED BY <1>2, <2>1, <2>4
<1> HIDE DEF now, S
<1>8. chging' \subseteq UNION {MarkedBy(r)' : r \in Req}
  <2>1. SUFFICES ASSUME NEW x \in chging PROVE \E r \in Req : x \in MarkedBy(r)'
    BY <1>2
  <2>2. PICK r \in Req : x \in MarkedBy(r)
    BY <1>1, <1>2 DEF Wheel
  <2>3. PICK p \in onwheel[r].marked : x = <<Part[g.lb[r]], p>> /\ onwheel[r] # NULL /\ x \in stale
    BY <2>2 DEF MarkedBy
  <2>4. x \notin now
    BY <1>5, <1>6, <2>3
  <2>5. x \in MarkedBy(r)'
    BY <1>2, <2>3, <2>4 DEF MarkedBy
  <2> QED BY <2>5
<1>9. chging' \subseteq stale'
  BY <1>8 DEF MarkedBy
<1>10. Wheel'
  BY <1>1, <1>2, <1>8, <1>9 DEF Wheel
<1>12. ASSUME count.off = 0, NEW r \in InWrite
       PROVE  OnRecord(g.lb[r], Mirrors(g.lb[r]) \ writing[r].live)'
  <2>1. OnRecord(g.lb[r], Mirrors(g.lb[r]) \ writing[r].live)
    BY <1>1, <1>12 DEF Recording
  <2> QED BY <1>2, <1>5, <1>12, <2>1 DEF OnRecord
<1>13. ASSUME count.off = 0, NEW r \in Req, onwheel[r] # NULL, ~onwheel[r].err
       PROVE  OnRecord(g.lb[r], onwheel[r].bad \ onwheel[r].marked)'
  <2>1. OnRecord(g.lb[r], onwheel[r].bad \ onwheel[r].marked) /\ r \in InWrite
    BY <1>1, <1>6, <1>13 DEF Recording
  <2> QED BY <1>2, <1>5, <2>1 DEF OnRecord
<1>14. ASSUME count.off = 0, NEW x \in behind' PROVE <<Part[x[1]], x[2]>> \in sa_stale'
  <2>1. x \in behind
    BY <1>2, <1>14
  <2>2. <<Part[x[1]], x[2]>> \in sa_stale
    BY <1>1, <1>14, <2>1 DEF Recording
  <2>3. <<Part[x[1]], x[2]>> \notin now
    BY <1>7, <1>14, <2>1
  <2> QED BY <1>2, <2>2, <2>3
<1>15. count.off = 0 => stale' \ chging' \subseteq sa_stale'
  BY <1>1, <1>2 DEF Recording
<1>16. Recording'
  BY <1>1, <1>2, <1>3, <1>12, <1>13, <1>14, <1>15 DEF Recording
<1> QED BY <1>4, <1>10, <1>16 DEF IInv

LEMMA KaddpvStep ==
  ASSUME IInv, Ledger, NEW p \in Pv, hd_kaddpv(p)
  PROVE  IInv'
<1>1. CacheInv /\ Control /\ Wheel /\ Recording
  BY DEF IInv
<1>2. /\ missing' = missing \ {p} /\ sa_miss' = sa_miss \ {p} /\ ~ForcedOff(g)
      /\ count' = [count EXCEPT !.return = @ + 1]
      /\ UNCHANGED <<g, writing, onwheel, lock, pv_pbuf, proc, stale, chging, sa_stale, behind, mode, rcv>>
  BY DEF hd_kaddpv
<1>3. InWrite' = InWrite /\ Busy' = Busy /\ count'.off = count.off
  BY <1>2 DEF InWrite, Busy, Ledger
<1>4. CacheInv' /\ Control'
  BY <1>1, <1>2, <1>3 DEF CacheInv, Control
<1>5. \A r \in Req : onwheel[r] # NULL => writing[r] # NULL
  BY <1>1 DEF Wheel
<1>6. missing' \subseteq Pv /\ sa_miss' \subseteq Pv /\ writing' \in [Req -> Issued \cup {NULL}]
  BY <1>1, <1>2 DEF Wheel
<1>7. Wheel'
  BY <1>1, <1>2, <1>5, <1>6, WheelFrame
<1>8. count'.off = 0 => count.off = 0 /\ ~ForcedOff(g')
  BY <1>2, <1>3
<1>9. Recording'
  BY <1>1, <1>2, <1>3, <1>8, RecordingFrame
<1> QED BY <1>4, <1>7, <1>9 DEF IInv

(* The recovery: what is stale is recorded at its end.                      *)
LEMMA RecoveryStep ==
  ASSUME IInv, mode = "recover", sa_stale \subseteq sa_stale', sa_stale' \subseteq stale',
         proc # "none" => rcv' = {} /\ stale' = sa_stale',
         UNCHANGED <<g, writing, onwheel, lock, pv_pbuf, missing, proc, chging, sa_miss, behind, mode, count>>
  PROVE  IInv'
<1>1. CacheInv /\ Control /\ Wheel /\ Recording
  BY DEF IInv
<1>2. InWrite' = InWrite /\ Busy' = Busy
  BY DEF InWrite, Busy
<1>3. CacheInv' /\ Control'
  BY <1>1, <1>2 DEF CacheInv, Control
<1>4. chging = {} /\ onwheel = [r \in Req |-> NULL] /\ writing = [r \in Req |-> NULL]
  BY <1>1 DEF Control
<1>5. InWrite = {} /\ \A r \in Req : onwheel[r] = NULL
  BY <1>4 DEF InWrite
<1>6. Wheel'
  BY <1>1, <1>4 DEF Wheel
<1>7. count.off = 0 => \A x \in behind : <<Part[x[1]], x[2]>> \in sa_stale'
  BY <1>1 DEF Recording
<1>8. count.off = 0 => ~ForcedOff(g)
  BY <1>1 DEF Recording
<1>9. Recording'
  BY <1>2, <1>5, <1>7, <1>8 DEF Recording
<1> QED BY <1>3, <1>6, <1>9 DEF IInv

LEMMA MwcFprecStep ==
  ASSUME IInv, NEW t \in Tg, NEW E, hd_mwc_fprec(t, E)
  PROVE  IInv'
<1>1. /\ mode = "recover" /\ rcv # {} /\ sa_stale' = stale' /\ stale \subseteq stale'
      /\ UNCHANGED <<g, writing, onwheel, lock, pv_pbuf, missing, proc, chging, sa_miss, behind, mode, count>>
  BY DEF hd_mwc_fprec
<1>2. sa_stale \subseteq stale /\ proc = "none"
  BY <1>1 DEF IInv, Recording
<1> QED BY <1>1, <1>2, RecoveryStep

LEMMA DisastrecStep ==
  ASSUME IInv, NEW t \in Tg, hd_disastrec(t)
  PROVE  IInv'
<1>1. /\ mode = "recover" /\ rcv # {} /\ sa_stale' = sa_stale /\ stale \subseteq stale'
      /\ UNCHANGED <<g, writing, onwheel, lock, pv_pbuf, missing, proc, chging, sa_miss, behind, mode, count>>
  BY DEF hd_disastrec, disks
<1>2. sa_stale \subseteq stale /\ proc = "none"
  BY <1>1 DEF IInv, Recording
<1> QED BY <1>1, <1>2, RecoveryStep

LEMMA MwcRecStep ==
  ASSUME IInv, HD_MWC_REC
  PROVE  IInv'
<1>1. /\ mode = "recover" /\ stale # sa_stale /\ sa_stale' = stale /\ stale' = stale
      /\ UNCHANGED <<g, writing, onwheel, lock, pv_pbuf, missing, proc, chging, sa_miss, behind, mode, count>>
  BY DEF HD_MWC_REC, memory
<1>2. sa_stale \subseteq stale /\ proc = "none"
  BY <1>1 DEF IInv, Recording
<1> QED BY <1>1, <1>2, RecoveryStep

LEMMA VaryonStep ==
  ASSUME IInv, NEW F \in SUBSET Pv, Varyon(F)
  PROVE  IInv'
<1>1. CacheInv /\ Control /\ Wheel /\ Recording
  BY DEF IInv
<1>2. /\ mode = "down" /\ mode' \in {"up", "recover"}
      /\ sa_stale \subseteq sa_stale' /\ stale' = sa_stale'
      /\ sa_miss' = Pv \ F /\ missing' = Pv \ F
      /\ UNCHANGED <<g, writing, onwheel, lock, pv_pbuf, proc, chging, behind, count>>
  BY DEF Varyon
<1>3. InWrite' = InWrite /\ Busy' = Busy
  BY <1>2 DEF InWrite, Busy
<1>4. /\ proc = "none" /\ chging = {} /\ onwheel = [r \in Req |-> NULL] /\ writing = [r \in Req |-> NULL]
      /\ "CA_INFLT" \notin g.flags /\ "CA_VGACT" \notin g.flags /\ g.lb = [r \in Req |-> NULL]
  BY <1>1, <1>2 DEF Control
<1>5. CacheInv'
  BY <1>1, <1>2, <1>3 DEF CacheInv
<1>6. Control'
  BY <1>1, <1>2, <1>3, <1>4 DEF Control
<1>7. InWrite = {} /\ \A r \in Req : onwheel[r] = NULL
  BY <1>4 DEF InWrite
<1>8. Wheel'
  BY <1>1, <1>2, <1>4, <1>7 DEF Wheel
<1>9. count.off = 0 => ~ForcedOff(g) /\ \A x \in behind : <<Part[x[1]], x[2]>> \in sa_stale'
  BY <1>1, <1>2 DEF Recording
<1>10. Recording'
  BY <1>2, <1>3, <1>4, <1>7, <1>9 DEF Recording
<1> QED BY <1>5, <1>6, <1>8, <1>10 DEF IInv

(* A step of the process that cleans the cache.                             *)
LEMMA UpStep ==
  ASSUME IInv, mode = "up", CacheInv', pv_pbuf' \in [Pv -> {"idle", "writing", "wheel"}],
         lock' \in {"free", "schedule"}, proc' \in {"none", "asleep", "writing"},
         lock' = "free" => "CA_VGACT" \notin g'.flags, proc' # "none" => "CA_INFLT" \in g'.flags,
         ForcedOff(g') <=> ForcedOff(g), \A q \in InWrite : g'.lb[q] = g.lb[q],
         count'.off = count.off,
         UNCHANGED <<writing, onwheel, missing, sa_miss, stale, chging, sa_stale, behind, mode, rcv>>
  PROVE  IInv'
<1>1. CacheInv /\ Control /\ Wheel /\ Recording
  BY DEF IInv
<1>2. InWrite' = InWrite
  BY DEF InWrite
<1>3. Control'
  BY <1>1 DEF Control
<1>4. \A r \in Req : onwheel[r] # NULL => writing'[r] # NULL /\ g'.lb[r] = g.lb[r]
  BY <1>1, WheelWrites DEF InWrite
<1>5. missing' \subseteq Pv /\ sa_miss' \subseteq Pv /\ writing' \in [Req -> Issued \cup {NULL}]
  BY <1>1 DEF Wheel
<1>6. Wheel'
  BY <1>1, <1>4, <1>5, WheelFrame
<1>7. count'.off = 0 => count.off = 0 /\ ~ForcedOff(g')
  BY <1>1 DEF Recording
<1>8. Recording'
  BY <1>1, <1>2, <1>4, <1>7, RecordingFrame
<1> QED BY <1>3, <1>6, <1>8 DEF IInv

LEMMA ClnupStep ==
  ASSUME IInv, Ledger, hd_ca_clnup
  PROVE  IInv'
<1> DEFINE c == [g EXCEPT !.flags = @ \cup {"CA_INFLT"}]
<1>1. CacheInv /\ Control
  BY DEF IInv
<1>2. /\ mode = "up" /\ lock = "free" /\ proc = "none"
      /\ count' = [count EXCEPT !.clean = @ + 1]
      /\ \/ "CA_INFLT" \in g.flags /\ proc' = "asleep" /\ UNCHANGED <<g, lock, pv_pbuf>>
         \/ "CA_INFLT" \notin g.flags /\ Clean(c)
      /\ UNCHANGED <<writing, onwheel, missing, sa_miss, stale, chging, sa_stale, behind, mode, rcv>>
  BY DEF hd_ca_clnup, disks
<1>3. count'.off = count.off
  BY <1>2 DEF Ledger
<1>4. "CA_VGACT" \notin g.flags /\ pv_pbuf \in [Pv -> {"idle", "writing", "wheel"}]
  BY <1>1, <1>2 DEF Control
<1>5. CASE "CA_INFLT" \in g.flags /\ proc' = "asleep" /\ UNCHANGED <<g, lock, pv_pbuf>>
  <2>1. InWrite' = InWrite /\ Busy' = Busy
    BY <1>2, <1>5 DEF InWrite, Busy
  <2>2. CacheInv'
    BY <1>1, <1>5, <2>1 DEF CacheInv
  <2> QED BY <1>2, <1>3, <1>4, <1>5, <2>2, UpStep
<1>6. CASE "CA_INFLT" \notin g.flags /\ Clean(c)
  <2>1. Busy = {}
    BY <1>1, <1>6 DEF CacheInv, Sound, Flow
  <2>2. /\ Sound(c, InWrite, {}) /\ "CA_VGACT" \notin c.flags
        /\ Follows(g, c, g.flags \cup {"CA_INFLT"}, Req)
    BY <1>1, <1>4, <2>1, ReservedOK
  <2> HIDE DEF c
  <2>3. /\ CacheInv' /\ pv_pbuf' \in [Pv -> {"idle", "writing", "wheel"}]
        /\ \/ proc' = "writing" /\ lock' = "free" /\ Follows(c, g', c.flags \cup {"CA_INFLT"}, InWrite)
           \/ proc' = "none" /\ lock' = "schedule" /\ Follows(c, g', c.flags \ {"CA_INFLT"}, InWrite)
    BY <1>2, <1>4, <1>6, <2>1, <2>2, CleanCache
  <2>4. /\ g'.flags \in {g.flags \cup {"CA_INFLT"}, g.flags \ {"CA_INFLT"}}
        /\ proc' # "none" => "CA_INFLT" \in g'.flags
        /\ \A q \in InWrite : g'.lb[q] = g.lb[q]
    BY <2>2, <2>3, InWriteIn DEF Follows
  <2>5. (ForcedOff(g') <=> ForcedOff(g)) /\ "CA_VGACT" \notin g'.flags
    BY <1>4, <2>4 DEF ForcedOff
  <2>6. lock' \in {"free", "schedule"} /\ proc' \in {"none", "asleep", "writing"}
    BY <2>3
  <2> QED BY <1>2, <1>3, <2>3, <2>4, <2>5, <2>6, UpStep
<1> QED BY <1>2, <1>5, <1>6

LEMMA CleanAwakeStep ==
  ASSUME IInv, CleanAwake
  PROVE  IInv'
<1>1. CacheInv /\ Control
  BY DEF IInv
<1>2. /\ lock = "free" /\ proc = "awake" /\ Clean(g)
      /\ UNCHANGED <<writing, onwheel, missing, sa_miss, stale, chging, sa_stale, behind, mode, rcv, count>>
  BY DEF CleanAwake, disks
<1>3. /\ "CA_VGACT" \notin g.flags /\ pv_pbuf \in [Pv -> {"idle", "writing", "wheel"}]
      /\ Busy = {} /\ mode = "up" /\ Sound(g, InWrite, {})
  BY <1>1, <1>2 DEF Control, CacheInv
<1>4. /\ CacheInv' /\ pv_pbuf' \in [Pv -> {"idle", "writing", "wheel"}]
      /\ \/ proc' = "writing" /\ lock' = "free" /\ Follows(g, g', g.flags \cup {"CA_INFLT"}, InWrite)
         \/ proc' = "none" /\ lock' = "schedule" /\ Follows(g, g', g.flags \ {"CA_INFLT"}, InWrite)
  BY <1>2, <1>3, CleanCache
<1>5. /\ g'.flags \in {g.flags \cup {"CA_INFLT"}, g.flags \ {"CA_INFLT"}}
      /\ proc' # "none" => "CA_INFLT" \in g'.flags
      /\ \A q \in InWrite : g'.lb[q] = g.lb[q]
      /\ lock' \in {"free", "schedule"} /\ proc' \in {"none", "asleep", "writing"}
  BY <1>4 DEF Follows
<1>6. (ForcedOff(g') <=> ForcedOff(g)) /\ "CA_VGACT" \notin g'.flags
  BY <1>3, <1>5 DEF ForcedOff
<1> QED BY <1>2, <1>3, <1>4, <1>5, <1>6, UpStep

LEMMA CleanWrittenStep ==
  ASSUME IInv, CleanWritten
  PROVE  IInv'
<1>1. CacheInv /\ Control
  BY DEF IInv
<1>2. /\ proc = "written" /\ proc' = "none" /\ lock' = "schedule" /\ UNCHANGED pv_pbuf
      /\ UNCHANGED <<writing, onwheel, missing, sa_miss, stale, chging, sa_stale, behind, mode, rcv, count>>
  BY DEF CleanWritten, disks
<1>3. Busy = {} /\ mode = "up" /\ pv_pbuf' \in [Pv -> {"idle", "writing", "wheel"}]
  BY <1>1, <1>2 DEF Control
<1>4. CacheInv' /\ Follows(g, g', g.flags \ {"CA_INFLT"}, InWrite)
  BY <1>1, <1>3, CleanWrittenCache
<1>5. (ForcedOff(g') <=> ForcedOff(g)) /\ \A q \in InWrite : g'.lb[q] = g.lb[q]
  BY <1>4 DEF ForcedOff, Follows
<1> QED BY <1>2, <1>3, <1>4, <1>5, UpStep

-----------------------------------------------------------------------------
(* The record is cleared at the end of the recovery; the system stops.      *)
LEMMA InitmwcStep ==
  ASSUME IInv, hd_kdis_initmwc
  PROVE  IInv'
<1>1. CacheInv /\ Control /\ Wheel /\ Recording
  BY DEF IInv
<1>2. /\ mode = "recover" /\ rcv = {} /\ stale = sa_stale /\ proc = "none" /\ proc' = "initmwc"
      /\ UNCHANGED <<writing, onwheel, lock, missing, sa_miss, stale, chging, sa_stale, behind, mode, rcv, count>>
  BY DEF hd_kdis_initmwc, Recovered, disks
<1>3. /\ "CA_VGACT" \notin g.flags /\ pv_pbuf \in [Pv -> {"idle", "writing", "wheel"}]
      /\ "CA_INFLT" \notin g.flags /\ chging = {} /\ g.lb = [r \in Req |-> NULL]
      /\ onwheel = [r \in Req |-> NULL] /\ writing = [r \in Req |-> NULL]
  BY <1>1, <1>2 DEF Control
<1>4. Busy = {}
  BY <1>1, <1>3 DEF CacheInv, Sound, Flow
<1>5. /\ CacheInv' /\ pv_pbuf' \in [Pv -> {"idle", "writing", "wheel"}]
      /\ Follows(g, g', g.flags \cup {"CA_INFLT"}, InWrite)
  BY <1>1, <1>3, <1>4, InitmwcCache
<1>6. InWrite' = InWrite /\ InWrite = {} /\ \A r \in Req : onwheel[r] = NULL
  BY <1>2, <1>3 DEF InWrite
<1>7. g'.flags = g.flags \cup {"CA_INFLT"} /\ g'.lb = [r \in Req |-> NULL]
  BY <1>3, <1>5, NoneLeft DEF Follows
<1>8. Control'
  BY <1>1, <1>2, <1>3, <1>5, <1>7 DEF Control
<1>9. ForcedOff(g') <=> ForcedOff(g)
  BY <1>7 DEF ForcedOff
<1>10. Wheel'
  BY <1>1, <1>2, <1>3, <1>6 DEF Wheel
<1>11. Recording'
  BY <1>1, <1>2, <1>6, <1>9 DEF Recording
<1> QED BY <1>5, <1>8, <1>10, <1>11 DEF IInv

LEMMA ClearedStep ==
  ASSUME IInv, Cleared
  PROVE  IInv'
<1> DEFINE F == g.flags \ {"CA_INFLT"}
<1>1. CacheInv /\ Control /\ Wheel /\ Recording
  BY DEF IInv
<1>2. /\ proc = "cleared" /\ lock = "free" /\ proc' = "none" /\ mode' = "up"
      /\ g' = [NewCache EXCEPT !.flags = F]
      /\ UNCHANGED <<writing, onwheel, lock, pv_pbuf, missing, sa_miss, stale, chging, sa_stale, behind, rcv, count>>
  BY DEF Cleared, disks
<1>3. mode = "recover" /\ Busy = {} /\ "CA_VGACT" \notin F
  BY <1>1, <1>2 DEF Control
<1>4. /\ chging = {} /\ onwheel = [r \in Req |-> NULL] /\ writing = [r \in Req |-> NULL]
      /\ pv_pbuf' \in [Pv -> {"idle", "writing", "wheel"}]
  BY <1>1, <1>2, <1>3 DEF Control
<1>5. InWrite' = {} /\ Busy' = {} /\ \A r \in Req : onwheel[r] = NULL
  BY <1>2, <1>3, <1>4 DEF InWrite, Busy
<1>6. F \in SUBSET Flag
  BY <1>1, CacheFields DEF CacheInv, Sound
<1>7. (ForcedOff(g) <=> "VG_FORCEDOFF" \in F) /\ "CA_INFLT" \notin F
  BY DEF ForcedOff
<1> HIDE DEF F
<1>8. CacheInv' /\ g'.flags = F
  BY <1>2, <1>3, <1>5, <1>6, EmptyCache
<1>9. Control'
  BY <1>1, <1>2, <1>3, <1>4, <1>8 DEF Control
<1>10. ForcedOff(g') <=> ForcedOff(g)
  BY <1>7, <1>8 DEF ForcedOff
<1>11. Wheel'
  BY <1>1, <1>2, <1>4, <1>5 DEF Wheel
<1>12. stale = sa_stale
  BY <1>1, <1>2, <1>3 DEF Recording
<1>13. Recording'
  BY <1>1, <1>2, <1>4, <1>5, <1>10, <1>12 DEF Recording
<1> QED BY <1>8, <1>9, <1>11, <1>13 DEF IInv

(* The state at the first open, and after a crash.                          *)
LEMMA EmptyMemory ==
  ASSUME g' = NewCache, writing' = [r \in Req |-> NULL], onwheel' = [r \in Req |-> NULL],
         lock' = "free", proc' = "none", pv_pbuf' = [p \in Pv |-> "idle"],
         missing' = {}, stale' = {}, chging' = {}, sa_miss' \subseteq Pv,
         mode' \in {"up", "down"},
         count'.off = 0 => \A x \in behind' : <<Part[x[1]], x[2]>> \in sa_stale'
  PROVE  IInv'
<1>1. g'.flags = {} /\ g'.lb = [r \in Req |-> NULL]
  BY DEF NewCache
<1>2. InWrite' = {} /\ Busy' = {} /\ \A r \in Req : onwheel'[r] = NULL
  BY DEF InWrite, Busy
<1>3. CacheInv'
  BY <1>2, NewCacheOK DEF CacheInv
<1>4. Control'
  BY <1>1, <1>2 DEF Control
<1>5. Wheel'
  BY <1>2 DEF Wheel
<1>6. ~ForcedOff(g')
  BY <1>1 DEF ForcedOff
<1>7. Recording'
  BY <1>2, <1>6 DEF Recording
<1> QED BY <1>3, <1>4, <1>5, <1>7 DEF IInv

LEMMA CrashStep ==
  ASSUME IInv, Ledger, Crash
  PROVE  IInv'
<1>1. Wheel /\ Recording
  BY DEF IInv
<1>2. /\ g' = NewCache /\ writing' = [r \in Req |-> NULL] /\ onwheel' = [r \in Req |-> NULL]
      /\ lock' = "free" /\ proc' = "none" /\ pv_pbuf' = [p \in Pv |-> "idle"]
      /\ missing' = {} /\ stale' = {} /\ chging' = {} /\ mode' = "down"
      /\ count' = [count EXCEPT !.crash = @ + 1]
      /\ UNCHANGED <<sa_stale, sa_miss, behind>>
  BY DEF Crash
<1>3. count'.off = count.off
  BY <1>2 DEF Ledger
<1>4. count'.off = 0 => \A x \in behind' : <<Part[x[1]], x[2]>> \in sa_stale'
  BY <1>1, <1>2, <1>3 DEF Recording
<1>5. sa_miss' \subseteq Pv
  BY <1>1, <1>2 DEF Wheel
<1> QED BY <1>2, <1>4, <1>5, EmptyMemory

(* The events that are counted, and the copies that lack a write.           *)
LEMMA EndsLedger ==
  ASSUME IInv, Ledger, NEW r \in InWrite, NEW M, NEW c, c = g \/ c = Checked(g, M),
         NEW err, NEW bad, Ends(c, r, err, bad)
  PROVE  behind' \subseteq Tg \X Pv
<1>1. CacheInv
  BY DEF IInv
<1>2. c.lb[r] = g.lb[r]
  <2>1. CASE c = g
    BY <2>1
  <2>2. CASE c = Checked(g, M)
    <3>1. Follows(g, c, IF Quorate(M) THEN g.flags ELSE g.flags \cup {"VG_FORCEDOFF"}, Req)
      BY <1>1, <2>2, CheckedOK
    <3> QED BY <3>1, InWriteIn DEF Follows
  <2> QED BY <2>1, <2>2
<1>3. g.lb[r] \in Tg
  BY <1>1, InWriteIn, CacheFields DEF CacheInv, Sound, Places
<1>4. Mirrors(g.lb[r]) \subseteq Pv
  <2>1. Part[g.lb[r]] \in Lp
    BY <1>3, CopiesAssumption
  <2>2. Copies[Part[g.lb[r]]] \in Seq(Pv)
    BY <2>1, CopiesAssumption
  <2> QED BY <2>2, RangeEmpty DEF Mirrors
<1>5. behind' = IF err THEN behind
                ELSE behind \cup ({g.lb[r]} \X (Mirrors(g.lb[r]) \ (writing[r].live \ bad)))
  BY <1>2 DEF Ends
<1> QED BY <1>3, <1>4, <1>5 DEF Ledger

LEMMA LedgerStep ==
  ASSUME IInv, Ledger, [Next]_vars
  PROVE  Ledger'
<1> USE DEF Ledger
<1>1. CASE \E r \in Req, t \in Tg : hd_strategy(r, t)
  BY <1>1 DEF hd_strategy, disks
<1>2. CASE hd_parallel \/ hd_schedule
  BY <1>2 DEF hd_parallel, hd_schedule, disks
<1>3. CASE \E p \in Pv : CacheWritten(p) \/ CacheFailed(p) \/ SaPvMissing(p) \/ hd_kaddpv(p)
  BY <1>3 DEF CacheWritten, CacheFailed, SaPvMissing, hd_kaddpv, CountOff, disks
<1>4. ASSUME NEW r \in Req, NEW E \in SUBSET Pv, hd_parwrite(r, E) PROVE Ledger'
  <2> DEFINE w == writing[r]
             mirbad == w.broken \cup E
             err == FreshIn(g.lb[r], stale) \cap w.live \subseteq mirbad
             wait == {p \in Marked(g.lb[r], w.live, mirbad) : <<Part[g.lb[r]], p>> \notin stale \ chging}
  <2>1. /\ w # NULL /\ UNCHANGED count
        /\ \/ Ends(g, r, mirbad # {}, mirbad)
           \/ UNCHANGED behind
           \/ Ends(g, r, err \/ wait # {}, mirbad)
    BY <1>4 DEF hd_parwrite, hd_finished, Ends
  <2>2. r \in InWrite
    BY <2>1 DEF InWrite
  <2> HIDE DEF w, mirbad, err, wait
  <2>3. behind' \subseteq Tg \X Pv
    BY <2>1, <2>2, EndsLedger
  <2> QED BY <2>1, <2>3
<1>5. ASSUME NEW r \in Req, NEW M \in SUBSET MayFail, hd_staleppe(r, M) PROVE Ledger'
  <2> DEFINE gone == missing \cup M
             err == onwheel[r].err \/ ~Quorate(gone)
  <2>1. /\ onwheel[r] # NULL /\ count' = CountOff(gone)
        /\ Ends(Checked(g, gone), r, err, onwheel[r].bad)
    BY <1>5 DEF hd_staleppe, hd_finished, Ends
  <2>2. r \in InWrite
    BY <2>1, WheelWrites DEF IInv
  <2> HIDE DEF gone, err
  <2>3. behind' \subseteq Tg \X Pv
    BY <2>1, <2>2, EndsLedger
  <2>4. count' \in [issue : Nat, clean : Nat, crash : Nat, return : Nat, off : {0, 1}]
    BY <2>1 DEF CountOff
  <2> QED BY <2>3, <2>4
<1>6. CASE \E l \in Lp : Resync(l)
  BY <1>6 DEF Resync
<1>7. CASE (\E t \in Tg, E \in SUBSET MayFail : hd_mwc_fprec(t, E)) \/ \E t \in Tg : hd_disastrec(t)
  BY <1>7 DEF hd_mwc_fprec, hd_disastrec, disks
<1>8. CASE hd_ca_clnup \/ CleanAwake \/ CleanWritten
  BY <1>8 DEF hd_ca_clnup, CleanAwake, CleanWritten, disks
<1>9. CASE Crash
  BY <1>9 DEF Crash
<1>10. CASE \E F \in SUBSET Pv : Varyon(F)
  BY <1>10 DEF Varyon
<1>11. CASE HD_MWC_REC \/ hd_kdis_initmwc \/ Cleared
  BY <1>11 DEF HD_MWC_REC, hd_kdis_initmwc, Cleared, disks
<1>12. CASE UNCHANGED vars
  BY <1>12 DEF vars, disks
<1> QED BY <1>1, <1>2, <1>3, <1>4, <1>5, <1>6, <1>7, <1>8, <1>9, <1>10, <1>11, <1>12 DEF Next

-----------------------------------------------------------------------------
LEMMA InitOK == Init => IInv /\ Ledger
<1>1. SUFFICES ASSUME Init PROVE IInv /\ Ledger
  OBVIOUS
<1>2. /\ g = NewCache /\ writing = [r \in Req |-> NULL] /\ onwheel = [r \in Req |-> NULL]
      /\ lock = "free" /\ proc = "none" /\ pv_pbuf = [p \in Pv |-> "idle"] /\ mode = "up"
      /\ missing = {} /\ stale = {} /\ chging = {} /\ sa_stale = {} /\ sa_miss = {} /\ behind = {}
      /\ count = [issue |-> 0, clean |-> 0, crash |-> 0, return |-> 0, off |-> 0]
  BY <1>1 DEF Init
<1>3. g.flags = {} /\ g.lb = [r \in Req |-> NULL]
  BY <1>2 DEF NewCache
<1>4. InWrite = {} /\ Busy = {} /\ \A r \in Req : onwheel[r] = NULL
  BY <1>2 DEF InWrite, Busy
<1>5. CacheInv
  BY <1>2, <1>4, NewCacheOK DEF CacheInv
<1>6. Control
  BY <1>2, <1>3, <1>4 DEF Control
<1>7. Wheel
  BY <1>2, <1>4 DEF Wheel
<1>8. ~ForcedOff(g)
  BY <1>3 DEF ForcedOff
<1>9. Recording
  BY <1>2, <1>4, <1>8 DEF Recording
<1>10. Ledger
  BY <1>2 DEF Ledger
<1> QED BY <1>5, <1>6, <1>7, <1>9, <1>10 DEF IInv

LEMMA StepOK ==
  ASSUME IInv, Ledger, [Next]_vars
  PROVE  IInv'
<1>1. ASSUME NEW r \in Req, NEW t \in Tg, hd_strategy(r, t) PROVE IInv'
  BY <1>1, StrategyStep
<1>2. CASE hd_parallel
  BY <1>2, ParallelStep
<1>3. CASE hd_schedule
  BY <1>3, ScheduleStep
<1>4. ASSUME NEW p \in Pv, CacheWritten(p) PROVE IInv'
  BY <1>4, CacheWrittenStep
<1>5. ASSUME NEW p \in Pv, CacheFailed(p) PROVE IInv'
  BY <1>5, CacheFailedStep
<1>6. ASSUME NEW p \in Pv, SaPvMissing(p) PROVE IInv'
  BY <1>6, SaPvMissingStep
<1>7. ASSUME NEW p \in Pv, hd_kaddpv(p) PROVE IInv'
  BY <1>7, KaddpvStep
<1>8. ASSUME NEW r \in Req, NEW E \in SUBSET Pv, hd_parwrite(r, E) PROVE IInv'
  BY <1>8, ParwriteStep
<1>9. ASSUME NEW r \in Req, NEW M \in SUBSET MayFail, hd_staleppe(r, M) PROVE IInv'
  BY <1>9, StaleppeStep
<1>10. ASSUME NEW l \in Lp, Resync(l) PROVE IInv'
  BY <1>10, ResyncStep
<1>11. ASSUME NEW t \in Tg, NEW E \in SUBSET MayFail, hd_mwc_fprec(t, E) PROVE IInv'
  BY <1>11, MwcFprecStep
<1>12. CASE hd_ca_clnup
  BY <1>12, ClnupStep
<1>13. CASE CleanAwake
  BY <1>13, CleanAwakeStep
<1>14. CASE CleanWritten
  BY <1>14, CleanWrittenStep
<1>15. CASE Crash
  BY <1>15, CrashStep
<1>16. ASSUME NEW F \in SUBSET Pv, Varyon(F) PROVE IInv'
  BY <1>16, VaryonStep
<1>17. ASSUME NEW t \in Tg, hd_disastrec(t) PROVE IInv'
  BY <1>17, DisastrecStep
<1>18. CASE HD_MWC_REC
  BY <1>18, MwcRecStep
<1>19. CASE hd_kdis_initmwc
  BY <1>19, InitmwcStep
<1>20. CASE Cleared
  BY <1>20, ClearedStep
<1>21. CASE UNCHANGED vars
  <2>1. UNCHANGED <<g, writing, onwheel, lock, pv_pbuf, missing, proc, stale, chging, sa_stale, sa_miss,
                    behind, mode, rcv, count>>
    BY <1>21 DEF vars, memory, disks
  <2>2. CacheInv' = CacheInv
    BY <2>1 DEF CacheInv, InWrite, Busy
  <2>3. Control' = Control
    BY <2>1 DEF Control, Busy
  <2>4. Wheel' = Wheel
    BY <2>1 DEF Wheel, MarkedBy
  <2>5. Recording' = Recording
    BY <2>1 DEF Recording, InWrite, OnRecord
  <2> QED BY <2>2, <2>3, <2>4, <2>5 DEF IInv
<1> QED BY <1>1, <1>2, <1>3, <1>4, <1>5, <1>6, <1>7, <1>8, <1>9, <1>10, <1>11, <1>12, <1>13, <1>14,
           <1>15, <1>16, <1>17, <1>18, <1>19, <1>20, <1>21 DEF Next

(* The inductive invariant holds at every moment.                           *)
THEOREM HdMirCachInvariant == Spec => [](IInv /\ Ledger)
<1>1. IInv /\ Ledger /\ [Next]_vars => (IInv /\ Ledger)'
  BY StepOK, LedgerStep
<1> QED BY InitOK, <1>1, PTL DEF Spec

(* The cache, its entries and its requests keep their types, through every  *)
(* open, clean-up, crash and varyon; a copy that is being made stale is      *)
(* stale.                                                                   *)
THEOREM HdMirCachTypeOK == Spec => []TypeOK
<1>1. IInv /\ Ledger => TypeOK
  <2>1. SUFFICES ASSUME IInv PROVE TypeOK
    OBVIOUS
  <2>2. CacheInv /\ Control /\ Wheel
    BY <2>1 DEF IInv
  <2>3. g \in MemType
    BY <2>2 DEF CacheInv, Sound
  <2>4. /\ g.flags \in SUBSET Flag /\ g.ca_lst \in [1..ca_size -> Entry] /\ g.ca_freepvw \in 0..NPvWait
        /\ g.lb \in [Req -> Tg \cup {NULL}] /\ g.cached \in SUBSET Req
    BY <2>3, CacheFields
  <2>5. /\ missing \subseteq Pv /\ sa_miss \subseteq Pv /\ chging \subseteq stale
        /\ proc \in {"none", "asleep", "awake", "writing", "written", "initmwc", "cleared"}
    BY <2>2 DEF Wheel, Control
  <2> QED BY <2>4, <2>5 DEF TypeOK, Flag
<1> QED BY HdMirCachInvariant, <1>1, PTL

(* HeldWillMove: a request on the hold queue of the cache has somebody to    *)
(* take it off (hd_ca_term, hd_ca_wend, hd_ca_clnup): no request stays there *)
(* with no cache write in flight and an entry to be had.                    *)
THEOREM HdMirCachHeldWillMove == Spec => []HeldWillMove
<1>1. IInv /\ Ledger => HeldWillMove
  BY DEF IInv, CacheInv, Control, Moves, HeldWillMove
<1> QED BY HdMirCachInvariant, <1>1, PTL

(* AckedOnFresh: a copy that lacks a write whose request returned without    *)
(* error is recorded as stale in the VGSAs, whatever fails and whenever the *)
(* system stops, until a quorum is lost (hd_stalepp, hd_staleppe, hd_avoid). *)
THEOREM HdMirCachAckedOnFresh == Spec => []AckedOnFresh
<1>1. IInv /\ Ledger => AckedOnFresh
  BY DEF IInv, Recording, AckedOnFresh
<1> QED BY HdMirCachInvariant, <1>1, PTL
=============================================================================
