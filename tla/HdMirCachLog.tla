----------------------------- MODULE HdMirCachLog -----------------------------
(***************************************************************************)
(* The records of the mirror write consistency cache on the disks, for any  *)
(* requests, disks, layout and sizes: while copies are being written, the   *)
(* newest record names their track group (Recorded).  LogInv relates the    *)
(* times of the records, the disks that need none, the cache in memory and  *)
(* what each record names.  With it, where a partition has one track group, *)
(* the copies agree whenever the volume group is on (MirrorsAgree): MirInv  *)
(* says which copies may differ, and that they are going to be recovered.   *)
(***************************************************************************)
EXTENDS HdMirCachProofs

NoTime == <<0, 0>>
Record == [tm : Nat \X Nat, ltgs : SUBSET Tg]

(* The disks that have the record in memory, dk being what is on the disks, *)
(* and tm the time of that record.                                          *)
NowOn(dk, tm) == {p \in Pv : dk[p].tm = tm /\ tm # NoTime}
NewestOf(dk) == {p \in Pv : \A q \in Pv : ~Earlier(dk[p].tm, dk[q].tm)}

(* No record on a disk is later than that in memory.                        *)
Timed(dk, tm, now) ==
  /\ now \in Nat \ {0} /\ tm \in Nat \X Nat
  /\ tm = NoTime \/ tm[1] = now
  /\ dk \in [Pv -> Record]
  /\ \A p \in Pv : \/ dk[p].tm[1] < now
                   \/ dk[p].tm[1] = now /\ tm[1] = now /\ dk[p].tm[2] <= tm[2]

(* No record that is as new as the newest, or as one on the disks of S, is   *)
(* without t.                                                               *)
Named(dk, t, S) ==
  \A p \in NewestOf(dk) \cup S, q \in Pv : ~Earlier(dk[q].tm, dk[p].tm) => t \in dk[q].ltgs

LEMMA EarlierOrder ==
  ASSUME NEW x \in Nat \X Nat, NEW y \in Nat \X Nat
  PROVE  /\ ~Earlier(x, x) /\ (Earlier(x, y) => ~Earlier(y, x))
         /\ ~Earlier(x, y) /\ ~Earlier(y, x) => x = y
         /\ \A z \in Nat \X Nat : ~Earlier(x, y) /\ ~Earlier(y, z) => ~Earlier(x, z)
<1>1. x[1] \in Nat /\ x[2] \in Nat /\ y[1] \in Nat /\ y[2] \in Nat /\ x = <<x[1], x[2]>> /\ y = <<y[1], y[2]>>
  OBVIOUS
<1>2. ASSUME NEW z \in Nat \X Nat, ~Earlier(x, y), ~Earlier(y, z) PROVE ~Earlier(x, z)
  <2>1. z[1] \in Nat /\ z[2] \in Nat
    OBVIOUS
  <2> QED BY <2>1, <1>1, <1>2 DEF Earlier
<1>3. ~Earlier(x, x) /\ (Earlier(x, y) => ~Earlier(y, x))
  BY <1>1 DEF Earlier
<1>4. ~Earlier(x, y) /\ ~Earlier(y, x) => x = y
  <2>1. ~Earlier(x, y) /\ ~Earlier(y, x) => x[1] = y[1] /\ x[2] = y[2]
    BY <1>1 DEF Earlier
  <2> QED BY <2>1, <1>1
<1> QED BY <1>2, <1>3, <1>4

LEMMA NotLater ==
  ASSUME NEW dk, NEW tm, NEW now, Timed(dk, tm, now), NEW p \in Pv
  PROVE  /\ dk[p].tm \in Nat \X Nat /\ tm \in Nat \X Nat
         /\ tm # NoTime => ~Earlier(tm, dk[p].tm)
<1>1. dk[p] \in Record
  BY DEF Timed
<1>2. dk[p].tm \in Nat \X Nat /\ tm \in Nat \X Nat
  BY <1>1 DEF Timed, Record
<1>3. dk[p].tm[1] \in Nat /\ dk[p].tm[2] \in Nat /\ tm[1] \in Nat /\ tm[2] \in Nat /\ now \in Nat
  BY <1>2 DEF Timed
<1>4. tm # NoTime => tm[1] = now
  BY DEF Timed
<1>5. \/ dk[p].tm[1] < now
      \/ dk[p].tm[1] = now /\ tm[1] = now /\ dk[p].tm[2] <= tm[2]
  BY DEF Timed
<1> QED BY <1>2, <1>3, <1>4, <1>5 DEF Earlier

(* The disks of S have the record in memory, and it has t.                  *)
LEMMA OnReached ==
  ASSUME NEW dk, NEW tm, NEW now, Timed(dk, tm, now), NEW t,
         \A p \in NowOn(dk, tm) : t \in dk[p].ltgs,
         NEW S, S # {}, S \subseteq NowOn(dk, tm)
  PROVE  Named(dk, t, S)
<1>1. PICK s \in Pv : s \in S /\ dk[s].tm = tm /\ tm # NoTime
  BY DEF NowOn
<1>2. ASSUME NEW p \in NewestOf(dk) \cup S, NEW q \in Pv, ~Earlier(dk[q].tm, dk[p].tm)
      PROVE  t \in dk[q].ltgs
  <2>1. p \in Pv
    BY <1>2 DEF NewestOf, NowOn
  <2>2. dk[p].tm = tm
    <3>1. CASE p \in S
      BY <3>1 DEF NowOn
    <3>2. CASE p \in NewestOf(dk)
      <4>1. ~Earlier(dk[p].tm, tm)
        BY <3>2, <1>1 DEF NewestOf
      <4>2. ~Earlier(tm, dk[p].tm) /\ dk[p].tm \in Nat \X Nat /\ tm \in Nat \X Nat
        BY <2>1, <1>1, NotLater
      <4> QED BY <4>1, <4>2, EarlierOrder
    <3> QED BY <3>1, <3>2
  <2>3. ~Earlier(tm, dk[q].tm) /\ dk[q].tm \in Nat \X Nat /\ tm \in Nat \X Nat
    BY <1>1, NotLater
  <2>4. dk[q].tm = tm
    BY <2>2, <2>3, <1>2, EarlierOrder
  <2> QED BY <2>4, <1>1 DEF NowOn
<1> QED BY <1>2 DEF Named

Put(dk, d, tm, I) == [dk EXCEPT ![d] = [tm |-> tm, ltgs |-> I]]

(* The record in memory, which has t, is written to disk d.                 *)
LEMMA OnWritten ==
  ASSUME NEW dk, NEW tm, NEW now, Timed(dk, tm, now), tm # NoTime, NEW d \in Pv, NEW I \in SUBSET Tg
  PROVE  LET dk2 == Put(dk, d, tm, I)
         IN  /\ Timed(dk2, tm, now) /\ NowOn(dk2, tm) = NowOn(dk, tm) \cup {d}
             /\ \A p \in NowOn(dk2, tm) : dk2[p].ltgs = IF p = d THEN I ELSE dk[p].ltgs
             /\ \A t \in I, S \in SUBSET Pv : Named(dk, t, S) => Named(dk2, t, S)
<1> DEFINE dk2 == Put(dk, d, tm, I)
<1>0. dk2 = [dk EXCEPT ![d] = [tm |-> tm, ltgs |-> I]]
  BY DEF Put
<1> HIDE DEF dk2
<1>1. dk \in [Pv -> Record] /\ tm \in Nat \X Nat
  BY DEF Timed
<1>2. dk2[d] = [tm |-> tm, ltgs |-> I] /\ \A p \in Pv : p # d => dk2[p] = dk[p]
  BY <1>0, <1>1
<1>3. dk2 \in [Pv -> Record]
  <2>1. [tm |-> tm, ltgs |-> I] \in Record
    BY <1>1 DEF Record
  <2> QED BY <2>1, <1>0, <1>1
<1>4. Timed(dk2, tm, now)
  <2>1. dk2[d].tm = tm
    BY <1>2
  <2>2. tm[1] = now /\ tm[2] \in Nat
    BY <1>1 DEF Timed
  <2>3. ASSUME NEW p \in Pv
        PROVE  dk2[p].tm[1] < now \/ (dk2[p].tm[1] = now /\ tm[1] = now /\ dk2[p].tm[2] <= tm[2])
    <3>1. CASE p = d
      BY <3>1, <2>1, <2>2
    <3>2. CASE p # d
      BY <3>2, <1>2 DEF Timed
    <3> QED BY <3>1, <3>2
  <2> QED BY <2>3, <1>3 DEF Timed
<1>5. NowOn(dk2, tm) = NowOn(dk, tm) \cup {d}
  BY <1>2 DEF NowOn
<1>6. \A p \in NowOn(dk2, tm) : dk2[p].ltgs = IF p = d THEN I ELSE dk[p].ltgs
  BY <1>2 DEF NowOn
<1>7. ASSUME NEW p \in Pv
      PROVE  /\ dk[p].tm \in Nat \X Nat /\ dk2[p].tm \in Nat \X Nat
             /\ ~Earlier(dk2[p].tm, dk[p].tm)
  <2>1. dk[p].tm \in Nat \X Nat /\ ~Earlier(tm, dk[p].tm)
    BY NotLater
  <2>2. ~Earlier(dk[p].tm, dk[p].tm)
    BY <2>1, EarlierOrder
  <2> QED BY <2>1, <2>2, <1>1, <1>2
<1>8. ASSUME NEW t \in I, NEW S \in SUBSET Pv, Named(dk, t, S),
             NEW p \in NewestOf(dk2) \cup S, NEW q \in Pv, ~Earlier(dk2[q].tm, dk2[p].tm)
      PROVE  t \in dk2[q].ltgs
  <2>0. p \in Pv
    BY DEF NewestOf
  <2>1. CASE q = d
    BY <2>1, <1>2
  <2>2. CASE q # d
    <3>1. dk2[q] = dk[q] /\ ~Earlier(dk[q].tm, dk2[p].tm)
      BY <2>2, <1>2, <1>8
    <3>2. CASE p \in S
      <4>1. ~Earlier(dk[q].tm, dk[p].tm)
        BY <3>1, <2>0, <1>7, EarlierOrder
      <4> QED BY <4>1, <3>1, <3>2, <1>8 DEF Named
    <3>3. CASE p \in NewestOf(dk2)
      <4>1. ASSUME NEW x \in Pv PROVE ~Earlier(dk[q].tm, dk[x].tm)
        <5>1. ~Earlier(dk2[p].tm, dk2[x].tm)
          BY <3>3 DEF NewestOf
        <5>2. ~Earlier(dk[q].tm, dk2[x].tm)
          BY <5>1, <3>1, <2>0, <1>7, EarlierOrder
        <5> QED BY <5>2, <1>7, EarlierOrder
      <4>2. q \in NewestOf(dk)
        BY <4>1 DEF NewestOf
      <4>3. ~Earlier(dk[q].tm, dk[q].tm)
        BY <4>1
      <4> QED BY <4>2, <4>3, <3>1, <1>8 DEF Named
    <3> QED BY <3>2, <3>3
  <2> QED BY <2>1, <2>2
<1>9. \A t \in I, S \in SUBSET Pv : Named(dk, t, S) => Named(dk2, t, S)
  BY <1>8 DEF Named
<1> QED BY <1>4, <1>5, <1>6, <1>9 DEF dk2

(* The record in memory gets a new time.                                    *)
LEMMA TimeGiven ==
  ASSUME NEW dk, NEW tm, NEW now, Timed(dk, tm, now)
  PROVE  LET new == hd_gettime(tm, <<now, 0>>)
         IN  Timed(dk, new, now) /\ new # NoTime /\ NowOn(dk, new) = {}
<1> DEFINE new == hd_gettime(tm, <<now, 0>>)
<1>1. tm[1] \in Nat /\ tm[2] \in Nat /\ now \in Nat /\ now # 0 /\ tm \in Nat \X Nat
  BY DEF Timed
<1>2. tm = NoTime => tm[1] = 0 /\ tm[2] = 0
  BY DEF NoTime
<1>3. tm[1] = now => new = <<now, tm[2] + 1>>
  BY <1>1 DEF hd_gettime
<1>4. tm = NoTime => new = <<now, 0>>
  BY <1>1, <1>2 DEF hd_gettime
<1>5. tm = NoTime \/ tm[1] = now
  BY DEF Timed
<1> HIDE DEF new
<1>6. new \in Nat \X Nat /\ new[1] = now /\ new # NoTime
  BY <1>1, <1>3, <1>4, <1>5 DEF NoTime
<1>7. ASSUME NEW p \in Pv
      PROVE  /\ dk[p].tm[1] < now \/ (dk[p].tm[1] = now /\ dk[p].tm[2] < new[2])
             /\ dk[p].tm[1] \in Nat /\ dk[p].tm[2] \in Nat
  <2>1. dk[p].tm[1] < now \/ (dk[p].tm[1] = now /\ tm[1] = now /\ dk[p].tm[2] <= tm[2])
    BY DEF Timed
  <2>2. tm[1] = now => new[2] = tm[2] + 1
    BY <1>3
  <2>3. dk[p].tm \in Nat \X Nat
    BY NotLater
  <2> QED BY <2>1, <2>2, <2>3, <1>1
<1>8. Timed(dk, new, now)
  <2>1. new[2] \in Nat
    BY <1>6
  <2> QED BY <1>6, <1>7, <2>1 DEF Timed
<1>9. NowOn(dk, new) = {}
  BY <1>6, <1>7 DEF NowOn
<1> QED BY <1>6, <1>8, <1>9 DEF new

(* What the cache says of the records: K are the track groups that the      *)
(* records name, B the disks that are being written, N those that have the  *)
(* record in memory and Lo the disks that do not count.                     *)
Logged(c, K, B, N, Lo) ==
  /\ \A i \in 1..ca_size : c.ca_lst[i].state = "CANOCHG" => c.ca_lst[i].tg \in K
  /\ \A i \in 1..ca_size : c.ca_lst[i].state = "CACHG" =>
       Mirrors(c.ca_lst[i].tg) \ Lo \subseteq IF "CA_VGACT" \in c.flags THEN c.pvwrt ELSE B \cup N
  /\ \A r \in c.cached : WaitsFor(c, r) = {} => c.lb[r] \in K
  /\ \A r \in c.cached : WaitsFor(c, r) # {} =>
       Mirrors(c.lb[r]) \ Lo \subseteq WaitsFor(c, r) \cup IF "CA_VGACT" \in c.flags THEN {} ELSE N
Tidy(c, B) ==
  /\ "CA_VGACT" \notin c.flags /\ B = {} => \A i \in 1..ca_size : c.ca_lst[i].state # "CACHG"
  /\ "CA_VGACT" \in c.flags => c.pvwrt # {}

LEMMA EasesImage ==
  ASSUME NEW c \in MemType, NEW d \in MemType, NEW X, Eases(c, d, X)
  PROVE  Image(d) \subseteq Image(c)
<1> SUFFICES ASSUME NEW t \in Image(d) PROVE t \in Image(c)
  OBVIOUS
<1>1. t # NULL /\ \E i \in 1..ca_size : d.ca_lst[i].tg = t
  BY InImage
<1>2. PICK i \in 1..ca_size : d.ca_lst[i].tg = t
  BY <1>1
<1>3. PICK j \in 1..ca_size : Same(d.ca_lst[i], c.ca_lst[j])
  BY <1>1, <1>2 DEF Eases, Same, CleanEntry
<1> QED BY <1>1, <1>2, <1>3, InImage DEF Same

LEMMA EasesTidy ==
  ASSUME NEW c, NEW d, NEW X, Eases(c, d, X), NEW B, NEW D, Tidy(c, B), B = {} \/ D # {}
  PROVE  Tidy(d, D)
<1>1. ASSUME "CA_VGACT" \notin d.flags, D = {}, NEW i \in 1..ca_size PROVE d.ca_lst[i].state # "CACHG"
  <2>1. "CA_VGACT" \notin c.flags /\ B = {}
    BY <1>1 DEF Eases
  <2>2. Same(d.ca_lst[i], CleanEntry) \/ \E j \in 1..ca_size : Same(d.ca_lst[i], c.ca_lst[j])
    BY DEF Eases
  <2> QED BY <2>1, <2>2 DEF Tidy, Same, CleanEntry
<1>2. "CA_VGACT" \in d.flags => d.pvwrt # {}
  BY DEF Eases, Tidy
<1> QED BY <1>1, <1>2 DEF Tidy

(* With no write of the record under way, whoever waits has asked for one.  *)
LEMMA WaitsOnList ==
  ASSUME NEW c, NEW B, Sound(c, B, {}), NEW q \in Req, WaitsFor(c, q) # {}
  PROVE  "CA_VGACT" \in c.flags
<1>1. PICK p \in Pv : q \in Range(c.ca_pv[p])
  BY DEF WaitsFor
<1>2. c.ca_pv[p] # <<>>
  <2>1. <<>> \in Seq(Req)
    OBVIOUS
  <2>2. Range(<<>>) = {}
    BY <2>1, RangeEmpty
  <2> QED BY <2>2, <1>1
<1> QED BY <1>2 DEF Sound, Flow

(* The requests that waited for the disks of X wait no more: those disks    *)
(* have the record now, or count no more.                                   *)
LEMMA EasesLogged ==
  ASSUME NEW c \in MemType, Tally(c), Entries(c), NEW d, NEW X, Eases(c, d, X),
         NEW K, NEW B, NEW N, NEW Lo, Logged(c, K, B, N, Lo),
         NEW K2, NEW B2, NEW N2, NEW Lo2, Lo \subseteq Lo2, N \subseteq N2,
         B \subseteq B2 \cup N2 \cup Lo2, X \subseteq N2 \cup Lo2,
         \A t \in Image(c) : t \in K => t \in K2,
         X # {} => "CA_VGACT" \notin c.flags /\ \A t \in Image(c) : Mirrors(t) \ Lo2 \subseteq N2 => t \in K2
  PROVE  Logged(d, K2, B2, N2, Lo2)
<1>0. Entries(d) /\ d.pvwrt = c.pvwrt /\ ("CA_VGACT" \in d.flags <=> "CA_VGACT" \in c.flags)
  BY DEF Eases
<1>1. ASSUME NEW i \in 1..ca_size, d.ca_lst[i].state # "CACLEAN"
      PROVE  \E j \in 1..ca_size : Same(d.ca_lst[i], c.ca_lst[j]) /\ c.ca_lst[j].tg \in Image(c)
  <2>1. PICK j \in 1..ca_size : Same(d.ca_lst[i], c.ca_lst[j])
    BY <1>1 DEF Eases, Same, CleanEntry
  <2>2. c.ca_lst[j].tg # NULL
    BY <2>1, <1>1 DEF Same, Entries
  <2>3. c.ca_lst[j].tg \in Image(c)
    BY <2>2, InImage
  <2> QED BY <2>1, <2>3
<1>2. c.cached \subseteq Req /\ \A r \in c.cached : c.lb[r] \in Image(c)
  BY CacheFields DEF Tally
<1>3. ASSUME NEW i \in 1..ca_size, d.ca_lst[i].state = "CANOCHG" PROVE d.ca_lst[i].tg \in K2
  <2>1. PICK j \in 1..ca_size : Same(d.ca_lst[i], c.ca_lst[j]) /\ c.ca_lst[j].tg \in Image(c)
    BY <1>1, <1>3
  <2> QED BY <2>1, <1>3 DEF Same, Logged
<1>4. ASSUME NEW i \in 1..ca_size, d.ca_lst[i].state = "CACHG"
      PROVE  Mirrors(d.ca_lst[i].tg) \ Lo2 \subseteq IF "CA_VGACT" \in d.flags THEN d.pvwrt ELSE B2 \cup N2
  <2>1. PICK j \in 1..ca_size : Same(d.ca_lst[i], c.ca_lst[j]) /\ c.ca_lst[j].tg \in Image(c)
    BY <1>1, <1>4
  <2>2. Mirrors(c.ca_lst[j].tg) \ Lo \subseteq IF "CA_VGACT" \in c.flags THEN c.pvwrt ELSE B \cup N
    BY <2>1, <1>4 DEF Same, Logged
  <2>3. d.ca_lst[i].tg = c.ca_lst[j].tg
    BY <2>1 DEF Same
  <2> QED BY <2>2, <2>3, <1>0
<1>5. ASSUME NEW r \in d.cached
      PROVE  /\ r \in c.cached /\ r \in Req /\ d.lb[r] = c.lb[r] /\ c.lb[r] \in Image(c)
             /\ WaitsFor(c, r) \ X \subseteq WaitsFor(d, r) /\ WaitsFor(d, r) \subseteq WaitsFor(c, r)
  BY <1>2 DEF Eases
<1>6. ASSUME NEW r \in d.cached, WaitsFor(d, r) = {} PROVE d.lb[r] \in K2
  <2>1. CASE WaitsFor(c, r) = {}
    BY <2>1, <1>5 DEF Logged
  <2>2. CASE WaitsFor(c, r) # {}
    <3>1. WaitsFor(c, r) \subseteq X /\ X # {}
      BY <2>2, <1>5, <1>6
    <3>2. Mirrors(c.lb[r]) \ Lo \subseteq WaitsFor(c, r) \cup N
      BY <2>2, <3>1, <1>5 DEF Logged
    <3>3. Mirrors(c.lb[r]) \ Lo2 \subseteq N2
      BY <3>1, <3>2
    <3> QED BY <3>1, <3>3, <1>5
  <2> QED BY <2>1, <2>2
<1>7. ASSUME NEW r \in d.cached, WaitsFor(d, r) # {}
      PROVE Mirrors(d.lb[r]) \ Lo2 \subseteq WaitsFor(d, r) \cup IF "CA_VGACT" \in d.flags THEN {} ELSE N2
  <2>1. WaitsFor(c, r) # {}
    BY <1>5, <1>7
  <2>2. Mirrors(c.lb[r]) \ Lo \subseteq WaitsFor(c, r) \cup IF "CA_VGACT" \in c.flags THEN {} ELSE N
    BY <2>1, <1>5 DEF Logged
  <2>3. CASE "CA_VGACT" \in c.flags
    <3>1. X = {} /\ WaitsFor(c, r) \subseteq WaitsFor(d, r)
      BY <2>3, <1>5
    <3>2. Mirrors(c.lb[r]) \ Lo \subseteq WaitsFor(d, r)
      BY <2>2, <2>3, <3>1
    <3> QED BY <3>2, <2>3, <1>5
  <2>4. CASE "CA_VGACT" \notin c.flags
    BY <2>2, <2>4, <1>0, <1>5
  <2> QED BY <2>3, <2>4
<1> QED BY <1>3, <1>4, <1>6, <1>7 DEF Logged

LEMMA EntryIn == Entry \subseteq AnEntry
<1>1. 0..Cardinality(Req) \subseteq Nat
  OBVIOUS
<1>2. ASSUME NEW e \in Entry PROVE e \in AnEntry
  BY <1>1 DEF Entry, AnEntry
<1> QED BY <1>2

(* The list after hd_ca_use.                                                *)
LEMMA UsedAt ==
  ASSUME NEW c \in MemType, NEW i \in 1..ca_size, NEW e \in AnEntry
  PROVE  LET first == hd_ca_use(c, i, e, "CAHEAD").ca_lst
             last == hd_ca_use(c, i, e, "CATAIL").ca_lst
         IN  /\ first[1] = e /\ last[ca_size] = e
             /\ \A k \in 2..ca_size : first[k] = c.ca_lst[IF k <= i THEN k - 1 ELSE k]
             /\ \A k \in 1..(ca_size - 1) : last[k] = c.ca_lst[IF k < i THEN k ELSE k + 1]
<1> DEFINE n == ca_size
           s == c.ca_lst
           R == RemoveAt(s, i)
           first == <<e>> \o R
           last == Append(R, e)
<1>1. n \in Nat /\ i \in 1..n /\ s \in [1..n -> AnEntry]
  <2>1. s \in [1..n -> Entry] /\ n \in Nat
    BY CacheFields, SizeAssumption
  <2> QED BY <2>1, EntryIn
<1>2. hd_ca_use(c, i, e, "CAHEAD").ca_lst = first /\ hd_ca_use(c, i, e, "CATAIL").ca_lst = last
  BY DEF hd_ca_use, MemType
<1>3. /\ R \in Seq(AnEntry) /\ Len(R) = n - 1
      /\ \A k \in 1..(n - 1) : R[k] = IF k < i THEN s[k] ELSE s[k + 1]
  BY <1>1, Removed
<1> HIDE DEF R, n, s
<1>4. last[n] = e /\ \A k \in 1..(n - 1) : last[k] = R[k]
  BY <1>1, <1>3
<1>5. first[1] = e /\ \A k \in 2..n : first[k] = R[k - 1]
  BY <1>1, <1>3
<1> HIDE DEF first, last
<1>6. ASSUME NEW k \in 2..n PROVE first[k] = s[IF k <= i THEN k - 1 ELSE k]
  <2>1. k - 1 \in 1..(n - 1) /\ (k - 1) + 1 = k
    BY <1>1
  <2>2. R[k - 1] = IF k - 1 < i THEN s[k - 1] ELSE s[(k - 1) + 1]
    BY <2>1, <1>3
  <2>3. k - 1 < i <=> k <= i
    BY <1>1
  <2> QED BY <2>1, <2>2, <2>3, <1>5
<1>7. ASSUME NEW k \in 1..(n - 1) PROVE last[k] = s[IF k < i THEN k ELSE k + 1]
  BY <1>3, <1>4
<1> QED BY <1>2, <1>4, <1>5, <1>6, <1>7 DEF n, s

(* The last entry without I/O is cleaned and put at the tail.               *)
LEMMA TakeEases ==
  ASSUME NEW c \in MemType, NEW i \in 1..ca_size, NEW X
  PROVE  Eases(c, [hd_ca_use(c, i, CleanEntry, "CATAIL") EXCEPT !.flags = @ \ {"CA_FULL"}], X)
<1> DEFINE u == hd_ca_use(c, i, CleanEntry, "CATAIL")
           d == [u EXCEPT !.flags = @ \ {"CA_FULL"}]
           src(k) == IF k < i THEN k ELSE k + 1
<1>1. ca_size \in Nat \ {0} /\ CleanEntry \in AnEntry /\ CleanEntry.tg = NULL /\ CleanEntry.state = "CACLEAN"
  BY SizeAssumption DEF CleanEntry, AnEntry
<1>2. u.ca_lst[ca_size] = CleanEntry /\ \A k \in 1..(ca_size - 1) : u.ca_lst[k] = c.ca_lst[src(k)]
  BY <1>1, UsedAt
<1>3. u.flags = c.flags /\ u.cached = c.cached /\ u.lb = c.lb /\ u.ca_pv = c.ca_pv /\ u.pvwrt = c.pvwrt
  BY DEF hd_ca_use, MemType
<1>4. d.flags = u.flags \ {"CA_FULL"} /\ d.cached = u.cached /\ d.lb = u.lb /\ d.ca_pv = u.ca_pv
      /\ d.pvwrt = u.pvwrt /\ d.ca_lst = u.ca_lst
  BY DEF hd_ca_use, MemType
<1> HIDE DEF u, d
<1>5. /\ d.ca_lst[ca_size] = CleanEntry
      /\ \A k \in 1..ca_size : k # ca_size => src(k) \in 1..ca_size /\ d.ca_lst[k] = c.ca_lst[src(k)]
      /\ \A j, k \in 1..ca_size : j < k => src(j) < src(k)
  BY <1>1, <1>2, <1>4
<1> HIDE DEF src
<1>6. \A k \in 1..ca_size : Same(d.ca_lst[k], CleanEntry) \/ \E j \in 1..ca_size : Same(d.ca_lst[k], c.ca_lst[j])
  BY <1>5 DEF Same
<1>7. Entries(c) => Entries(d)
  <2>1. SUFFICES ASSUME Entries(c) PROVE Entries(d)
    OBVIOUS
  <2>2. ASSUME NEW k \in 1..ca_size PROVE d.ca_lst[k].tg = NULL <=> d.ca_lst[k].state = "CACLEAN"
    BY <2>1, <1>1, <1>5 DEF Entries
  <2>3. ASSUME NEW j \in 1..ca_size, NEW k \in 1..ca_size, j < k, d.ca_lst[j].tg = NULL
        PROVE  d.ca_lst[k].tg = NULL
    <3>1. CASE k = ca_size
      BY <3>1, <1>1, <1>5
    <3>2. CASE k # ca_size
      <4>1. j # ca_size
        BY <2>3, <1>1
      <4> QED BY <4>1, <3>2, <2>1, <2>3, <1>5 DEF Entries
    <3> QED BY <3>1, <3>2
  <2> QED BY <2>2, <2>3 DEF Entries
<1>8. \A r \in Req : WaitsFor(d, r) = WaitsFor(c, r)
  BY <1>3, <1>4 DEF WaitsFor
<1>9. Eases(c, d, X)
  BY <1>3, <1>4, <1>6, <1>7, <1>8 DEF Eases
<1> QED BY <1>9 DEF d, u

(* Entry i, or what takes its place, is put at the head.                    *)
LEMMA HeadEntries ==
  ASSUME NEW c \in MemType, NEW i \in 1..ca_size, NEW e \in AnEntry, e.tg # NULL, e.state # "CACLEAN",
         Entries(c), NEW d, d.ca_lst = hd_ca_use(c, i, e, "CAHEAD").ca_lst
  PROVE  /\ Entries(d) /\ d.ca_lst[1] = e
         /\ \A k \in 1..ca_size : k # 1 => \E j \in 1..ca_size : d.ca_lst[k] = c.ca_lst[j]
<1> DEFINE src(k) == IF k <= i THEN k - 1 ELSE k
<1>1. ca_size \in Nat \ {0}
  BY SizeAssumption
<1>2. d.ca_lst[1] = e /\ \A k \in 2..ca_size : d.ca_lst[k] = c.ca_lst[src(k)]
  BY UsedAt
<1>3. /\ \A k \in 1..ca_size : k # 1 => src(k) \in 1..ca_size /\ d.ca_lst[k] = c.ca_lst[src(k)]
      /\ \A j, k \in 1..ca_size : j < k => src(j) < src(k)
  BY <1>1, <1>2
<1> HIDE DEF src
<1>4. ASSUME NEW k \in 1..ca_size PROVE d.ca_lst[k].tg = NULL <=> d.ca_lst[k].state = "CACLEAN"
  BY <1>2, <1>3 DEF Entries
<1>5. ASSUME NEW j \in 1..ca_size, NEW k \in 1..ca_size, j < k, d.ca_lst[j].tg = NULL
      PROVE  d.ca_lst[k].tg = NULL
  <2>1. j # 1 /\ k # 1
    BY <1>1, <1>2, <1>5
  <2> QED BY <2>1, <1>3, <1>5 DEF Entries
<1> QED BY <1>2, <1>3, <1>4, <1>5 DEF Entries

LEMMA HitLogged ==
  ASSUME NEW c, NEW B \in SUBSET Req, NEW D, Sound(c, B, D), Entries(c), Tidy(c, D),
         NEW r \in Req, r \notin Queued(c), r \notin c.cached, IsHit(c, c.lb[r]),
         NEW K, NEW N, NEW Lo, Logged(c, K, D, N, Lo)
  PROVE  LET d == hd_ca_hit(c, r)
         IN  /\ Entries(d) /\ Tidy(d, D) /\ Logged(d, K, D, N, Lo) /\ Image(d) \subseteq Image(c)
             /\ d.cached = c.cached \cup {r} /\ d.lb = c.lb /\ d.lb[r] \in K
             /\ d.flags = c.flags /\ \A q \in Req : WaitsFor(d, q) = WaitsFor(c, q)
<1> DEFINE i == EntryOf(c, c.lb[r])
           e == [c.ca_lst[i] EXCEPT !.iocnt = @ + 1]
           d == hd_ca_hit(c, r)
<1>1. c \in MemType /\ c.cached \subseteq Req
  BY CacheFields DEF Sound
<1>2. i \in 1..ca_size /\ c.ca_lst[i].tg = c.lb[r] /\ c.lb[r] # NULL /\ c.ca_lst[i].state # "CACHG"
  BY <1>1, InImage DEF IsHit
<1>3. c.ca_lst[i].state = "CANOCHG"
  BY <1>1, <1>2, EntryFields DEF Entries
<1>4. e \in AnEntry /\ e.tg = c.lb[r] /\ e.state = "CANOCHG" /\ Same(e, c.ca_lst[i])
  <2>1. PICK n \in Nat : n = c.ca_lst[i].iocnt
    BY <1>1, <1>2, EntryFields
  <2>2. c.ca_lst[i] \in AnEntry
    BY <1>1, <1>2, EntryFields, EntryIn
  <2> QED BY <2>1, <2>2, <1>2, <1>3 DEF AnEntry, Same
<1>5. /\ d.ca_lst = hd_ca_use(c, i, e, "CAHEAD").ca_lst /\ d.cached = c.cached \cup {r}
      /\ d.flags = c.flags /\ d.lb = c.lb /\ d.ca_pv = c.ca_pv /\ d.pvwrt = c.pvwrt
  <2> DEFINE L == <<e>> \o RemoveAt(c.ca_lst, i)
  <2>1. d = [[c EXCEPT !.ca_lst = L] EXCEPT !.cached = @ \cup {r}]
    BY DEF hd_ca_hit, hd_ca_use
  <2>2. hd_ca_use(c, i, e, "CAHEAD") = [c EXCEPT !.ca_lst = L]
    BY DEF hd_ca_use
  <2> HIDE DEF L, d, e, i
  <2> QED BY <2>1, <2>2, <1>1 DEF MemType
<1> HIDE DEF d, e, i
<1>6. /\ Entries(d) /\ d.ca_lst[1] = e
      /\ \A k \in 1..ca_size : k # 1 => \E j \in 1..ca_size : d.ca_lst[k] = c.ca_lst[j]
  BY <1>1, <1>2, <1>4, <1>5, HeadEntries
<1>7. \A k \in 1..ca_size : \E j \in 1..ca_size : Same(d.ca_lst[k], c.ca_lst[j])
  BY <1>2, <1>4, <1>6 DEF Same
<1>8. \A q \in Req : WaitsFor(d, q) = WaitsFor(c, q)
  BY <1>5 DEF WaitsFor
<1>9. WaitsFor(c, r) = {}
  BY DEF Queued, Waiting
<1>10. c.lb[r] \in K
  BY <1>2, <1>3 DEF Logged
<1>11. Logged(d, K, D, N, Lo)
  <2>1. /\ \A k \in 1..ca_size : d.ca_lst[k].state = "CANOCHG" => d.ca_lst[k].tg \in K
        /\ \A k \in 1..ca_size : d.ca_lst[k].state = "CACHG" =>
             Mirrors(d.ca_lst[k].tg) \ Lo \subseteq IF "CA_VGACT" \in d.flags THEN d.pvwrt ELSE D \cup N
    BY <1>5, <1>7 DEF Logged, Same
  <2>2. /\ \A q \in d.cached : WaitsFor(d, q) = {} => d.lb[q] \in K
        /\ \A q \in d.cached : WaitsFor(d, q) # {} =>
             Mirrors(d.lb[q]) \ Lo \subseteq WaitsFor(d, q) \cup IF "CA_VGACT" \in d.flags THEN {} ELSE N
    BY <1>1, <1>5, <1>8, <1>9, <1>10 DEF Logged
  <2> QED BY <2>1, <2>2 DEF Logged
<1>12. Tidy(d, D)
  BY <1>5, <1>7 DEF Tidy, Same
<1>13. Image(d) \subseteq Image(c)
  BY <1>7 DEF Image, Same
<1> QED BY <1>5, <1>6, <1>8, <1>10, <1>11, <1>12, <1>13 DEF d

(* The track group of r is put at the head, to be written to its disks.     *)
LEMMA EntersLogged ==
  ASSUME NEW c, NEW B \in SUBSET Req, NEW D, Sound(c, B, D), Entries(c), Tidy(c, D),
         "CA_INFLT" \notin c.flags,
         NEW r \in Req, r \notin Queued(c), r \notin c.cached, c.lb[r] \in Tg, c.lb[r] # NULL,
         NEW i \in 1..ca_size, NEW e \in AnEntry, e.tg = c.lb[r], e.state = "CACHG",
         PvWaits(c.lb[r]) # {},
         NEW K, NEW N, NEW Lo, Logged(c, K, D, N, Lo), missing \subseteq Lo
  PROVE  LET d == Enters(c, i, e, r)
         IN  Entries(d) /\ Tidy(d, D) /\ Logged(d, K, D, N, Lo)
<1> DEFINE t == c.lb[r]
           P == PvWaits(t)
           d == Enters(c, i, e, r)
<1>1. c \in MemType /\ c.cached \subseteq Req /\ c.ca_pv \in [Pv -> Seq(Req)]
  BY CacheFields DEF Sound
<1>2. /\ d.ca_lst = hd_ca_use(c, i, e, "CAHEAD").ca_lst /\ d.cached = c.cached \cup {r}
      /\ d.flags = c.flags \cup {"CA_VGACT"} /\ d.lb = c.lb /\ d.pvwrt = c.pvwrt \cup P
      /\ \A p \in Pv : d.ca_pv[p] = IF p \in P THEN Append(c.ca_pv[p], r) ELSE c.ca_pv[p]
  <2> DEFINE L == <<e>> \o RemoveAt(c.ca_lst, i)
             u == [c EXCEPT !.ca_lst = L]
             v == hd_ca_pvque(u, r)
  <2>1. hd_ca_use(c, i, e, "CAHEAD") = u
    BY DEF hd_ca_use
  <2>2. d = [v EXCEPT !.flags = @ \cup {"CA_VGACT"}, !.cached = @ \cup {r}]
    BY <2>1 DEF Enters
  <2> HIDE DEF L
  <2>3. u.flags = c.flags /\ u.cached = c.cached /\ u.lb = c.lb /\ u.ca_pv = c.ca_pv /\ u.pvwrt = c.pvwrt
        /\ u.ca_lst = L
    BY <1>1 DEF MemType
  <2>4. /\ v.flags = u.flags /\ v.cached = u.cached /\ v.lb = u.lb /\ v.pvwrt = u.pvwrt \cup P /\ v.ca_lst = u.ca_lst
        /\ v.ca_pv = [p \in Pv |-> IF p \in P THEN Append(u.ca_pv[p], r) ELSE u.ca_pv[p]]
    <3>1. PvWaits(u.lb[r]) = P
      BY <2>3
    <3> HIDE DEF P, t
    <3> QED BY <2>3, <3>1, <1>1 DEF hd_ca_pvque, MemType
  <2>5. d.flags = v.flags \cup {"CA_VGACT"} /\ d.cached = v.cached \cup {r} /\ d.lb = v.lb /\ d.pvwrt = v.pvwrt
        /\ d.ca_lst = v.ca_lst /\ d.ca_pv = v.ca_pv
    <3>1. DOMAIN v = DOMAIN c
      BY <1>1 DEF hd_ca_pvque, MemType
    <3> HIDE DEF v, d
    <3> QED BY <2>2, <3>1, <1>1 DEF MemType
  <2> HIDE DEF u, v, d, P, t
  <2> QED BY <2>1, <2>3, <2>4, <2>5
<1>3. P = Mirrors(t) \ missing
  BY DEF PvWaits
<1>4. P \subseteq Pv /\ P # {}
  BY <1>3, MirrorsOK
<1>5. D = {}
  BY DEF Sound, Flow
<1> HIDE DEF d, P, t
<1>6. WaitsFor(c, r) = {}
  BY DEF Queued, Waiting
<1>7. ASSUME NEW q \in Req PROVE WaitsFor(d, q) = IF q = r THEN P ELSE WaitsFor(c, q)
  <2>1. ASSUME NEW p \in Pv PROVE Range(d.ca_pv[p]) = IF p \in P THEN Range(c.ca_pv[p]) \cup {r} ELSE Range(c.ca_pv[p])
    <3>1. c.ca_pv[p] \in Seq(Req)
      BY <1>1
    <3>2. Range(Append(c.ca_pv[p], r)) = Range(c.ca_pv[p]) \cup {r}
      BY <3>1, RangeAppend
    <3> QED BY <3>2, <1>2
  <2> QED BY <2>1, <1>4, <1>6 DEF WaitsFor
<1>8. /\ Entries(d) /\ d.ca_lst[1] = e
      /\ \A k \in 1..ca_size : k # 1 => \E j \in 1..ca_size : d.ca_lst[k] = c.ca_lst[j]
  BY <1>1, <1>2, HeadEntries
<1>9. ASSUME NEW q \in Req, WaitsFor(c, q) # {} PROVE "CA_VGACT" \in c.flags
  BY <1>1, <1>5, <1>9, WaitsOnList
<1>10. Mirrors(t) \ Lo \subseteq P
  BY <1>3
<1>11. ASSUME NEW k \in 1..ca_size
       PROVE  /\ d.ca_lst[k].state = "CANOCHG" => d.ca_lst[k].tg \in K
              /\ d.ca_lst[k].state = "CACHG" => Mirrors(d.ca_lst[k].tg) \ Lo \subseteq d.pvwrt
  <2>1. CASE k = 1
    BY <2>1, <1>2, <1>8, <1>10 DEF t
  <2>2. CASE k # 1
    <3>1. PICK j \in 1..ca_size : d.ca_lst[k] = c.ca_lst[j]
      BY <2>2, <1>8
    <3>2. c.ca_lst[j].state = "CACHG" => "CA_VGACT" \in c.flags
      BY <1>5 DEF Tidy
    <3>3. c.ca_lst[j].state = "CACHG" => Mirrors(c.ca_lst[j].tg) \ Lo \subseteq c.pvwrt
      BY <3>2 DEF Logged
    <3>4. c.ca_lst[j].state = "CANOCHG" => c.ca_lst[j].tg \in K
      BY DEF Logged
    <3> QED BY <3>1, <3>3, <3>4, <1>2
  <2> QED BY <2>1, <2>2
<1>12. ASSUME NEW q \in d.cached
       PROVE  /\ WaitsFor(d, q) = {} => d.lb[q] \in K
              /\ WaitsFor(d, q) # {} => Mirrors(d.lb[q]) \ Lo \subseteq WaitsFor(d, q)
  <2>1. q \in Req /\ d.lb[q] = c.lb[q]
    BY <1>1, <1>2
  <2>2. CASE q = r
    BY <2>1, <2>2, <1>4, <1>7, <1>10 DEF t
  <2>3. CASE q # r
    <3>1. q \in c.cached /\ WaitsFor(d, q) = WaitsFor(c, q)
      BY <2>1, <2>3, <1>2, <1>7
    <3>2. WaitsFor(c, q) # {} => Mirrors(c.lb[q]) \ Lo \subseteq WaitsFor(c, q)
      BY <2>1, <3>1, <1>9 DEF Logged
    <3>3. WaitsFor(c, q) = {} => c.lb[q] \in K
      BY <3>1 DEF Logged
    <3> QED BY <2>1, <3>1, <3>2, <3>3
  <2> QED BY <2>2, <2>3
<1>13. "CA_VGACT" \in d.flags /\ d.pvwrt # {}
  BY <1>2, <1>4
<1>14. Logged(d, K, D, N, Lo)
  BY <1>11, <1>12, <1>13 DEF Logged
<1> QED BY <1>8, <1>13, <1>14 DEF Tidy, d

(* The list is as it was.                                                   *)
LEMMA PlainEases ==
  ASSUME NEW c, NEW d, NEW X, "CA_VGACT" \in d.flags <=> "CA_VGACT" \in c.flags,
         d.pvwrt = c.pvwrt, d.ca_pv = c.ca_pv, d.ca_lst = c.ca_lst, d.cached = c.cached,
         \A r \in c.cached : d.lb[r] = c.lb[r]
  PROVE  Eases(c, d, X)
<1>1. \A i \in 1..ca_size : Same(d.ca_lst[i], c.ca_lst[i])
  BY DEF Same
<1>2. \A r \in d.cached : r \in c.cached /\ d.lb[r] = c.lb[r]
  OBVIOUS
<1> QED BY <1>1, <1>2, EasesFrame

LEMMA HeldEases ==
  ASSUME NEW c \in MemType, NEW r, NEW X
  PROVE  Eases(c, Held(c, r), X)
<1> DEFINE d == Held(c, r)
<1>1. /\ d.flags = c.flags /\ d.pvwrt = c.pvwrt /\ d.ca_pv = c.ca_pv /\ d.ca_lst = c.ca_lst
      /\ d.cached = c.cached /\ d.lb = c.lb
  BY DEF Held, MemType
<1> HIDE DEF d
<1>2. Eases(c, d, X)
  BY <1>1, PlainEases
<1> QED BY <1>2 DEF d

(* What holds of the cache while nothing is written.                        *)
LEMMA EasedLogged ==
  ASSUME NEW c \in MemType, Tally(c), Entries(c), NEW D, Tidy(c, D), NEW d, Eases(c, d, {}),
         NEW K, NEW N, NEW Lo, Logged(c, K, D, N, Lo)
  PROVE  Entries(d) /\ Tidy(d, D) /\ Logged(d, K, D, N, Lo)
<1>1. Entries(d)
  BY DEF Eases
<1>2. Tidy(d, D)
  BY EasesTidy
<1>3. Logged(d, K, D, N, Lo)
  BY EasesLogged
<1> QED BY <1>1, <1>2, <1>3

LEMMA MissLogged ==
  ASSUME NEW c, NEW B \in SUBSET Req, NEW D, Sound(c, B, D), Moves(c), Entries(c), Tidy(c, D),
         NEW r \in Req, r \notin Queued(c), r \notin B, r \notin c.cached,
         c.lb[r] \in Tg, c.lb[r] # NULL,
         NEW K, NEW N, NEW Lo, Logged(c, K, D, N, Lo), D = {} => missing \subseteq Lo
  PROVE  LET d == hd_ca_miss(c, r)
         IN  /\ Entries(d) /\ Tidy(d, D) /\ Logged(d, K, D, N, Lo)
             /\ D # {} => Image(d) \subseteq Image(c)
             /\ \A q \in d.cached : q = r \/ q \in c.cached
<1> DEFINE t == c.lb[r]
           known == t \in Image(c)
           i == IF known THEN EntryOf(c, t) ELSE Max(hd_ca_new(c))
           P == PvWaits(t)
           taken == IF known THEN c
                    ELSE [hd_ca_use(c, i, CleanEntry, "CATAIL") EXCEPT !.flags = @ \ {"CA_FULL"}]
           e == [tg |-> t, state |-> "CACHG", iocnt |-> IF known THEN c.ca_lst[i].iocnt + 1 ELSE 1]
           j == IF known THEN i ELSE ca_size
           d == hd_ca_miss(c, r)
           Good(x) == Entries(x) /\ Tidy(x, D) /\ Logged(x, K, D, N, Lo)
<1>0. c \in MemType /\ Tally(c)
  BY DEF Sound
<1>1. d \in MemType
  BY MissOK DEF Sound
<1>2. D # {} => "CA_INFLT" \in c.flags
  BY DEF Sound, Flow
<1>3. CASE "CA_INFLT" \in c.flags
  <2>1. d = Held(c, r)
    BY <1>3 DEF hd_ca_miss
  <2> HIDE DEF d
  <2>2. Eases(c, d, {})
    BY <1>0, <2>1, HeldEases
  <2>3. Good(d) /\ Image(d) \subseteq Image(c)
    BY <1>0, <1>1, <2>2, EasedLogged, EasesImage
  <2>4. \A q \in d.cached : q \in c.cached
    BY <2>2 DEF Eases
  <2> QED BY <2>3, <2>4 DEF d
<1>4. CASE "CA_INFLT" \notin c.flags /\ ~known /\ hd_ca_new(c) = {}
  <2> DEFINE h == Held(c, r)
  <2>1. d = [h EXCEPT !.flags = @ \cup {"CA_FULL"}]
    BY <1>4 DEF hd_ca_miss
  <2>2. /\ h.flags = c.flags /\ h.pvwrt = c.pvwrt /\ h.ca_pv = c.ca_pv /\ h.ca_lst = c.ca_lst
        /\ h.cached = c.cached /\ h.lb = c.lb /\ DOMAIN h = DOMAIN c
    BY <1>0 DEF Held, MemType
  <2> HIDE DEF h, d
  <2>3. /\ d.flags = c.flags \cup {"CA_FULL"} /\ d.pvwrt = c.pvwrt /\ d.ca_pv = c.ca_pv /\ d.ca_lst = c.ca_lst
        /\ d.cached = c.cached /\ d.lb = c.lb
    BY <1>0, <2>1, <2>2 DEF MemType
  <2>4. Eases(c, d, {})
    BY <2>3, PlainEases
  <2>5. Good(d)
    BY <1>0, <2>4, EasedLogged
  <2> QED BY <1>2, <1>4, <2>3, <2>5 DEF d
<1>5. CASE "CA_INFLT" \notin c.flags /\ (known \/ hd_ca_new(c) # {})
  <2>1. D = {} /\ missing \subseteq Lo
    BY <1>2, <1>5
  <2>2. /\ Sound(taken, B, D) /\ Moves(taken) /\ taken.lb = c.lb /\ Eases(c, taken, {})
        /\ "CA_INFLT" \notin taken.flags
        /\ Queued(taken) = Queued(c) /\ taken.cached = c.cached
    <3>1. CASE known
      <4>1. \A q \in c.cached : c.lb[q] = c.lb[q]
        OBVIOUS
      <4>2. Eases(c, c, {})
        BY <4>1, PlainEases
      <4> QED BY <3>1, <4>2, <1>5
    <3>2. CASE ~known
      <4>1. i = Max(hd_ca_new(c)) /\ taken = [hd_ca_use(c, i, CleanEntry, "CATAIL") EXCEPT !.flags = @ \ {"CA_FULL"}]
        BY <3>2
      <4> HIDE DEF taken, i
      <4>2. /\ Sound(taken, B, D) /\ Moves(taken) /\ taken.flags = c.flags \ {"CA_FULL"} /\ taken.lb = c.lb
            /\ Queued(taken) = Queued(c) /\ taken.cached = c.cached
        BY <1>5, <3>2, <4>1, TakeOK
      <4>3. i \in 1..ca_size
        <5>1. hd_ca_new(c) \in SUBSET (1..ca_size) /\ hd_ca_new(c) # {}
          BY <1>5, <3>2 DEF hd_ca_new
        <5>2. ca_size \in Nat
          BY SizeAssumption
        <5>3. Max(hd_ca_new(c)) \in hd_ca_new(c)
          BY <5>1, <5>2, MaxIn
        <5> QED BY <5>1, <5>3, <4>1
      <4>4. Eases(c, taken, {})
        BY <1>0, <4>1, <4>3, TakeEases
      <4> QED BY <4>2, <4>4, <1>5
    <3> QED BY <3>1, <3>2
  <2> HIDE DEF d
  <2>3. taken \in MemType /\ Tally(taken) /\ Good(taken)
    <3>1. taken \in MemType /\ Tally(taken)
      BY <2>2 DEF Sound
    <3>2. Good(taken)
      <4> HIDE DEF taken
      <4> QED BY <1>0, <2>2, EasedLogged
    <3> QED BY <3>1, <3>2
  <2>4. /\ j \in 1..ca_size /\ e \in AnEntry /\ e.tg = t /\ e.state = "CACHG"
    <3>1. CASE known
      <4>1. i = EntryOf(c, t) /\ j = i
        BY <3>1
      <4>2. i \in 1..ca_size
        BY <1>0, <3>1, <4>1, InImage
      <4>3. c.ca_lst[i].iocnt \in Nat
        BY <1>0, <4>2, EntryFields
      <4>4. e = [tg |-> t, state |-> "CACHG", iocnt |-> c.ca_lst[i].iocnt + 1]
        BY <3>1
      <4> HIDE DEF e, i, j
      <4>5. c.ca_lst[i].iocnt + 1 \in Nat
        BY <4>3
      <4> QED BY <4>1, <4>2, <4>4, <4>5 DEF AnEntry
    <3>2. CASE ~known
      <4>1. j = ca_size /\ e = [tg |-> t, state |-> "CACHG", iocnt |-> 1]
        BY <3>2
      <4> HIDE DEF e, j
      <4> QED BY <4>1, SizeAssumption DEF AnEntry
    <3> QED BY <3>1, <3>2
  <2>5. CASE P = {}
    <3>1. d = [taken EXCEPT !.lb[r] = NULL]
      BY <1>5, <2>5 DEF hd_ca_miss, d
    <3> HIDE DEF taken, P, t
    <3>2. r \notin taken.cached
      BY <2>2
    <3>3. Eases(taken, d, {})
      BY <2>3, <3>1, <3>2, GoneEases
    <3>4. Good(d) /\ \A q \in d.cached : q \in c.cached
      BY <2>2, <2>3, <3>3, EasedLogged DEF Eases
    <3> QED BY <2>1, <3>4 DEF d
  <2>6. CASE P # {} /\ Cardinality(P) > c.ca_freepvw
    <3>1. d = Held(taken, r)
      BY <1>5, <2>6 DEF hd_ca_miss, d
    <3> HIDE DEF taken, P, t
    <3>2. Eases(taken, d, {})
      BY <2>3, <3>1, HeldEases
    <3>3. Good(d) /\ \A q \in d.cached : q \in c.cached
      BY <2>2, <2>3, <3>2, EasedLogged DEF Eases
    <3> QED BY <2>1, <3>3 DEF d
  <2>7. CASE P # {} /\ ~(Cardinality(P) > c.ca_freepvw)
    <3>1. d = Enters(taken, j, e, r)
      BY <1>5, <2>7 DEF hd_ca_miss, Enters, d
    <3>2. taken.lb[r] = t /\ PvWaits(taken.lb[r]) # {} /\ t \in Tg /\ t # NULL
      BY <2>2, <2>7
    <3> HIDE DEF taken, P, t, e, j
    <3>3. Good(d)
      BY <2>1, <2>2, <2>3, <2>4, <3>1, <3>2, EntersLogged
    <3>4. d.cached = taken.cached \cup {r}
      BY <2>3, <3>1 DEF Enters, hd_ca_use, hd_ca_pvque, MemType
    <3> QED BY <2>1, <2>2, <3>3, <3>4 DEF d
  <2> QED BY <2>5, <2>6, <2>7
<1> QED BY <1>3, <1>4, <1>5

(* The end of the cache write to disk p, which has the record now or counts *)
(* no more.                                                                 *)
LEMMA WrittenStates ==
  ASSUME NEW c \in MemType, Entries(c), NEW i \in 1..ca_size
  PROVE  /\ Written(c.ca_lst)[i].tg = c.ca_lst[i].tg
         /\ Written(c.ca_lst)[i].state =
              IF c.ca_lst[i].state = "CACHG" THEN "CANOCHG" ELSE c.ca_lst[i].state
<1>1. c.ca_lst \in [1..ca_size -> Entry] /\ ca_size \in Nat
  BY CacheFields, SizeAssumption
<1>2. Written(c.ca_lst)[i].tg = c.ca_lst[i].tg
  BY <1>1, WrittenSame
<1>3. c.ca_lst[i].state = "CACHG" => \A j \in 1..i : c.ca_lst[j].state # "CACLEAN"
  <2>1. SUFFICES ASSUME c.ca_lst[i].state = "CACHG", NEW j \in 1..i, c.ca_lst[j].state = "CACLEAN"
                 PROVE  FALSE
    OBVIOUS
  <2>2. c.ca_lst[i].tg # NULL
    BY <2>1 DEF Entries
  <2>3. j \in 1..ca_size /\ (j = i \/ j < i)
    BY <1>1
  <2>4. c.ca_lst[j].tg = NULL
    BY <2>1, <2>3 DEF Entries
  <2> QED BY <2>2, <2>3, <2>4 DEF Entries
<1>4. Written(c.ca_lst)[i] = IF c.ca_lst[i].state = "CACHG" THEN [c.ca_lst[i] EXCEPT !.state = "CANOCHG"]
                             ELSE c.ca_lst[i]
  BY <1>1, <1>3 DEF Written
<1>5. c.ca_lst[i] \in Entry
  BY <1>1
<1> QED BY <1>2, <1>4, <1>5 DEF Entry

(* What holds when the write of the record to disk p has ended.             *)
Turns(c, p, K, N, Lo, K2, N2, Lo2) ==
  /\ Lo \subseteq Lo2 /\ N \subseteq N2 /\ p \in N2 \cup Lo2
  /\ \A t \in Image(c) : t \in K => t \in K2
  /\ \A t \in Image(c) : Mirrors(t) \ Lo2 \subseteq N2 => t \in K2

LEMMA WendLogged ==
  ASSUME NEW c, NEW B \in SUBSET Req, NEW D \in SUBSET Pv, Sound(c, B, D), NEW p \in D, Entries(c),
         NEW K, NEW N, NEW Lo, Logged(c, K, D, N, Lo),
         NEW K2, NEW N2, NEW Lo2, Turns(c, p, K, N, Lo, K2, N2, Lo2)
  PROVE  LET d == hd_ca_wend(c, p)
         IN  /\ Entries(d) /\ Tidy(d, D \ {p}) /\ Logged(d, K2, D \ {p}, N2, Lo2)
             /\ Image(d) \subseteq Image(c) /\ \A q \in d.cached : q \in c.cached
<1> DEFINE s == hd_ca_sked(c, p)
           E == D \ {p}
           cnt == s.ca_inflt_cnt - 1
           d == [s EXCEPT !.ca_inflt_cnt = cnt]
           last == [d EXCEPT !.ca_lst = Written(@), !.flags = @ \ {"CA_INFLT"}]
           again == [last EXCEPT !.flags = @ \cup {"CA_INFLT"}]
           Good(x) == /\ Entries(x) /\ Tidy(x, E) /\ Logged(x, K2, E, N2, Lo2)
                      /\ Image(x) \subseteq Image(c) /\ \A q \in x.cached : q \in c.cached
<1> USE DEF Turns
<1>1. hd_ca_wend(c, p) = IF d.ca_inflt_cnt > 0 THEN d ELSE IF Sleeping THEN again ELSE hd_ca_mvhld(last)
  BY DEF hd_ca_wend
<1>2. Sound(s, B, D) /\ Keeps(c, s, B) /\ Eases(c, s, {p})
  <2>1. p \in Pv /\ p \in D
    OBVIOUS
  <2> QED BY <2>1, SkedOK
<1>3. c \in MemType /\ Tally(c) /\ "CA_INFLT" \in c.flags /\ "CA_VGACT" \notin c.flags
      /\ c.ca_inflt_cnt = Cardinality(D)
  BY DEF Sound, Flow
<1> HIDE DEF s
<1>4. s \in MemType /\ Tally(s) /\ Entries(s) /\ s.flags = c.flags /\ s.ca_inflt_cnt = Cardinality(D)
      /\ Range(s.ca_hld) \cap s.cached = {}
  BY <1>2, <1>3 DEF Sound, Keeps, Eases, Places
<1>5. Logged(s, K2, E, N2, Lo2) /\ Image(s) \subseteq Image(c) /\ \A q \in s.cached : q \in c.cached
  <2>1. Logged(s, K2, E, N2, Lo2)
    <3>1. D \subseteq E \cup N2 \cup Lo2 /\ {p} \subseteq N2 \cup Lo2
      OBVIOUS
    <3> HIDE DEF E
    <3> QED BY <1>2, <1>3, <3>1, EasesLogged
  <2>2. Image(s) \subseteq Image(c)
    BY <1>2, <1>3, <1>4, EasesImage
  <2> QED BY <1>2, <2>1, <2>2 DEF Eases
<1>6. d.ca_inflt_cnt > 0 <=> E # {}
  <2>1. IsFiniteSet(D)
    BY SizeAssumption, FS_Subset
  <2>2. IsFiniteSet(E) /\ Cardinality(E) = Cardinality(D) - 1
    BY <2>1, FS_RemoveElement
  <2>3. Cardinality(E) \in Nat /\ (Cardinality(E) = 0 <=> E = {}) /\ Cardinality(D) \in Nat
    BY <2>1, <2>2, FS_CardinalityType, FS_EmptySet
  <2>4. d.ca_inflt_cnt = Cardinality(D) - 1
    BY <1>4 DEF MemType
  <2> QED BY <2>2, <2>3, <2>4
<1> HIDE DEF E
<1>7. /\ d.flags = s.flags /\ d.ca_lst = s.ca_lst /\ d.ca_pv = s.ca_pv /\ d.pvwrt = s.pvwrt
      /\ d.cached = s.cached /\ d.lb = s.lb /\ d.ca_hld = s.ca_hld /\ DOMAIN d = DOMAIN s
  BY <1>4 DEF MemType
<1>8. d.ca_inflt_cnt \in Int
  BY <1>4, <1>6 DEF MemType
<1>9. CASE E # {}
  <2>1. \A q \in s.cached : d.lb[q] = s.lb[q]
    BY <1>7
  <2> HIDE DEF d
  <2>2. Eases(s, d, {})
    BY <1>7, <2>1, PlainEases
  <2>3. Entries(d) /\ Logged(d, K2, E, N2, Lo2)
    <3>1. Tidy(s, E)
      BY <1>3, <1>4, <1>9 DEF Tidy
    <3> QED BY <1>4, <1>5, <2>2, <3>1, EasedLogged
  <2>4. Tidy(d, E)
    BY <1>3, <1>4, <1>7, <1>9 DEF Tidy
  <2>5. Image(d) = Image(s)
    BY <1>7 DEF Image
  <2>6. Good(d)
    BY <1>5, <1>7, <2>3, <2>4, <2>5
  <2> QED BY <1>1, <1>6, <1>9, <2>6 DEF E
<1>10. CASE E = {}
  <2>1. ~(d.ca_inflt_cnt > 0)
    BY <1>6, <1>10
  <2>2. /\ last.flags = s.flags \ {"CA_INFLT"} /\ last.ca_lst = Written(s.ca_lst) /\ last.ca_pv = s.ca_pv
        /\ last.pvwrt = s.pvwrt /\ last.cached = s.cached /\ last.lb = s.lb /\ last.ca_hld = s.ca_hld
        /\ DOMAIN last = DOMAIN s
    <3> HIDE DEF d
    <3> QED BY <1>4, <1>7 DEF MemType
  <2>3. /\ again.flags = last.flags \cup {"CA_INFLT"} /\ again.ca_lst = last.ca_lst /\ again.ca_pv = last.ca_pv
        /\ again.pvwrt = last.pvwrt /\ again.cached = last.cached /\ again.lb = last.lb
    <3> HIDE DEF last
    <3> QED BY <1>4, <2>2 DEF MemType
  <2>4. \A i \in 1..ca_size : /\ last.ca_lst[i].tg = s.ca_lst[i].tg
                              /\ last.ca_lst[i].state =
                                   IF s.ca_lst[i].state = "CACHG" THEN "CANOCHG" ELSE s.ca_lst[i].state
    <3>1. \A i \in 1..ca_size :
            /\ Written(s.ca_lst)[i].tg = s.ca_lst[i].tg
            /\ Written(s.ca_lst)[i].state = IF s.ca_lst[i].state = "CACHG" THEN "CANOCHG" ELSE s.ca_lst[i].state
      BY <1>4, WrittenStates
    <3> HIDE DEF last, d
    <3> QED BY <2>2, <3>1
  <2>5. last \in MemType
    <3>1. Written(s.ca_lst) \in [1..ca_size -> Entry] /\ s.flags \in SUBSET Flag
      BY <1>4, CacheFields, WrittenSame
    <3>2. d.ca_inflt_cnt = 0
      <4>1. d.ca_inflt_cnt = Cardinality(D) - 1 /\ Cardinality(D) \in Nat /\ Cardinality(D) # 0
        <5>1. IsFiniteSet(D) /\ D # {}
          BY SizeAssumption, FS_Subset
        <5>2. d.ca_inflt_cnt = Cardinality(D) - 1
          BY <1>4 DEF MemType
        <5> QED BY <5>1, <5>2, FS_CardinalityType, FS_EmptySet
      <4> HIDE DEF d
      <4> QED BY <4>1, <2>1
    <3>3. [s EXCEPT !.ca_inflt_cnt = 0] \in MemType
      BY <1>4 DEF MemType
    <3>4. d = [s EXCEPT !.ca_inflt_cnt = 0]
      BY <3>2, <1>4 DEF MemType
    <3>5. d \in MemType
      BY <3>3, <3>4
    <3> HIDE DEF d
    <3>6. last = [d EXCEPT !.ca_lst = Written(s.ca_lst), !.flags = s.flags \ {"CA_INFLT"}]
      BY <1>7
    <3> HIDE DEF last
    <3> QED BY <3>1, <3>5, <3>6 DEF MemType
  <2> HIDE DEF d, last
  <2>6. Entries(last)
    BY <1>4, <2>4 DEF Entries
  <2>7. \A i \in 1..ca_size : last.ca_lst[i].state # "CACHG"
    BY <2>4
  <2>8. Image(last) = Image(s)
    BY <2>4 DEF Image
  <2>9. ASSUME NEW i \in 1..ca_size, last.ca_lst[i].state = "CANOCHG" PROVE last.ca_lst[i].tg \in K2
    <3>1. CASE s.ca_lst[i].state = "CANOCHG"
      BY <3>1, <2>4, <1>5 DEF Logged
    <3>2. CASE s.ca_lst[i].state = "CACHG"
      <4>1. Mirrors(s.ca_lst[i].tg) \ Lo2 \subseteq N2
        BY <3>2, <1>3, <1>4, <1>5, <1>10 DEF Logged
      <4>2. s.ca_lst[i].tg \in Image(c)
        <5>1. s.ca_lst[i].tg # NULL
          BY <3>2, <1>4 DEF Entries
        <5> QED BY <5>1, <1>4, <1>5, InImage
      <4> QED BY <4>1, <4>2, <2>4
    <3> QED BY <3>1, <3>2, <2>4, <2>9
  <2>10. \A q \in Req : WaitsFor(last, q) = WaitsFor(s, q)
    BY <2>2 DEF WaitsFor
  <2>11. s.cached \subseteq Req
    BY <1>4, CacheFields
  <2>12. "CA_VGACT" \notin last.flags /\ "CA_VGACT" \notin s.flags
    BY <1>3, <1>4, <2>2
  <2>13. Logged(last, K2, E, N2, Lo2)
    <3>1. \A q \in last.cached : WaitsFor(last, q) = {} => last.lb[q] \in K2
      BY <1>5, <2>2, <2>10, <2>11 DEF Logged
    <3>2. \A q \in last.cached : WaitsFor(last, q) # {} => Mirrors(last.lb[q]) \ Lo2 \subseteq WaitsFor(last, q) \cup N2
      BY <1>5, <2>2, <2>10, <2>11, <2>12 DEF Logged
    <3> QED BY <2>7, <2>9, <2>12, <3>1, <3>2 DEF Logged
  <2>14. Tidy(last, E)
    BY <2>7, <2>12 DEF Tidy
  <2>15. ASSUME NEW x, Eases(last, x, {}), Image(x) \subseteq Image(last) PROVE Good(x)
    <3>1. Tally(last)
      <4>1. \A i \in 1..ca_size : last.ca_lst[i].iocnt = s.ca_lst[i].iocnt
        <5>1. s.ca_lst \in [1..ca_size -> Entry]
          BY <1>4, CacheFields
        <5>2. \A i \in 1..ca_size : Written(s.ca_lst)[i].iocnt = s.ca_lst[i].iocnt
          BY <5>1, WrittenSame
        <5> QED BY <2>2, <5>2
      <4> QED BY <1>4, <2>2, <2>4, <2>5, <4>1, TallyFrame
    <3>2. Entries(x) /\ Tidy(x, E) /\ Logged(x, K2, E, N2, Lo2)
      BY <2>5, <2>6, <2>13, <2>14, <2>15, <3>1, EasedLogged
    <3> QED BY <1>5, <2>2, <2>8, <2>15, <3>2 DEF Eases
  <2>16. CASE Sleeping
    <3> HIDE DEF again
    <3>1. Eases(last, again, {}) /\ Image(again) = Image(last)
      <4>1. \A q \in last.cached : again.lb[q] = last.lb[q]
        BY <2>3
      <4>2. "CA_VGACT" \in again.flags <=> "CA_VGACT" \in last.flags
        BY <2>3
      <4>3. Eases(last, again, {})
        BY <2>3, <4>1, <4>2, PlainEases
      <4> QED BY <2>3, <4>3 DEF Image
    <3>2. Good(again)
      BY <2>15, <3>1
    <3>3. hd_ca_wend(c, p) = again
      BY <1>1, <2>1, <2>16
    <3> QED BY <3>2, <3>3 DEF E
  <2>17. CASE ~Sleeping
    <3>1. Range(last.ca_hld) \cap last.cached = {}
      BY <1>4, <2>2
    <3>2. Eases(last, hd_ca_mvhld(last), {})
      BY <2>5, <3>1, MvHeldEases
    <3>3. hd_ca_mvhld(last).ca_lst = last.ca_lst
      BY <2>5 DEF hd_ca_mvhld, MemType
    <3>4. Image(hd_ca_mvhld(last)) = Image(last)
      BY <3>3 DEF Image
    <3>5. Good(hd_ca_mvhld(last))
      BY <2>15, <3>2, <3>4
    <3>6. hd_ca_wend(c, p) = hd_ca_mvhld(last)
      BY <1>1, <2>1, <2>17
    <3> QED BY <3>5, <3>6 DEF E
  <2> QED BY <2>16, <2>17
<1> QED BY <1>9, <1>10

(* The record is written as it is asked for.                                *)
LEMMA WrtStates ==
  ASSUME NEW c \in MemType
  PROVE  LET d == Wrt(c)
         IN  /\ d.ca_lst = c.ca_lst /\ d.ca_pv = c.ca_pv /\ d.cached = c.cached /\ d.lb = c.lb
             /\ d.pvwrt = {} /\ d.flags = (c.flags \ {"CA_VGACT"}) \cup {"CA_INFLT"}
             /\ (Entries(c) => Entries(d)) /\ Image(d) = Image(c)
             /\ \A q \in Req : WaitsFor(d, q) = WaitsFor(c, q)
<1> DEFINE d == Wrt(c)
<1>1. /\ d.ca_lst = c.ca_lst /\ d.ca_pv = c.ca_pv /\ d.cached = c.cached /\ d.lb = c.lb
      /\ d.pvwrt = {} /\ d.flags = (c.flags \ {"CA_VGACT"}) \cup {"CA_INFLT"}
  BY DEF Wrt, MemType
<1> HIDE DEF d
<1>2. (Entries(c) => Entries(d)) /\ Image(d) = Image(c) /\ \A q \in Req : WaitsFor(d, q) = WaitsFor(c, q)
  BY <1>1 DEF Entries, Image, WaitsFor
<1> QED BY <1>1, <1>2 DEF d

LEMMA WrtLogged ==
  ASSUME NEW c \in MemType, Entries(c), NEW K, NEW N, NEW Lo,
         \A i \in 1..ca_size : c.ca_lst[i].state = "CANOCHG" => c.ca_lst[i].tg \in K,
         \A i \in 1..ca_size : c.ca_lst[i].state = "CACHG" =>
           c.pvwrt # {} /\ Mirrors(c.ca_lst[i].tg) \ Lo \subseteq c.pvwrt,
         \A r \in c.cached : WaitsFor(c, r) = {} => c.lb[r] \in K,
         \A r \in c.cached : WaitsFor(c, r) # {} => Mirrors(c.lb[r]) \ Lo \subseteq WaitsFor(c, r)
  PROVE  Entries(Wrt(c)) /\ Tidy(Wrt(c), c.pvwrt) /\ Logged(Wrt(c), K, c.pvwrt, N, Lo)
<1> DEFINE d == Wrt(c)
<1>1. /\ d.ca_lst = c.ca_lst /\ d.ca_pv = c.ca_pv /\ d.cached = c.cached /\ d.lb = c.lb
      /\ d.pvwrt = {} /\ "CA_VGACT" \notin d.flags /\ Entries(d)
      /\ \A q \in Req : WaitsFor(d, q) = WaitsFor(c, q)
  BY WrtStates
<1>2. c.cached \subseteq Req
  BY CacheFields
<1> HIDE DEF d
<1>3. Logged(d, K, c.pvwrt, N, Lo)
  <2>1. \A i \in 1..ca_size : d.ca_lst[i].state = "CACHG" => Mirrors(d.ca_lst[i].tg) \ Lo \subseteq c.pvwrt \cup N
    BY <1>1
  <2>2. \A r \in d.cached : WaitsFor(d, r) = {} => d.lb[r] \in K
    BY <1>1, <1>2
  <2>3. \A r \in d.cached : WaitsFor(d, r) # {} => Mirrors(d.lb[r]) \ Lo \subseteq WaitsFor(d, r) \cup N
    BY <1>1, <1>2
  <2>4. \A i \in 1..ca_size : d.ca_lst[i].state = "CANOCHG" => d.ca_lst[i].tg \in K
    BY <1>1
  <2> QED BY <1>1, <2>1, <2>2, <2>3, <2>4 DEF Logged
<1>4. Tidy(d, c.pvwrt)
  BY <1>1 DEF Tidy
<1> QED BY <1>1, <1>3, <1>4 DEF d

(* ... at the end of hd_schedule.                                           *)
LEMMA AskedLogged ==
  ASSUME NEW c \in MemType, Entries(c), NEW D, Tidy(c, D), "CA_VGACT" \in c.flags,
         NEW K, NEW N, NEW Lo, Logged(c, K, D, N, Lo), NEW N2
  PROVE  Entries(Wrt(c)) /\ Tidy(Wrt(c), c.pvwrt) /\ Logged(Wrt(c), K, c.pvwrt, N2, Lo)
<1>1. /\ \A i \in 1..ca_size : c.ca_lst[i].state = "CANOCHG" => c.ca_lst[i].tg \in K
      /\ \A i \in 1..ca_size : c.ca_lst[i].state = "CACHG" =>
           c.pvwrt # {} /\ Mirrors(c.ca_lst[i].tg) \ Lo \subseteq c.pvwrt
      /\ \A r \in c.cached : WaitsFor(c, r) = {} => c.lb[r] \in K
      /\ \A r \in c.cached : WaitsFor(c, r) # {} => Mirrors(c.lb[r]) \ Lo \subseteq WaitsFor(c, r)
  BY DEF Logged, Tidy
<1> QED BY <1>1, WrtLogged

(* ... and when the cache has been reserved for it: d is what is written.   *)
LEMMA ReservedLogged ==
  ASSUME NEW c, NEW B, Sound(c, B, {}), Entries(c), Tidy(c, {}), "CA_VGACT" \notin c.flags,
         NEW K, NEW N, NEW Lo, Logged(c, K, {}, N, Lo), NEW N2,
         NEW d \in MemType, Prepared(c, d), Eases(c, [d EXCEPT !.pvwrt = c.pvwrt], {})
  PROVE  Entries(Wrt(d)) /\ Tidy(Wrt(d), d.pvwrt) /\ Logged(Wrt(d), K, d.pvwrt, N2, Lo)
<1> DEFINE y == [d EXCEPT !.pvwrt = c.pvwrt]
<1>0. c \in MemType /\ Tally(c)
  BY DEF Sound
<1>1. y.ca_lst = d.ca_lst /\ y.ca_pv = d.ca_pv /\ y.cached = d.cached /\ y.lb = d.lb /\ y.flags = d.flags
  BY DEF MemType
<1> HIDE DEF y
<1>2. Entries(y) /\ Tidy(y, {}) /\ Logged(y, K, {}, N, Lo)
  <2>1. Eases(c, y, {})
    BY DEF y
  <2> QED BY <1>0, <2>1, EasedLogged
<1>3. Entries(d)
  BY <1>1, <1>2 DEF Entries
<1>4. \A i \in 1..ca_size : d.ca_lst[i].state # "CACHG"
  BY <1>1, <1>2 DEF Tidy, Prepared
<1>5. \A q \in Req : WaitsFor(d, q) = WaitsFor(c, q) /\ WaitsFor(y, q) = WaitsFor(c, q)
  BY <1>1 DEF Prepared, WaitsFor
<1>6. \A q \in Req : WaitsFor(c, q) = {}
  BY WaitsOnList
<1>7. d.cached \subseteq Req
  BY CacheFields
<1>8. \A i \in 1..ca_size : d.ca_lst[i].state = "CANOCHG" => d.ca_lst[i].tg \in K
  BY <1>1, <1>2 DEF Logged
<1>9. \A r \in d.cached : WaitsFor(d, r) = {} /\ d.lb[r] \in K
  BY <1>1, <1>2, <1>5, <1>6, <1>7 DEF Logged
<1> QED BY <1>3, <1>4, <1>8, <1>9, WrtLogged

(* The clean-up keeps some of the entries, in their order.                  *)
LEMMA CleanedEases ==
  ASSUME NEW c \in MemType, NEW y, y = [c EXCEPT !.ca_lst = CleanedList(c)]
  PROVE  Eases(c, y, {})
<1> DEFINE n == ca_size
<1>1. PICK m \in 0..n : \E f : /\ Kept(CleanedList(c), m, c.ca_lst, n, f)
                               /\ \A k \in 1..n : k > m => CleanedList(c)[k] = CleanEntry
  BY CleanedOK
<1>2. PICK f : /\ Kept(CleanedList(c), m, c.ca_lst, n, f)
               /\ \A k \in 1..n : k > m => CleanedList(c)[k] = CleanEntry
  BY <1>1
<1>3. /\ y.ca_lst = CleanedList(c) /\ y.flags = c.flags /\ y.pvwrt = c.pvwrt /\ y.ca_pv = c.ca_pv
      /\ y.cached = c.cached /\ y.lb = c.lb
  BY DEF MemType
<1>4. n \in Nat /\ m \in Nat /\ m <= n
  BY SizeAssumption
<1>5. ASSUME NEW k \in 1..n, k <= m PROVE k \in 1..m /\ f[k] \in 1..n /\ y.ca_lst[k] = c.ca_lst[f[k]]
  <2>1. k \in 1..m
    BY <1>4, <1>5
  <2> QED BY <2>1, <1>2, <1>3 DEF Kept
<1>6. ASSUME NEW k \in 1..n, k > m
      PROVE  y.ca_lst[k] = CleanEntry /\ y.ca_lst[k].tg = NULL /\ y.ca_lst[k].state = "CACLEAN"
  BY <1>2, <1>3, <1>6 DEF CleanEntry
<1>7. \A k \in 1..n : k <= m \/ k > m
  BY <1>4
<1>8. \A k \in 1..n : Same(y.ca_lst[k], CleanEntry) \/ \E j \in 1..n : Same(y.ca_lst[k], c.ca_lst[j])
  BY <1>5, <1>6, <1>7 DEF Same
<1>9. Entries(c) => Entries(y)
  <2>1. SUFFICES ASSUME Entries(c) PROVE Entries(y)
    OBVIOUS
  <2>2. ASSUME NEW k \in 1..n PROVE y.ca_lst[k].tg = NULL <=> y.ca_lst[k].state = "CACLEAN"
    BY <2>1, <1>5, <1>6, <1>7 DEF Entries
  <2>3. ASSUME NEW j \in 1..n, NEW k \in 1..n, j < k, y.ca_lst[j].tg = NULL PROVE y.ca_lst[k].tg = NULL
    <3>1. CASE k > m
      BY <3>1, <1>6
    <3>2. CASE k <= m
      <4>1. j <= m
        BY <2>3, <3>2, <1>4
      <4>2. f[j] < f[k]
        BY <2>3, <3>2, <4>1, <1>2, <1>5 DEF Kept
      <4> QED BY <2>1, <2>3, <3>2, <4>1, <4>2, <1>5 DEF Entries
    <3> QED BY <3>1, <3>2, <1>7
  <2> QED BY <2>2, <2>3 DEF Entries
<1>10. \A q \in Req : WaitsFor(y, q) = WaitsFor(c, q)
  BY <1>3 DEF WaitsFor
<1> HIDE DEF n
<1>11. \A r \in y.cached : r \in c.cached /\ y.lb[r] = c.lb[r]
  BY <1>3
<1> QED BY <1>3, <1>8, <1>9, <1>10, <1>11 DEF Eases, n

LEMMA CleanLogged ==
  ASSUME NEW c, NEW B \in SUBSET Req, Sound(c, B, {}), Entries(c), Tidy(c, {}), "CA_VGACT" \notin c.flags,
         NEW K, NEW N, NEW Lo, Logged(c, K, {}, N, Lo), NEW N2, NEW P \in SUBSET Pv
  PROVE  LET d == [c EXCEPT !.ca_lst = CleanedList(c), !.pvwrt = P]
             e == hd_ca_mvhld([d EXCEPT !.flags = @ \ {"CA_INFLT"}])
         IN  /\ Entries(Wrt(d)) /\ Tidy(Wrt(d), P) /\ Logged(Wrt(d), K, P, N2, Lo)
             /\ Wrt(d).cached = c.cached /\ Wrt(d).lb = c.lb /\ Image(Wrt(d)) \subseteq Image(c)
             /\ P = {} => /\ Entries(e) /\ Tidy(e, {}) /\ Logged(e, K, {}, N, Lo)
                          /\ \A q \in e.cached : q \in c.cached /\ e.lb[q] = c.lb[q]
                          /\ Image(e) \subseteq Image(c)
<1> DEFINE d == [c EXCEPT !.ca_lst = CleanedList(c), !.pvwrt = P]
           y == [c EXCEPT !.ca_lst = CleanedList(c)]
           x == [d EXCEPT !.flags = @ \ {"CA_INFLT"}]
           e == hd_ca_mvhld(x)
<1>0. c \in MemType /\ Tally(c) /\ c.pvwrt = {} /\ Range(c.ca_hld) \cap c.cached = {}
  BY DEF Sound, Flow, Places
<1>1. CleanedList(c) \in [1..ca_size -> Entry]
  BY <1>0, CleanedOK
<1>2. d \in MemType /\ y \in MemType
  BY <1>0, <1>1 DEF MemType
<1>3. /\ d.flags = c.flags /\ d.ca_pv = c.ca_pv /\ d.ca_freepvw = c.ca_freepvw /\ d.av_forw = c.av_forw
      /\ d.ca_inflt_cnt = c.ca_inflt_cnt /\ d.cached = c.cached /\ d.ca_hld = c.ca_hld
      /\ d.pending_Q = c.pending_Q /\ d.lb = c.lb /\ d.pvwrt = P
  BY <1>0 DEF MemType
<1>4. [d EXCEPT !.pvwrt = c.pvwrt] = y
  BY <1>0 DEF MemType
<1>5. Eases(c, y, {})
  BY <1>0, CleanedEases
<1>6. Entries(Wrt(d)) /\ Tidy(Wrt(d), d.pvwrt) /\ Logged(Wrt(d), K, d.pvwrt, N2, Lo)
  <2>1. Prepared(c, d)
    BY <1>3 DEF Prepared
  <2> HIDE DEF d, y
  <2> QED BY <1>2, <1>4, <1>5, <2>1, ReservedLogged
<1>7. Wrt(d).cached = c.cached /\ Wrt(d).lb = c.lb /\ Image(Wrt(d)) \subseteq Image(c)
  <2>1. Image(d) = Image(y)
    <3>1. d.ca_lst = y.ca_lst
      BY <1>0 DEF MemType
    <3> HIDE DEF d, y
    <3> QED BY <3>1 DEF Image
  <2>2. Image(y) \subseteq Image(c)
    <3> HIDE DEF y
    <3> QED BY <1>0, <1>2, <1>5, EasesImage
  <2> HIDE DEF d, y
  <2> QED BY <1>2, <1>3, <2>1, <2>2, WrtStates
<1>8. ASSUME P = {}
      PROVE  /\ Entries(e) /\ Tidy(e, {}) /\ Logged(e, K, {}, N, Lo)
             /\ \A q \in e.cached : q \in c.cached /\ e.lb[q] = c.lb[q]
             /\ Image(e) \subseteq Image(c)
  <2>1. /\ x.flags = y.flags \ {"CA_INFLT"} /\ x.ca_lst = y.ca_lst /\ x.ca_pv = y.ca_pv /\ x.pvwrt = y.pvwrt
        /\ x.cached = y.cached /\ x.lb = y.lb /\ x.ca_hld = c.ca_hld /\ x.cached = c.cached
    BY <1>0, <1>8 DEF MemType
  <2>2. x \in MemType
    <3>1. c.flags \ {"CA_INFLT"} \in SUBSET Flag
      BY <1>0, CacheFields
    <3>2. x = [d EXCEPT !.flags = c.flags \ {"CA_INFLT"}]
      BY <1>3
    <3> HIDE DEF d, x
    <3> QED BY <1>2, <3>1, <3>2 DEF MemType
  <2> HIDE DEF x, y
  <2>3. Eases(y, x, {})
    <3>1. \A q \in y.cached : x.lb[q] = y.lb[q]
      BY <2>1
    <3> QED BY <2>1, <3>1, PlainEases
  <2>4. Eases(x, e, {})
    BY <2>1, <2>2, <1>0, MvHeldEases
  <2> HIDE DEF e
  <2>5. Eases(c, e, {})
    BY <1>5, <2>3, <2>4, EasesTrans
  <2>6. Entries(e) /\ Tidy(e, {}) /\ Logged(e, K, {}, N, Lo)
    BY <1>0, <2>5, EasedLogged
  <2>7. Image(e) \subseteq Image(c)
    <3>1. e.ca_lst = x.ca_lst
      BY <2>2 DEF e, hd_ca_mvhld, MemType
    <3>2. Image(e) = Image(y)
      BY <2>1, <3>1 DEF Image
    <3>3. Image(y) \subseteq Image(c)
      BY <1>0, <1>2, <1>5, EasesImage
    <3> QED BY <3>2, <3>3
  <2> QED BY <2>5, <2>6, <2>7 DEF Eases
<1> HIDE DEF e
<1> QED BY <1>3, <1>6, <1>7, <1>8 DEF e

(* The disks that need not have a record: those recorded as missing, and     *)
(* once a quorum has been lost all that are missing.                        *)
Lost == IF count.off = 0 THEN sa_miss ELSE missing

(* The track groups that the records on the disks name, or that have no      *)
(* disk to name them.                                                       *)
Knows(dk, Lo) == {t \in Tg : Mirrors(t) \subseteq Lo \/ Named(dk, t, Mirrors(t) \ Lo)}

(* The cache, and what is on the disks; W are the requests in write.        *)
Form(c, D, dk, tm) ==
  /\ Entries(c) /\ Tidy(c, D)
  /\ D # {} => \A p \in NowOn(dk, tm) : Image(c) \subseteq dk[p].ltgs
Book(c, W, D, dk, tm, Lo) ==
  /\ Logged(c, Knows(dk, Lo), D, NowOn(dk, tm), Lo)
  /\ \A r \in c.cached \cap W : Named(dk, c.lb[r], Mirrors(c.lb[r]) \ Lo)

Clocks ==
  /\ clock = <<clock[1], 0>> /\ Timed(disk, mwc_tm, clock[1])
  /\ Busy # {} => mwc_tm # NoTime
Losses ==
  /\ mode # "down" => sa_miss \subseteq missing
  /\ \A p \in Pv : pv_pbuf[p] = "wheel" => p \in missing
  /\ count.off = 0 => \A p \in missing \ sa_miss : pv_pbuf[p] = "wheel"
LogInv ==
  /\ Clocks /\ Losses
  /\ Form(g, Busy, disk, mwc_tm)
  /\ mode = "down" => Image(g) = {}
  /\ \A r \in InWrite : writing[r].live \subseteq Mirrors(g.lb[r])
  /\ count.return = 0 => Book(g, InWrite, Busy, disk, mwc_tm, Lost)

LEMMA NamedFewer ==
  ASSUME NEW dk, NEW t, NEW S, Named(dk, t, S), NEW S2 \in SUBSET S
  PROVE  Named(dk, t, S2)
BY DEF Named

LEMMA KnowsMore ==
  ASSUME NEW dk, NEW Lo, NEW Lo2, Lo \subseteq Lo2
  PROVE  Knows(dk, Lo) \subseteq Knows(dk, Lo2)
<1>1. ASSUME NEW t \in Tg, Named(dk, t, Mirrors(t) \ Lo) PROVE Named(dk, t, Mirrors(t) \ Lo2)
  <2>1. Mirrors(t) \ Lo2 \in SUBSET (Mirrors(t) \ Lo)
    OBVIOUS
  <2> HIDE DEF Mirrors
  <2> QED BY <1>1, <2>1, NamedFewer
<1> QED BY <1>1 DEF Knows

LEMMA FormEases ==
  ASSUME NEW c \in MemType, NEW d \in MemType, NEW D, NEW dk, NEW tm, Form(c, D, dk, tm), Eases(c, d, {})
  PROVE  Form(d, D, dk, tm)
<1>1. Entries(d)
  BY DEF Form, Eases
<1>2. Tidy(d, D)
  BY EasesTidy DEF Form
<1>3. Image(d) \subseteq Image(c)
  BY EasesImage
<1> QED BY <1>1, <1>2, <1>3 DEF Form

LEMMA BookEases ==
  ASSUME NEW c \in MemType, Tally(c), Entries(c), NEW W, NEW D, NEW dk, NEW tm, NEW Lo,
         Book(c, W, D, dk, tm, Lo), NEW d, Eases(c, d, {}), NEW W2 \in SUBSET W, NEW Lo2, Lo \subseteq Lo2
  PROVE  Book(d, W2, D, dk, tm, Lo2)
<1> DEFINE K == Knows(dk, Lo)
           K2 == Knows(dk, Lo2)
           N == NowOn(dk, tm)
           X == {}
<1>1. K \subseteq K2
  BY KnowsMore
<1>2. Logged(c, K, D, N, Lo)
  BY DEF Book
<1>3. Eases(c, d, X) /\ X = {}
  OBVIOUS
<1> HIDE DEF K, K2, N, X
<1>4. Logged(d, K2, D, N, Lo2)
  BY <1>1, <1>2, <1>3, EasesLogged
<1>5. ASSUME NEW r \in d.cached \cap W2 PROVE Named(dk, d.lb[r], Mirrors(d.lb[r]) \ Lo2)
  <2>1. r \in c.cached /\ r \in W /\ d.lb[r] = c.lb[r]
    BY DEF Eases
  <2>2. Named(dk, c.lb[r], Mirrors(c.lb[r]) \ Lo)
    BY <2>1 DEF Book
  <2>3. Mirrors(c.lb[r]) \ Lo2 \in SUBSET (Mirrors(c.lb[r]) \ Lo)
    OBVIOUS
  <2> HIDE DEF Mirrors
  <2> QED BY <2>1, <2>2, <2>3, NamedFewer
<1> QED BY <1>4, <1>5 DEF Book, K2, N

(* The cache names nothing.                                                 *)
LEMMA NothingCached ==
  ASSUME NEW c \in MemType, Tally(c), Entries(c), Image(c) = {}, NEW W, NEW D, NEW dk, NEW tm, NEW Lo
  PROVE  Book(c, W, D, dk, tm, Lo)
<1>1. c.cached = {}
  BY DEF Tally
<1>2. \A i \in 1..ca_size : c.ca_lst[i].tg = NULL /\ c.ca_lst[i].state = "CACLEAN"
  BY DEF Image, Entries
<1> QED BY <1>1, <1>2 DEF Book, Logged

(* What is known of a state in which the volume group is on.                *)
LEMMA LogFacts ==
  ASSUME IInv, Ledger, LogInv
  PROVE  /\ Sound(g, InWrite, Busy) /\ Moves(g) /\ g \in MemType /\ Tally(g) /\ Entries(g)
         /\ InWrite \in SUBSET Req /\ Busy \in SUBSET Pv
         /\ pv_pbuf \in [Pv -> {"idle", "writing", "wheel"}]
         /\ mode # "down" => sa_miss \subseteq missing /\ Lost \subseteq missing
         /\ InWrite # {} => mode = "up"
         /\ Busy # {} => mode # "down"
         /\ count.return \in Nat /\ count.off \in {0, 1}
<1>1. CacheInv /\ Control /\ Wheel
  BY DEF IInv
<1>2. Sound(g, InWrite, Busy) /\ Moves(g) /\ g \in MemType /\ Tally(g)
  BY <1>1 DEF CacheInv, Sound
<1>3. InWrite # {} => mode = "up"
  BY <1>1 DEF Control, InWrite
<1>4. Busy # {} => mode # "down"
  BY <1>1, <1>2 DEF Control, Sound, Flow
<1>5. mode # "down" => sa_miss \subseteq missing /\ Lost \subseteq missing
  BY DEF LogInv, Losses, Lost
<1> QED BY <1>1, <1>2, <1>3, <1>4, <1>5, InWriteIn DEF LogInv, Form, Control, Ledger

(* A step that leaves the records alone, and eases the cache.               *)
LEMMA LogFrame ==
  ASSUME IInv, Ledger, LogInv, IInv', UNCHANGED <<disk, mwc_tm, clock>>, Busy' = Busy,
         Eases(g, g', {}), InWrite' \subseteq InWrite,
         \A r \in InWrite' : writing'[r] = writing[r] /\ g'.lb[r] = g.lb[r],
         Losses', mode' = "down" => mode = "down",
         count'.return = 0 => count.return = 0 /\ Lost \subseteq Lost'
  PROVE  LogInv'
<1>1. g \in MemType /\ g' \in MemType /\ Tally(g) /\ Entries(g) /\ Form(g, Busy, disk, mwc_tm)
  BY LogFacts DEF IInv, CacheInv, Sound, LogInv
<1>2. Form(g', Busy, disk, mwc_tm) /\ Image(g') \subseteq Image(g)
  BY <1>1, FormEases, EasesImage
<1>3. ASSUME count'.return = 0 PROVE Book(g', InWrite', Busy, disk, mwc_tm, Lost')
  <2>1. Book(g, InWrite, Busy, disk, mwc_tm, Lost) /\ Lost \subseteq Lost' /\ InWrite' \in SUBSET InWrite
    BY <1>3 DEF LogInv
  <2> QED BY <1>1, <2>1, BookEases
<1>4. Clocks'
  BY DEF LogInv, Clocks
<1>5. \A r \in InWrite' : writing'[r].live \subseteq Mirrors(g'.lb[r])
  BY DEF LogInv
<1>6. mode' = "down" => Image(g') = {}
  BY <1>2 DEF LogInv
<1>7. Form(g, Busy, disk, mwc_tm)' /\ (count.return = 0 => Book(g, InWrite, Busy, disk, mwc_tm, Lost))'
  BY <1>2, <1>3
<1>8. (\A r \in InWrite : writing[r].live \subseteq Mirrors(g.lb[r]))' /\ (mode = "down" => Image(g) = {})'
  BY <1>5, <1>6
<1> QED BY <1>4, <1>7, <1>8 DEF LogInv

LEMMA LossesFrame ==
  ASSUME Losses, UNCHANGED <<pv_pbuf, missing, sa_miss, mode>>, count'.off = count.off
  PROVE  Losses' /\ Lost' = Lost
BY DEF Losses, Lost

LEMMA StrategyLog ==
  ASSUME IInv, Ledger, LogInv, IInv', NEW r \in Req, NEW t \in Tg, hd_strategy(r, t)
  PROVE  LogInv'
<1>1. Sound(g, InWrite, Busy) /\ InWrite \in SUBSET Req /\ g.lb[r] = NULL /\ g.lb \in [Req -> Tg \cup {NULL}]
  BY LogFacts, CacheFields DEF hd_strategy
<1>2. /\ g' = [g EXCEPT !.lb[r] = t, !.pending_Q = Append(@, r)]
      /\ UNCHANGED <<disk, mwc_tm, clock, pv_pbuf, writing, missing, sa_miss, mode>>
      /\ count'.off = count.off /\ count'.return = count.return
  BY DEF hd_strategy, disks
<1>3. \A q \in g.cached \cup InWrite : q # r
  BY <1>1 DEF Sound, Places
<1>4. g \in MemType
  BY <1>1 DEF Sound
<1>5. /\ g'.flags = g.flags /\ g'.pvwrt = g.pvwrt /\ g'.ca_pv = g.ca_pv /\ g'.ca_lst = g.ca_lst
      /\ g'.cached = g.cached /\ \A q \in Req : q # r => g'.lb[q] = g.lb[q]
  BY <1>1, <1>2, <1>4 DEF MemType
<1>6. g.cached \in SUBSET Req
  BY <1>4, CacheFields
<1>7. Eases(g, g', {})
  BY <1>3, <1>5, <1>6, PlainEases
<1>8. Busy' = Busy /\ InWrite' = InWrite
  BY <1>2 DEF Busy, InWrite
<1>9. Losses' /\ Lost' = Lost
  BY <1>2, LossesFrame DEF LogInv
<1> QED BY <1>1, <1>2, <1>3, <1>5, <1>7, <1>8, <1>9, LogFrame

(* Nothing that the records depend on changes, but for the disks.           *)
LEMMA QuietLog ==
  ASSUME IInv, Ledger, LogInv, IInv', UNCHANGED <<g, writing, disk, mwc_tm, clock>>, Busy' = Busy,
         Losses', mode' = "down" => mode = "down",
         count'.return = 0 => count.return = 0 /\ Lost \subseteq Lost'
  PROVE  LogInv'
<1>1. Eases(g, g', {})
  BY PlainEases
<1>2. InWrite' = InWrite
  BY DEF InWrite
<1> QED BY <1>1, <1>2, LogFrame

LEMMA ResyncLog ==
  ASSUME IInv, Ledger, LogInv, IInv', NEW l \in Lp, Resync(l)
  PROVE  LogInv'
<1>1. UNCHANGED <<g, writing, disk, mwc_tm, clock, pv_pbuf, missing, sa_miss, mode, count>>
  BY DEF Resync
<1>2. Busy' = Busy /\ Losses' /\ Lost' = Lost
  BY <1>1, LossesFrame DEF Busy, LogInv
<1> QED BY <1>1, <1>2, QuietLog

LEMMA KaddpvLog ==
  ASSUME IInv, Ledger, LogInv, IInv', NEW p \in Pv, hd_kaddpv(p)
  PROVE  LogInv'
<1>1. /\ UNCHANGED <<g, writing, disk, mwc_tm, clock, pv_pbuf, mode>> /\ pv_pbuf[p] = "idle"
      /\ missing' = missing \ {p} /\ sa_miss' = sa_miss \ {p}
  BY DEF hd_kaddpv
<1>2. count'.off = count.off /\ count'.return # 0
  <2>1. count' = [count EXCEPT !.return = @ + 1]
    BY DEF hd_kaddpv
  <2>2. count'.off = count.off /\ count'.return = count.return + 1 /\ count.return \in Nat
    BY <2>1 DEF Ledger
  <2> QED BY <2>2
<1>3. Busy' = Busy
  BY <1>1 DEF Busy
<1>4. Losses'
  BY <1>1, <1>2 DEF LogInv, Losses
<1> QED BY <1>1, <1>2, <1>3, <1>4, QuietLog

LEMMA RecoveryLog ==
  ASSUME IInv, Ledger, LogInv, IInv',
         UNCHANGED <<g, writing, disk, mwc_tm, clock, pv_pbuf, missing, sa_miss, mode, count>>
  PROVE  LogInv'
<1>1. Busy' = Busy /\ Losses' /\ Lost' = Lost
  BY LossesFrame DEF Busy, LogInv
<1> QED BY <1>1, QuietLog

(* The record is given a time and is to be written to the disks of d.pvwrt. *)
LEMMA WrtLog ==
  ASSUME IInv, Ledger, LogInv, NEW d, hd_ca_wrt(d), IInv', Busy = {}, d.pvwrt \in SUBSET Pv,
         Entries(Wrt(d)), Tidy(Wrt(d), d.pvwrt), Image(Wrt(d)) \subseteq Image(g),
         Wrt(d).cached = g.cached, \A r \in InWrite : Wrt(d).lb[r] = g.lb[r],
         count.return = 0 =>
           \A N2 : Logged(Wrt(d), Knows(disk, Lost), d.pvwrt, N2, Lost),
         UNCHANGED <<disk, clock, writing, missing, sa_miss, mode>>,
         count'.return = count.return /\ count'.off = count.off
  PROVE  LogInv'
<1>1. /\ g' = Wrt(d) /\ mwc_tm' = hd_gettime(mwc_tm, clock)
      /\ pv_pbuf' = [p \in Pv |-> IF p \in d.pvwrt THEN "writing" ELSE pv_pbuf[p]]
  BY DEF hd_ca_wrt, Wrt
<1>2. \A p \in Pv : pv_pbuf[p] = "idle"
  BY DEF Busy
<1>3. Busy' = d.pvwrt /\ InWrite' = InWrite /\ \A p \in Pv : pv_pbuf'[p] # "wheel"
  BY <1>1, <1>2 DEF Busy, InWrite
<1>4. clock = <<clock[1], 0>> /\ Timed(disk, mwc_tm, clock[1])
  BY DEF LogInv, Clocks
<1>5. Timed(disk, mwc_tm', clock[1]) /\ mwc_tm' # NoTime /\ NowOn(disk, mwc_tm') = {}
  BY <1>1, <1>4, TimeGiven
<1>6. Clocks'
  BY <1>4, <1>5 DEF Clocks
<1>7. Losses' /\ Lost' = Lost
  <2>1. missing \subseteq Pv /\ Losses
    BY DEF IInv, Wheel, LogInv
  <2> QED BY <1>2, <1>3, <2>1 DEF Losses, Lost
<1>8. Form(g', Busy', disk, mwc_tm')
  BY <1>1, <1>3, <1>5 DEF Form
<1>9. mode' = "down" => Image(g') = {}
  BY <1>1 DEF LogInv
<1>10. \A r \in InWrite' : writing'[r].live \subseteq Mirrors(g'.lb[r])
  BY <1>1, <1>3 DEF LogInv
<1>11. ASSUME count.return = 0 PROVE Book(g', InWrite', Busy', disk, mwc_tm', Lost)
  <2>1. Logged(g', Knows(disk, Lost), Busy', NowOn(disk, mwc_tm'), Lost)
    BY <1>1, <1>3, <1>11
  <2>2. \A r \in g.cached \cap InWrite : Named(disk, g.lb[r], Mirrors(g.lb[r]) \ Lost)
    BY <1>11 DEF LogInv, Book
  <2> QED BY <1>1, <1>3, <2>1, <2>2 DEF Book
<1>12. Form(g, Busy, disk, mwc_tm)' /\ (count.return = 0 => Book(g, InWrite, Busy, disk, mwc_tm, Lost))'
  BY <1>7, <1>8, <1>11
<1>13. (\A r \in InWrite : writing[r].live \subseteq Mirrors(g.lb[r]))' /\ (mode = "down" => Image(g) = {})'
  BY <1>9, <1>10
<1> QED BY <1>6, <1>7, <1>12, <1>13 DEF LogInv

LEMMA ScheduleLog ==
  ASSUME IInv, Ledger, LogInv, IInv', hd_schedule
  PROVE  LogInv'
<1>1. UNCHANGED <<disk, clock, writing, missing, sa_miss, mode, count>>
  BY DEF hd_schedule, disks
<1>2. /\ Sound(g, InWrite, Busy) /\ g \in MemType /\ Entries(g) /\ Tidy(g, Busy) /\ g.pvwrt \in SUBSET Pv
      /\ InWrite \in SUBSET Req
  BY LogFacts, CacheFields DEF LogInv, Form
<1>3. CASE "CA_VGACT" \notin g.flags
  <2>1. UNCHANGED <<g, mwc_tm, pv_pbuf>>
    BY <1>3 DEF hd_schedule
  <2> QED BY <1>1, <2>1, RecoveryLog
<1>4. CASE "CA_VGACT" \in g.flags
  <2>1. hd_ca_wrt(g) /\ Busy = {}
    BY <1>2, <1>4 DEF hd_schedule, Sound, Flow
  <2>2. /\ Wrt(g).cached = g.cached /\ Wrt(g).lb = g.lb /\ Image(Wrt(g)) = Image(g)
        /\ Entries(Wrt(g))
    BY <1>2, WrtStates
  <2>3. Tidy(Wrt(g), g.pvwrt)
    BY <1>2, <1>4 DEF Tidy, Wrt, MemType
  <2>4. ASSUME count.return = 0, NEW N2 PROVE Logged(Wrt(g), Knows(disk, Lost), g.pvwrt, N2, Lost)
    <3>1. Logged(g, Knows(disk, Lost), Busy, NowOn(disk, mwc_tm), Lost)
      BY <2>4 DEF LogInv, Book
    <3> QED BY <1>2, <1>4, <3>1, AskedLogged
  <2> QED BY <1>1, <1>2, <2>1, <2>2, <2>3, <2>4, WrtLog
<1> QED BY <1>3, <1>4

(* A request that ends, perhaps with the volume group forced off.           *)
LEMMA FinishedLog ==
  ASSUME IInv, Ledger, LogInv, IInv', NEW r \in InWrite, NEW M, NEW c, c = g \/ c = Checked(g, M),
         g' = Returned(c, r), writing' = [writing EXCEPT ![r] = NULL],
         UNCHANGED <<disk, mwc_tm, clock, pv_pbuf, mode>>, Losses', Lost \subseteq Lost',
         count'.return = count.return
  PROVE  LogInv'
<1>1. CacheInv /\ Wheel /\ InWrite \in SUBSET Req /\ Busy' = Busy
  BY InWriteIn DEF IInv, Busy
<1>2. /\ Sound(c, InWrite, Busy) /\ Moves(c) /\ (\A q \in Req : c.lb[q] = g.lb[q])
      /\ Eases(g, c, {})
  <2>1. CASE c = g
    <3>1. Eases(g, g, {})
      BY PlainEases
    <3> QED BY <1>1, <2>1, <3>1 DEF CacheInv
  <2>2. CASE c = Checked(g, M)
    <3>1. /\ Sound(c, InWrite, Busy) /\ Moves(c)
          /\ Follows(g, c, IF Quorate(M) THEN g.flags ELSE g.flags \cup {"VG_FORCEDOFF"}, Req)
      BY <1>1, <2>2, CheckedOK
    <3>2. "CA_VGACT" \in c.flags <=> "CA_VGACT" \in g.flags
      BY <3>1 DEF Follows
    <3>3. /\ c.pvwrt = g.pvwrt /\ c.ca_pv = g.ca_pv /\ c.ca_lst = g.ca_lst /\ c.cached = g.cached
          /\ c.lb = g.lb
      <4>1. g \in MemType
        BY LogFacts
      <4> QED BY <2>2, <4>1 DEF Checked, MemType
    <3>4. Eases(g, c, {})
      BY <3>2, <3>3, PlainEases
    <3> QED BY <3>1, <3>3, <3>4
  <2> QED BY <2>1, <2>2
<1>3. r \in Req /\ r \notin Queued(c)
  BY <1>1, <1>2 DEF Sound, Places
<1>4. Eases(c, g', {})
  BY <1>1, <1>2, <1>3, ReturnedEases
<1>5. Eases(g, g', {})
  BY <1>2, <1>4, EasesTrans
<1>6. Follows(c, g', c.flags, InWrite \ {r}) /\ InWrite' = InWrite \ {r}
  BY <1>1, <1>2, FinishedCache
<1>7. \A q \in InWrite' : writing'[q] = writing[q] /\ g'.lb[q] = g.lb[q]
  BY <1>1, <1>2, <1>6 DEF Follows, Wheel
<1> QED BY <1>1, <1>5, <1>6, <1>7, LogFrame

LEMMA ParwriteLog ==
  ASSUME IInv, Ledger, LogInv, IInv', NEW r \in Req, NEW E \in SUBSET Pv, hd_parwrite(r, E)
  PROVE  LogInv'
<1>1. /\ UNCHANGED <<disk, mwc_tm, clock, pv_pbuf, mode, missing, sa_miss, count>>
      /\ r \in InWrite
      /\ \/ UNCHANGED <<g, writing>>
         \/ g' = Returned(g, r) /\ writing' = [writing EXCEPT ![r] = NULL]
  BY DEF hd_parwrite, hd_finished, InWrite
<1>2. Losses' /\ Lost' = Lost
  BY <1>1, LossesFrame DEF LogInv
<1>3. CASE UNCHANGED <<g, writing>>
  BY <1>1, <1>3, RecoveryLog
<1>4. CASE g' = Returned(g, r) /\ writing' = [writing EXCEPT ![r] = NULL]
  BY <1>1, <1>2, <1>4, FinishedLog
<1> QED BY <1>1, <1>3, <1>4

LEMMA StaleppeLog ==
  ASSUME IInv, Ledger, LogInv, IInv', NEW r \in Req, NEW M \in SUBSET MayFail, hd_staleppe(r, M)
  PROVE  LogInv'
<1> DEFINE gone == missing \cup M
<1>1. /\ onwheel[r] # NULL /\ missing' = gone
      /\ sa_miss' = IF Quorate(gone) THEN sa_miss \cup M ELSE sa_miss
      /\ g' = Returned(Checked(g, gone), r) /\ writing' = [writing EXCEPT ![r] = NULL]
      /\ UNCHANGED <<disk, mwc_tm, clock, pv_pbuf, mode>>
  BY DEF hd_staleppe, hd_finished
<1>2. count'.return = count.return /\ count'.off = IF Quorate(gone) THEN count.off ELSE 1
  <2>1. count' = CountOff(gone)
    BY DEF hd_staleppe
  <2> QED BY <2>1 DEF CountOff, Ledger
<1>3. r \in InWrite /\ mode # "down"
  <2>1. r \in InWrite
    BY <1>1, WheelWrites DEF IInv
  <2> QED BY <2>1, LogFacts
<1>4. Losses' /\ Lost \subseteq Lost'
  <2>1. Losses
    BY DEF LogInv
  <2> HIDE DEF gone
  <2>2. missing \cup M = gone
    BY DEF gone
  <2>3. Losses'
    BY <1>1, <1>2, <1>3, <2>1, <2>2 DEF Losses
  <2>4. Lost \subseteq Lost'
    BY <1>1, <1>2, <1>3, <2>1, <2>2 DEF Losses, Lost
  <2> QED BY <2>3, <2>4
<1> HIDE DEF gone
<1> QED BY <1>1, <1>2, <1>3, <1>4, FinishedLog

(* Where every disk is lost the cache says nothing.                         *)
LEMMA LoggedAny ==
  ASSUME NEW c \in MemType, Entries(c), Tally(c), NEW D, NEW N
  PROVE  Logged(c, Tg, D, N, Pv)
<1>1. \A i \in 1..ca_size : c.ca_lst[i].tg \in Tg \cup {NULL}
  BY CacheFields DEF Entry
<1>2. \A i \in 1..ca_size : c.ca_lst[i].state # "CACLEAN" => c.ca_lst[i].tg \in Tg
  BY <1>1 DEF Entries
<1>3. \A t \in Tg : \A X : Mirrors(t) \ Pv \subseteq X
  BY MirrorsOK
<1>4. \A r \in c.cached : c.lb[r] \in Tg
  BY <1>1 DEF Tally, Image
<1> QED BY <1>2, <1>3, <1>4 DEF Logged

(* The end of a cache write to disk p, which has the record now or is lost.  *)
LEMMA WendLog ==
  ASSUME IInv, Ledger, LogInv, IInv', NEW p \in Pv, pv_pbuf[p] # "idle", NEW M, NEW c,
         c = g \/ c = Checked(g, M), g' = hd_ca_wend(c, p),
         pv_pbuf' = [pv_pbuf EXCEPT ![p] = "idle"],
         \/ UNCHANGED disk /\ p \in Lost'
         \/ disk' = [disk EXCEPT ![p] = [tm |-> mwc_tm, ltgs |-> Image(g)]],
         UNCHANGED <<mwc_tm, clock, writing, mode>>, Losses', Lost \subseteq Lost',
         count'.return = count.return
  PROVE  LogInv'
<1> DEFINE N == NowOn(disk, mwc_tm)
           K == Knows(disk, Lost)
           N2 == NowOn(disk', mwc_tm)
           K2 == Knows(disk', Lost')
<1>1. CacheInv /\ Wheel /\ InWrite \in SUBSET Req /\ Busy \in SUBSET Pv /\ p \in Busy
      /\ g \in MemType /\ Tally(g) /\ Form(g, Busy, disk, mwc_tm) /\ Entries(g)
      /\ pv_pbuf \in [Pv -> {"idle", "writing", "wheel"}]
  BY InWriteIn, LogFacts DEF IInv, Busy, LogInv, Form
<1>2. /\ Sound(c, InWrite, Busy) /\ c.lb = g.lb /\ c.ca_lst = g.ca_lst /\ c.cached = g.cached
      /\ Eases(g, c, {})
  <2>1. CASE c = g
    <3>1. Eases(g, g, {})
      BY PlainEases
    <3> QED BY <1>1, <2>1, <3>1 DEF CacheInv
  <2>2. CASE c = Checked(g, M)
    <3>1. /\ Sound(c, InWrite, Busy)
          /\ Follows(g, c, IF Quorate(M) THEN g.flags ELSE g.flags \cup {"VG_FORCEDOFF"}, Req)
      BY <1>1, <2>2, CheckedOK
    <3>2. "CA_VGACT" \in c.flags <=> "CA_VGACT" \in g.flags
      BY <3>1 DEF Follows
    <3>3. /\ c.pvwrt = g.pvwrt /\ c.ca_pv = g.ca_pv /\ c.ca_lst = g.ca_lst /\ c.cached = g.cached
          /\ c.lb = g.lb
      BY <2>2, <1>1 DEF Checked, MemType
    <3>4. Eases(g, c, {})
      BY <3>2, <3>3, PlainEases
    <3> QED BY <3>1, <3>3, <3>4
  <2> QED BY <2>1, <2>2
<1>3. CacheInv' /\ Busy' = Busy \ {p} /\ InWrite' = InWrite /\ \A r \in InWrite : g'.lb[r] = c.lb[r]
  <2>1. InWrite' = InWrite
    BY DEF InWrite
  <2> QED BY <2>1, <1>1, <1>2, WendCache DEF Follows
<1>4. clock = <<clock[1], 0>> /\ Timed(disk, mwc_tm, clock[1]) /\ mwc_tm # NoTime /\ Image(g) \in SUBSET Tg
  <2>1. Image(g) \subseteq Tg
    <3>1. \A i \in 1..ca_size : g.ca_lst[i].tg \in Tg \cup {NULL}
      BY <1>1, CacheFields DEF Entry
    <3> QED BY <3>1 DEF Image
  <2> QED BY <1>1, <2>1 DEF LogInv, Clocks
<1>5. Image(c) = Image(g) /\ Entries(c) /\ Form(c, Busy, disk, mwc_tm) /\ c \in MemType
  <2>1. c \in MemType
    BY <1>2 DEF Sound
  <2> QED BY <1>1, <1>2, <2>1, FormEases DEF Image, Form
<1>6. /\ Timed(disk', mwc_tm, clock[1]) /\ N \subseteq N2 /\ p \in N2 \cup Lost'
      /\ \A t \in Image(g), S \in SUBSET Pv : Named(disk, t, S) => Named(disk', t, S)
      /\ \A q \in N2 : Image(g) \subseteq disk'[q].ltgs
  <2>0. \A q \in N : Image(g) \subseteq disk[q].ltgs
    BY <1>1 DEF Form
  <2>1. CASE UNCHANGED disk /\ p \in Lost'
    BY <1>4, <2>0, <2>1
  <2>2. CASE disk' = [disk EXCEPT ![p] = [tm |-> mwc_tm, ltgs |-> Image(g)]]
    <3>1. /\ Timed(disk', mwc_tm, clock[1]) /\ N2 = N \cup {p}
          /\ \A q \in N2 : disk'[q].ltgs = IF q = p THEN Image(g) ELSE disk[q].ltgs
          /\ \A t \in Image(g), S \in SUBSET Pv : Named(disk, t, S) => Named(disk', t, S)
      <4>1. disk' = Put(disk, p, mwc_tm, Image(g))
        BY <2>2 DEF Put
      <4> HIDE DEF N, N2
      <4>2. /\ Timed(disk', mwc_tm, clock[1]) /\ NowOn(disk', mwc_tm) = NowOn(disk, mwc_tm) \cup {p}
            /\ \A q \in NowOn(disk', mwc_tm) : disk'[q].ltgs = IF q = p THEN Image(g) ELSE disk[q].ltgs
            /\ \A t \in Image(g), S \in SUBSET Pv : Named(disk, t, S) => Named(disk', t, S)
        BY <1>4, <4>1, OnWritten
      <4> QED BY <4>2 DEF N, N2
    <3>2. \A q \in N2 : Image(g) \subseteq disk'[q].ltgs
      <4> HIDE DEF N, N2
      <4> QED BY <2>0, <3>1
    <3> QED BY <3>1, <3>2
  <2> QED BY <2>1, <2>2
<1>7. \A t \in Tg : Mirrors(t) \subseteq Pv
  BY MirrorsOK
<1>8. ASSUME NEW t \in Image(g), NEW S \in SUBSET Pv, NEW S2 \in SUBSET S, Named(disk, t, S)
      PROVE  Named(disk', t, S2)
  BY <1>6, <1>8, NamedFewer
<1>9. ASSUME NEW t \in Image(g), t \in K PROVE t \in K2
  <2>1. t \in Tg /\ (Mirrors(t) \subseteq Lost \/ Named(disk, t, Mirrors(t) \ Lost))
    BY <1>9 DEF Knows
  <2>2. Mirrors(t) \ Lost' \in SUBSET (Mirrors(t) \ Lost) /\ Mirrors(t) \ Lost \in SUBSET Pv
    BY <1>7, <2>1
  <2>3. Named(disk, t, Mirrors(t) \ Lost) => Named(disk', t, Mirrors(t) \ Lost')
    <3> HIDE DEF Mirrors, Lost
    <3> QED BY <1>8, <2>2
  <2> QED BY <2>1, <2>3 DEF Knows
<1>10. ASSUME NEW t \in Image(g), Mirrors(t) \ Lost' \subseteq N2 PROVE t \in K2
  <2>1. t \in Tg
    BY <1>4
  <2> DEFINE S == Mirrors(t) \ Lost'
  <2>2. CASE S = {}
    BY <2>1, <2>2 DEF Knows
  <2>3. CASE S # {}
    <3>1. \A q \in N2 : t \in disk'[q].ltgs
      BY <1>6
    <3>2. Named(disk', t, S)
      <4> HIDE DEF S
      <4>1. S \subseteq N2
        BY <1>10 DEF S
      <4> QED BY <1>6, <2>3, <3>1, <4>1, OnReached
    <3> QED BY <2>1, <3>2 DEF Knows
  <2> QED BY <2>2, <2>3
<1> HIDE DEF N, N2, K, K2
<1>11. /\ Entries(g') /\ Tidy(g', Busy') /\ Image(g') \subseteq Image(g) /\ \A q \in g'.cached : q \in g.cached
       /\ count.return = 0 => Logged(g', K2, Busy', N2, Lost')
  <2>2. CASE count.return = 0
    <3>1. Book(g, InWrite, Busy, disk, mwc_tm, Lost)
      BY <2>2 DEF LogInv
    <3>2. Book(c, InWrite, Busy, disk, mwc_tm, Lost)
      BY <1>1, <1>2, <3>1, BookEases
    <3>3. Logged(c, K, Busy, N, Lost)
      BY <3>2 DEF Book, K, N
    <3>4. Turns(c, p, K, N, Lost, K2, N2, Lost')
      BY <1>5, <1>6, <1>9, <1>10 DEF Turns
    <3>5. /\ Entries(g') /\ Tidy(g', Busy \ {p}) /\ Logged(g', K2, Busy \ {p}, N2, Lost')
          /\ Image(g') \subseteq Image(c) /\ \A q \in g'.cached : q \in c.cached
      BY <1>1, <1>2, <1>5, <3>3, <3>4, WendLogged
    <3> QED BY <1>2, <1>3, <1>5, <3>5
  <2>3. CASE count.return # 0
    <3> DEFINE NoN == {}
    <3>1. \A t \in Tg : Mirrors(t) \subseteq Pv
      BY MirrorsOK
    <3>2. Logged(c, Tg, Busy, NoN, Pv) /\ Tally(c)
      BY <1>2, <1>5, LoggedAny DEF Sound
    <3>3. /\ Entries(g') /\ Tidy(g', Busy \ {p}) /\ Image(g') \subseteq Image(c)
          /\ \A q \in g'.cached : q \in c.cached
      <4>1. Turns(c, p, Tg, NoN, Pv, Tg, NoN, Pv)
        BY <1>4, <1>5 DEF Turns
      <4> HIDE DEF NoN
      <4> QED BY <1>1, <1>2, <1>5, <3>2, <4>1, WendLogged
    <3> QED BY <1>2, <1>3, <1>5, <2>3, <3>3
  <2> QED BY <2>2, <2>3
<1>12. Clocks'
  BY <1>4, <1>6 DEF Clocks
<1>13. (\A r \in InWrite : writing[r].live \subseteq Mirrors(g.lb[r]))' /\ (mode = "down" => Image(g) = {})'
  BY <1>2, <1>3, <1>11 DEF LogInv
<1>14. Form(g, Busy, disk, mwc_tm)'
  BY <1>6, <1>11 DEF Form, N2
<1>15. ASSUME count.return = 0, NEW r \in g'.cached \cap InWrite
       PROVE  Named(disk', g'.lb[r], Mirrors(g'.lb[r]) \ Lost')
  <2> DEFINE t == g.lb[r]
  <2>1. r \in g.cached /\ g'.lb[r] = t
    BY <1>2, <1>3, <1>11, <1>15
  <2>2. t \in Image(g) /\ t \in Tg
    BY <1>1, <1>4, <2>1 DEF Tally
  <2>3. Named(disk, t, Mirrors(t) \ Lost)
    BY <1>15, <2>1 DEF LogInv, Book
  <2>4. Mirrors(t) \ Lost' \in SUBSET (Mirrors(t) \ Lost) /\ Mirrors(t) \ Lost \in SUBSET Pv
    BY <1>7, <2>2
  <2> HIDE DEF t, Mirrors, Lost
  <2> QED BY <1>8, <2>1, <2>2, <2>3, <2>4
<1>16. (count.return = 0 => Book(g, InWrite, Busy, disk, mwc_tm, Lost))'
  BY <1>3, <1>11, <1>15 DEF Book, K2, N2
<1> QED BY <1>12, <1>13, <1>14, <1>16 DEF LogInv

LEMMA CacheWrittenLog ==
  ASSUME IInv, Ledger, LogInv, IInv', NEW p \in Pv, CacheWritten(p)
  PROVE  LogInv'
<1>1. /\ pv_pbuf[p] = "writing" /\ g' = hd_ca_wend(g, p) /\ pv_pbuf' = [pv_pbuf EXCEPT ![p] = "idle"]
      /\ disk' = [disk EXCEPT ![p] = [tm |-> mwc_tm, ltgs |-> Image(g)]]
      /\ UNCHANGED <<mwc_tm, clock, writing, mode, missing, sa_miss, count>>
  BY DEF CacheWritten
<1>2. Losses /\ pv_pbuf \in [Pv -> {"idle", "writing", "wheel"}] /\ missing \subseteq Pv
  BY LogFacts DEF LogInv, IInv, Wheel
<1>3. Losses' /\ Lost' = Lost
  BY <1>1, <1>2 DEF Losses, Lost
<1> QED BY <1>1, <1>3, WendLog

LEMMA CacheFailedLog ==
  ASSUME IInv, Ledger, LogInv, IInv', NEW p \in Pv, CacheFailed(p)
  PROVE  LogInv'
<1>1. /\ pv_pbuf[p] = "writing" /\ missing' = missing \cup {p}
      /\ UNCHANGED <<disk, mwc_tm, clock, writing, mode, sa_miss, count>>
  BY DEF CacheFailed, disks
<1>2. /\ Losses /\ pv_pbuf \in [Pv -> {"idle", "writing", "wheel"}] /\ missing \subseteq Pv
      /\ (count.off = 0 => ~ForcedOff(g))
  BY LogFacts DEF LogInv, IInv, Wheel, Recording
<1>3. Lost \subseteq Lost'
  BY <1>1 DEF Lost
<1>4. CASE ForcedOff(g)
  <2>1. g' = hd_ca_wend(g, p) /\ pv_pbuf' = [pv_pbuf EXCEPT ![p] = "idle"]
    BY <1>4 DEF CacheFailed
  <2>2. Losses' /\ p \in Lost'
    BY <1>1, <1>2, <1>4, <2>1 DEF Losses, Lost
  <2> QED BY <1>1, <1>3, <2>1, <2>2, WendLog
<1>5. CASE ~ForcedOff(g)
  <2>1. UNCHANGED g /\ pv_pbuf' = [pv_pbuf EXCEPT ![p] = "wheel"]
    BY <1>5 DEF CacheFailed
  <2>2. Losses'
    BY <1>1, <1>2, <2>1 DEF Losses
  <2>3. Busy' = Busy
    BY <1>1, <1>2, <2>1 DEF Busy
  <2> QED BY <1>1, <1>3, <2>1, <2>2, <2>3, QuietLog
<1> QED BY <1>4, <1>5

LEMMA SaPvMissingLog ==
  ASSUME IInv, Ledger, LogInv, IInv', NEW p \in Pv, SaPvMissing(p)
  PROVE  LogInv'
<1>1. /\ pv_pbuf[p] = "wheel" /\ g' = hd_ca_wend(Checked(g, missing), p)
      /\ pv_pbuf' = [pv_pbuf EXCEPT ![p] = "idle"]
      /\ sa_miss' = IF Quorate(missing) THEN sa_miss \cup {p} ELSE sa_miss
      /\ UNCHANGED <<disk, mwc_tm, clock, writing, mode, missing>>
  BY DEF SaPvMissing
<1>2. count'.return = count.return /\ count'.off = IF Quorate(missing) THEN count.off ELSE 1
  <2>1. count' = CountOff(missing)
    BY DEF SaPvMissing
  <2> QED BY <2>1 DEF CountOff, Ledger
<1>3. /\ Losses /\ pv_pbuf \in [Pv -> {"idle", "writing", "wheel"}] /\ missing \subseteq Pv
      /\ p \in missing /\ mode # "down"
  <2>1. p \in Busy
    BY <1>1 DEF Busy
  <2>2. Losses
    BY DEF LogInv
  <2> QED BY <1>1, <2>1, <2>2, LogFacts DEF IInv, Wheel, Losses
<1>4. Losses'
  BY <1>1, <1>2, <1>3 DEF Losses
<1>5. Lost \subseteq Lost' /\ p \in Lost'
  BY <1>1, <1>2, <1>3 DEF Losses, Lost
<1> QED BY <1>1, <1>2, <1>4, <1>5, WendLog

(* The process cleans the cache c, which it has reserved.                   *)
LEMMA CleanLog ==
  ASSUME IInv, Ledger, LogInv, IInv', NEW c, Sound(c, InWrite, {}), "CA_VGACT" \notin c.flags, Busy = {},
         Eases(g, c, {}), c.ca_lst = g.ca_lst, c.cached = g.cached, c.lb = g.lb, Clean(c),
         UNCHANGED <<disk, clock, writing, missing, sa_miss, mode>>,
         count'.return = count.return /\ count'.off = count.off
  PROVE  LogInv'
<1> DEFINE P == IF \E i \in 1..ca_size : Unused(c.ca_lst[i]) THEN Pv \ missing ELSE {}
           d == [c EXCEPT !.ca_lst = CleanedList(c), !.pvwrt = P]
           e == hd_ca_mvhld([d EXCEPT !.flags = @ \ {"CA_INFLT"}])
           N == NowOn(disk, mwc_tm)
           K == Knows(disk, Lost)
<1>1. /\ g \in MemType /\ c \in MemType /\ Form(g, Busy, disk, mwc_tm) /\ InWrite \in SUBSET Req
      /\ Tally(g) /\ Entries(g) /\ Tally(c)
  BY LogFacts DEF Sound, LogInv
<1>2. Form(c, Busy, disk, mwc_tm)
  BY <1>1, FormEases
<1>3. Entries(c) /\ Tidy(c, {}) /\ Image(c) = Image(g)
  BY <1>2 DEF Form, Image
<1>4. count.return = 0 => Logged(c, K, {}, N, Lost)
  <2>1. SUFFICES ASSUME count.return = 0 PROVE Book(c, InWrite, Busy, disk, mwc_tm, Lost)
    BY DEF Book
  <2>2. Book(g, InWrite, Busy, disk, mwc_tm, Lost)
    BY <2>1 DEF LogInv
  <2> QED BY <1>1, <2>2, BookEases
<1>5. P \in SUBSET Pv
  OBVIOUS
<1> HIDE DEF P, N, K
<1>6. d.pvwrt = P
  BY <1>1 DEF MemType
<1>7. ASSUME NEW K0, NEW N0, NEW Lo0, Logged(c, K0, {}, N0, Lo0), NEW N2
      PROVE  /\ Entries(Wrt(d)) /\ Tidy(Wrt(d), P) /\ Logged(Wrt(d), K0, P, N2, Lo0)
             /\ Wrt(d).cached = c.cached /\ Wrt(d).lb = c.lb /\ Image(Wrt(d)) \subseteq Image(c)
             /\ P = {} => /\ Entries(e) /\ Tidy(e, {}) /\ Logged(e, K0, {}, N0, Lo0)
                          /\ \A q \in e.cached : q \in c.cached /\ e.lb[q] = c.lb[q]
                          /\ Image(e) \subseteq Image(c)
  BY <1>1, <1>3, <1>5, <1>7, CleanLogged
<1> HIDE DEF d, e
<1>8. Logged(c, Tg, {}, N, Pv)
  BY <1>1, <1>3, LoggedAny
<1>9. CASE P # {}
  <2>1. hd_ca_wrt(d)
    BY <1>9 DEF Clean, P, d
  <2>2. /\ Entries(Wrt(d)) /\ Tidy(Wrt(d), P) /\ Wrt(d).cached = c.cached /\ Wrt(d).lb = c.lb
        /\ Image(Wrt(d)) \subseteq Image(c)
    BY <1>7, <1>8
  <2>3. count.return = 0 => \A N2 : Logged(Wrt(d), K, P, N2, Lost)
    BY <1>4, <1>7
  <2> QED BY <1>3, <1>5, <1>6, <2>1, <2>2, <2>3, WrtLog DEF K
<1>10. CASE P = {}
  <2>1. g' = e /\ UNCHANGED <<mwc_tm, pv_pbuf>>
    BY <1>10 DEF Clean, P, d, e
  <2>2. /\ Entries(e) /\ Tidy(e, {}) /\ Image(e) \subseteq Image(c)
        /\ \A q \in e.cached : q \in c.cached /\ e.lb[q] = c.lb[q]
    BY <1>7, <1>8, <1>10
  <2>3. count.return = 0 => Logged(e, K, {}, N, Lost)
    BY <1>4, <1>7, <1>10
  <2>4. Busy' = {} /\ InWrite' = InWrite
    BY <2>1 DEF Busy, InWrite
  <2>5. Losses' /\ Lost' = Lost
    BY <2>1, LossesFrame DEF LogInv
  <2>6. Clocks'
    BY <2>1, <2>4 DEF LogInv, Clocks
  <2>7. Form(g', {}, disk, mwc_tm)
    BY <2>1, <2>2 DEF Form
  <2>8. ASSUME count.return = 0 PROVE Book(g', InWrite, {}, disk, mwc_tm, Lost)
    <3>1. \A r \in g.cached \cap InWrite : Named(disk, g.lb[r], Mirrors(g.lb[r]) \ Lost)
      BY <2>8 DEF LogInv, Book
    <3> QED BY <2>1, <2>2, <2>3, <2>8, <3>1 DEF Book, K, N
  <2>9. \A r \in InWrite : g'.lb[r] = g.lb[r]
    <3>1. pv_pbuf \in [Pv -> {"idle", "writing", "wheel"}]
      BY LogFacts
    <3>2. \E F : Follows(c, g', F, InWrite)
      BY <3>1, CleanCache
    <3> QED BY <3>2 DEF Follows
  <2>10. Form(g, Busy, disk, mwc_tm)' /\ (count.return = 0 => Book(g, InWrite, Busy, disk, mwc_tm, Lost))'
    BY <2>1, <2>4, <2>5, <2>7, <2>8
  <2>11. (\A r \in InWrite : writing[r].live \subseteq Mirrors(g.lb[r]))' /\ (mode = "down" => Image(g) = {})'
    BY <1>3, <2>1, <2>2, <2>4, <2>9 DEF LogInv
  <2> QED BY <2>5, <2>6, <2>10, <2>11 DEF LogInv
<1> QED BY <1>9, <1>10

LEMMA ClnupLog ==
  ASSUME IInv, Ledger, LogInv, IInv', hd_ca_clnup
  PROVE  LogInv'
<1> DEFINE c == [g EXCEPT !.flags = @ \cup {"CA_INFLT"}]
<1>1. /\ lock = "free" /\ count' = [count EXCEPT !.clean = @ + 1]
      /\ \/ "CA_INFLT" \in g.flags /\ UNCHANGED <<g, mwc_tm, pv_pbuf>>
         \/ "CA_INFLT" \notin g.flags /\ Clean(c)
      /\ UNCHANGED <<disk, clock, writing, missing, sa_miss, mode>>
  BY DEF hd_ca_clnup, disks
<1>2. count'.return = count.return /\ count'.off = count.off
  BY <1>1 DEF Ledger
<1>3. CacheInv /\ "CA_VGACT" \notin g.flags /\ g \in MemType
  BY <1>1, LogFacts DEF IInv, Control
<1>4. CASE UNCHANGED <<g, mwc_tm, pv_pbuf>>
  <2>1. Busy' = Busy /\ Losses' /\ Lost' = Lost
    BY <1>1, <1>2, <1>4, LossesFrame DEF Busy, LogInv
  <2> QED BY <1>1, <1>2, <1>4, <2>1, QuietLog
<1>5. CASE "CA_INFLT" \notin g.flags /\ Clean(c)
  <2>1. Busy = {}
    BY <1>3, <1>5 DEF CacheInv, Sound, Flow
  <2>2. /\ Sound(c, InWrite, {}) /\ "CA_VGACT" \notin c.flags
    BY <1>3, <2>1, ReservedOK
  <2>3. /\ c.ca_lst = g.ca_lst /\ c.cached = g.cached /\ c.lb = g.lb /\ c.pvwrt = g.pvwrt
        /\ c.ca_pv = g.ca_pv
    BY <1>3 DEF MemType
  <2> HIDE DEF c
  <2>4. Eases(g, c, {})
    BY <1>3, <2>2, <2>3, PlainEases
  <2> QED BY <1>1, <1>2, <1>5, <2>1, <2>2, <2>3, <2>4, CleanLog
<1> QED BY <1>1, <1>4, <1>5

LEMMA CleanAwakeLog ==
  ASSUME IInv, Ledger, LogInv, IInv', CleanAwake
  PROVE  LogInv'
<1>1. /\ lock = "free" /\ proc = "awake" /\ Clean(g)
      /\ UNCHANGED <<disk, clock, writing, missing, sa_miss, mode, count>>
  BY DEF CleanAwake, disks
<1>2. "CA_VGACT" \notin g.flags /\ Busy = {} /\ Sound(g, InWrite, {})
  BY <1>1 DEF IInv, Control, CacheInv
<1>3. Eases(g, g, {})
  BY PlainEases
<1> QED BY <1>1, <1>2, <1>3, CleanLog

LEMMA CleanWrittenLog ==
  ASSUME IInv, Ledger, LogInv, IInv', CleanWritten
  PROVE  LogInv'
<1> DEFINE c == [g EXCEPT !.flags = @ \ {"CA_INFLT"}]
<1>1. /\ proc = "written" /\ g' = hd_ca_mvhld(c)
      /\ UNCHANGED <<disk, mwc_tm, clock, pv_pbuf, writing, missing, sa_miss, mode, count>>
  BY DEF CleanWritten, disks
<1>2. CacheInv /\ Busy = {} /\ g \in MemType /\ Range(g.ca_hld) \cap g.cached = {}
  BY <1>1 DEF IInv, Control, CacheInv, Sound, Places
<1>3. /\ c.ca_lst = g.ca_lst /\ c.cached = g.cached /\ c.lb = g.lb /\ c.pvwrt = g.pvwrt
      /\ c.ca_pv = g.ca_pv /\ c.flags = g.flags \ {"CA_INFLT"} /\ c.ca_hld = g.ca_hld /\ c \in MemType
  <2>1. g.flags \ {"CA_INFLT"} \in SUBSET Flag
    BY <1>2, CacheFields
  <2> QED BY <1>2, <2>1 DEF MemType
<1> HIDE DEF c
<1>4. Eases(g, c, {})
  BY <1>3, PlainEases
<1>5. Eases(c, g', {})
  BY <1>1, <1>2, <1>3, MvHeldEases
<1>6. Eases(g, g', {})
  BY <1>4, <1>5, EasesTrans
<1>7. Busy' = Busy /\ InWrite' = InWrite /\ Losses' /\ Lost' = Lost
  BY <1>1, LossesFrame DEF Busy, InWrite, LogInv
<1>8. \A r \in InWrite : g'.lb[r] = g.lb[r]
  BY <1>2, CleanWrittenCache DEF Follows
<1> QED BY <1>1, <1>6, <1>7, <1>8, LogFrame

LEMMA InitmwcLog ==
  ASSUME IInv, Ledger, LogInv, IInv', hd_kdis_initmwc
  PROVE  LogInv'
<1> DEFINE P == Pv \ missing
           d == [g EXCEPT !.pvwrt = P]
           K == Knows(disk, Lost)
           N == NowOn(disk, mwc_tm)
<1>1. /\ mode = "recover" /\ proc = "none" /\ hd_ca_wrt(d)
      /\ UNCHANGED <<disk, clock, writing, missing, sa_miss, mode, count>>
  BY DEF hd_kdis_initmwc, disks
<1>2. "CA_VGACT" \notin g.flags /\ "CA_INFLT" \notin g.flags
  BY <1>1 DEF IInv, Control
<1>3. /\ Sound(g, InWrite, Busy) /\ g \in MemType /\ Entries(g) /\ InWrite \in SUBSET Req
      /\ Form(g, Busy, disk, mwc_tm) /\ Tally(g)
  BY LogFacts DEF LogInv
<1>4. Busy = {} /\ Tidy(g, {})
  BY <1>2, <1>3 DEF Sound, Flow, Form
<1>5. P \in SUBSET Pv
  OBVIOUS
<1> HIDE DEF P, K, N
<1>6. Prepared(g, d) /\ d.pvwrt = P /\ d \in MemType
  BY <1>3, <1>5 DEF MemType, Prepared
<1>7. Eases(g, [d EXCEPT !.pvwrt = g.pvwrt], {})
  <2>1. [d EXCEPT !.pvwrt = g.pvwrt] = g
    BY <1>3 DEF MemType
  <2>2. Eases(g, g, {})
    BY PlainEases
  <2> QED BY <2>1, <2>2
<1>8. ASSUME NEW K0, NEW N0, NEW Lo0, Logged(g, K0, {}, N0, Lo0), NEW N2
      PROVE  Entries(Wrt(d)) /\ Tidy(Wrt(d), P) /\ Logged(Wrt(d), K0, P, N2, Lo0)
  <2> HIDE DEF d
  <2> QED BY <1>2, <1>3, <1>4, <1>6, <1>7, <1>8, ReservedLogged
<1>9. /\ Wrt(d).cached = g.cached /\ Wrt(d).lb = g.lb /\ Image(Wrt(d)) = Image(g)
  <2>1. d.cached = g.cached /\ d.lb = g.lb /\ Image(d) = Image(g)
    BY <1>3 DEF MemType, Image
  <2> HIDE DEF d
  <2> QED BY <1>6, <2>1, WrtStates
<1> HIDE DEF d
<1>10. Entries(Wrt(d)) /\ Tidy(Wrt(d), P)
  <2>1. Logged(g, Tg, {}, N, Pv)
    BY <1>3, LoggedAny
  <2> QED BY <1>8, <2>1
<1>11. count.return = 0 => \A N2 : Logged(Wrt(d), K, P, N2, Lost)
  <2>1. count.return = 0 => Logged(g, K, {}, N, Lost)
    BY <1>4 DEF LogInv, Book, K, N
  <2> QED BY <1>8, <2>1
<1> QED BY <1>1, <1>3, <1>4, <1>5, <1>6, <1>9, <1>10, <1>11, WrtLog DEF K

(* The cache is empty: at an open, after a crash and at the end of a recovery. *)
LEMMA EmptyLog ==
  ASSUME IInv', g'.ca_lst = NewCache.ca_lst, "CA_VGACT" \notin g'.flags, Busy' = {}, InWrite' = {},
         Clocks', Losses'
  PROVE  LogInv'
<1>1. \A i \in 1..ca_size : g'.ca_lst[i] = CleanEntry
  BY DEF NewCache
<1>2. \A i \in 1..ca_size : g'.ca_lst[i].tg = NULL /\ g'.ca_lst[i].state = "CACLEAN"
  BY <1>1 DEF CleanEntry
<1>3. Entries(g') /\ Image(g') = {} /\ Tidy(g', {})
  BY <1>2 DEF Entries, Image, Tidy
<1>4. g' \in MemType /\ Tally(g')
  BY DEF IInv, CacheInv, Sound
<1>5. Book(g', {}, {}, disk', mwc_tm', Lost')
  BY <1>3, <1>4, NothingCached
<1>6. Form(g', {}, disk', mwc_tm')
  BY <1>3 DEF Form
<1> QED BY <1>3, <1>5, <1>6 DEF LogInv

(* Time has passed, and there is no record in memory.                       *)
LEMMA LaterTimed ==
  ASSUME NEW dk, NEW tm, NEW now, Timed(dk, tm, now)
  PROVE  Timed(dk, <<0, 0>>, now + 1)
<1>1. ASSUME NEW p \in Pv PROVE dk[p].tm[1] < now + 1
  <2>1. dk[p].tm[1] \in Nat /\ now \in Nat /\ dk[p].tm[1] <= now
    <3>1. dk[p].tm \in Nat \X Nat
      BY NotLater
    <3> QED BY <3>1 DEF Timed
  <2> QED BY <2>1
<1>2. now + 1 \in Nat \ {0}
  BY DEF Timed
<1> QED BY <1>1, <1>2 DEF Timed, NoTime

LEMMA ClearedLog ==
  ASSUME IInv, Ledger, LogInv, IInv', Cleared
  PROVE  LogInv'
<1>1. /\ proc = "cleared" /\ lock = "free" /\ mode' = "up" /\ g' = [NewCache EXCEPT !.flags = g.flags \ {"CA_INFLT"}]
      /\ mwc_tm' = <<0, 0>> /\ clock' = <<clock[1] + 1, 0>>
      /\ UNCHANGED <<writing, pv_pbuf, missing, disk, sa_miss, count>>
  BY DEF Cleared, disks
<1>2. Busy = {} /\ mode = "recover" /\ "CA_VGACT" \notin g.flags /\ writing = [r \in Req |-> NULL]
  BY <1>1 DEF IInv, Control
<1>3. Busy' = {} /\ InWrite' = {}
  BY <1>1, <1>2 DEF Busy, InWrite
<1>4. g'.ca_lst = NewCache.ca_lst /\ "CA_VGACT" \notin g'.flags
  BY <1>1, <1>2 DEF NewCache
<1>5. Clocks'
  <2>1. Timed(disk, mwc_tm, clock[1])
    BY DEF LogInv, Clocks
  <2>2. Timed(disk, <<0, 0>>, clock[1] + 1)
    BY <2>1, LaterTimed
  <2>3. clock'[1] = clock[1] + 1
    BY <1>1
  <2> QED BY <1>1, <1>3, <2>2, <2>3 DEF Clocks
<1>6. Losses'
  BY <1>1, <1>2 DEF LogInv, Losses
<1> QED BY <1>3, <1>4, <1>5, <1>6, EmptyLog

LEMMA CrashLog ==
  ASSUME IInv, Ledger, LogInv, IInv', Crash
  PROVE  LogInv'
<1>1. /\ g' = NewCache /\ writing' = [r \in Req |-> NULL] /\ pv_pbuf' = [p \in Pv |-> "idle"]
      /\ missing' = {} /\ mode' = "down" /\ mwc_tm' = <<0, 0>> /\ clock' = <<clock[1] + 1, 0>>
      /\ UNCHANGED disk
  BY DEF Crash
<1>2. Busy' = {} /\ InWrite' = {}
  BY <1>1 DEF Busy, InWrite
<1>3. g'.ca_lst = NewCache.ca_lst /\ "CA_VGACT" \notin g'.flags
  BY <1>1 DEF NewCache
<1>4. Clocks'
  <2>1. Timed(disk, mwc_tm, clock[1])
    BY DEF LogInv, Clocks
  <2>2. Timed(disk, <<0, 0>>, clock[1] + 1)
    BY <2>1, LaterTimed
  <2>3. clock'[1] = clock[1] + 1
    BY <1>1
  <2> QED BY <1>1, <1>2, <2>2, <2>3 DEF Clocks
<1>5. Losses'
  BY <1>1 DEF Losses
<1> QED BY <1>2, <1>3, <1>4, <1>5, EmptyLog

LEMMA InitLog == Init => LogInv
<1> SUFFICES ASSUME Init PROVE LogInv
  OBVIOUS
<1>1. /\ g = NewCache /\ writing = [r \in Req |-> NULL] /\ pv_pbuf = [p \in Pv |-> "idle"]
      /\ missing = {} /\ mode = "up" /\ mwc_tm = <<0, 0>> /\ clock = <<1, 0>>
      /\ disk = [p \in Pv |-> [tm |-> <<0, 0>>, ltgs |-> {}]] /\ sa_miss = {}
  BY DEF Init
<1>2. Busy = {} /\ InWrite = {}
  BY <1>1 DEF Busy, InWrite
<1>3. \A i \in 1..ca_size : g.ca_lst[i].tg = NULL /\ g.ca_lst[i].state = "CACLEAN"
  BY <1>1 DEF NewCache, CleanEntry
<1>4. "CA_VGACT" \notin g.flags
  BY <1>1 DEF NewCache
<1>5. Entries(g) /\ Image(g) = {} /\ Tidy(g, {})
  BY <1>3, <1>4 DEF Entries, Image, Tidy
<1>6. g \in MemType /\ Tally(g)
  BY InitOK DEF IInv, CacheInv, Sound
<1>7. Book(g, {}, {}, disk, mwc_tm, Lost)
  BY <1>5, <1>6, NothingCached
<1>8. Form(g, {}, disk, mwc_tm)
  BY <1>5 DEF Form
<1>9. Clocks
  <2>1. Timed(disk, <<0, 0>>, 1)
    <3>1. [tm |-> <<0, 0>>, ltgs |-> {}] \in Record
      BY DEF Record
    <3>2. disk \in [Pv -> Record] /\ \A p \in Pv : disk[p].tm[1] = 0
      BY <1>1, <3>1
    <3> QED BY <3>2 DEF Timed, NoTime
  <2> QED BY <1>1, <1>2, <2>1 DEF Clocks
<1>10. Losses
  BY <1>1 DEF Losses
<1> QED BY <1>2, <1>5, <1>7, <1>8, <1>9, <1>10 DEF LogInv

(* Of finitely many disks one has a record as new as any, since the sets of  *)
(* those with a later one cannot shrink for ever.                           *)
LEMMA NewestIn ==
  ASSUME NEW dk \in [Pv -> Record], NEW F \in SUBSET Pv, F # {}
  PROVE  \E p \in F : \A q \in F : ~Earlier(dk[p].tm, dk[q].tm)
<1> DEFINE Later(p) == {q \in F : Earlier(dk[p].tm, dk[q].tm)}
           T == {Later(p) : p \in F}
           R == StrictSubsetOrdering(F)
           S == FiniteSubsetsOf(F)
<1>1. \A p \in Pv : dk[p].tm \in Nat \X Nat
  BY DEF Record
<1>2. T \subseteq S /\ T # {}
  <2>1. IsFiniteSet(F)
    BY SizeAssumption, FS_Subset
  <2>2. ASSUME NEW p \in F PROVE Later(p) \in S
    <3>1. Later(p) \subseteq F
      OBVIOUS
    <3> HIDE DEF Later
    <3>2. IsFiniteSet(Later(p))
      BY <2>1, <3>1, FS_Subset
    <3> QED BY <3>1, <3>2 DEF FiniteSubsetsOf
  <2> HIDE DEF Later
  <2> QED BY <2>2
<1>3. PICK t \in T : \A u \in T : ~ (<<u, t>> \in R)
  <2>1. IsWellFoundedOn(R, S)
    BY FS_StrictSubsetOrderingWellFounded
  <2> HIDE DEF R, T, S
  <2> QED BY <1>2, <2>1, WFMin
<1>4. PICK p \in F : t = Later(p)
  OBVIOUS
<1>5. ASSUME NEW q \in F, Earlier(dk[p].tm, dk[q].tm) PROVE FALSE
  <2>1. Later(q) \subseteq Later(p)
    <3>1. ASSUME NEW x \in F, Earlier(dk[q].tm, dk[x].tm) PROVE Earlier(dk[p].tm, dk[x].tm)
      <4>1. /\ dk[p].tm[1] \in Nat /\ dk[p].tm[2] \in Nat /\ dk[q].tm[1] \in Nat /\ dk[q].tm[2] \in Nat
            /\ dk[x].tm[1] \in Nat /\ dk[x].tm[2] \in Nat
        BY <1>1
      <4> QED BY <1>5, <3>1, <4>1 DEF Earlier
    <3> QED BY <3>1
  <2>2. q \in Later(p) /\ q \notin Later(q)
    <3>1. ~Earlier(dk[q].tm, dk[q].tm)
      BY <1>1, EarlierOrder
    <3> QED BY <1>5, <3>1
  <2>3. Later(q) \in T /\ Later(p) \in SUBSET F /\ Later(q) \in SUBSET F
    OBVIOUS
  <2> HIDE DEF Later, T
  <2>4. <<Later(q), Later(p)>> \in R
    BY <2>1, <2>2, <2>3 DEF StrictSubsetOrdering
  <2> QED BY <1>3, <1>4, <2>3, <2>4
<1> QED BY <1>5

(* varyon finds a newest record.                                            *)
LEMMA BestIn ==
  ASSUME Clocks, NEW F \in SUBSET Pv, Cardinality(F) >= Quorum
  PROVE  (CHOOSE p \in Newest(F) : TRUE) \in F
<1>1. F # {}
  <2>1. Cardinality(Pv) \in Nat
    BY SizeAssumption, FS_CardinalityType
  <2>2. Quorum > 0
    BY <2>1, SizeAssumption
  <2>3. F = {} => Cardinality(F) = 0
    BY FS_EmptySet
  <2> QED BY <2>2, <2>3, SizeAssumption
<1>2. disk \in [Pv -> Record]
  BY DEF Clocks, Timed
<1>3. \E p \in F : \A q \in F : ~Earlier(disk[p].tm, disk[q].tm)
  BY <1>1, <1>2, NewestIn
<1>4. \E p : p \in Newest(F)
  BY <1>3 DEF Newest
<1>5. (CHOOSE p \in Newest(F) : TRUE) \in Newest(F)
  BY <1>4
<1> QED BY <1>5 DEF Newest

LEMMA VaryonLog ==
  ASSUME IInv, Ledger, LogInv, IInv', NEW F \in SUBSET Pv, Varyon(F)
  PROVE  LogInv'
<1> DEFINE best == CHOOSE p \in Newest(F) : TRUE
<1>1. /\ mode = "down" /\ Cardinality(F) >= Quorum
      /\ disk' = [p \in Pv |-> IF p \in F THEN disk[best] ELSE disk[p]]
      /\ sa_miss' = Pv \ F /\ missing' = Pv \ F
      /\ UNCHANGED <<g, writing, pv_pbuf, mwc_tm, clock, count>>
  BY DEF Varyon
<1>2. /\ g \in MemType /\ Entries(g) /\ Tally(g) /\ Tidy(g, Busy) /\ Busy = {} /\ InWrite = {}
      /\ Image(g) = {} /\ pv_pbuf \in [Pv -> {"idle", "writing", "wheel"}]
  BY <1>1, LogFacts DEF LogInv, Form
<1>3. Busy' = {} /\ InWrite' = {}
  BY <1>1, <1>2 DEF Busy, InWrite
<1>4. best \in F
  BY <1>1, BestIn DEF LogInv
<1> HIDE DEF best
<1>5. Clocks'
  <2>1. Timed(disk, mwc_tm, clock[1])
    BY DEF LogInv, Clocks
  <2>2. \A p \in Pv : \E q \in Pv : disk'[p] = disk[q]
    BY <1>1, <1>4
  <2>3. disk' \in [Pv -> Record]
    BY <1>1, <1>4, <2>1 DEF Timed
  <2>4. Timed(disk', mwc_tm, clock[1])
    BY <2>1, <2>2, <2>3 DEF Timed
  <2> QED BY <1>1, <1>3, <2>4 DEF LogInv, Clocks
<1>6. Losses'
  <2>1. \A p \in Pv : pv_pbuf'[p] # "wheel"
    BY <1>1, <1>2 DEF Busy
  <2> QED BY <1>1, <2>1 DEF Losses
<1>7. Book(g, {}, {}, disk', mwc_tm', Lost')
  BY <1>2, NothingCached
<1>8. Form(g, {}, disk', mwc_tm')
  BY <1>2 DEF Form
<1> QED BY <1>1, <1>2, <1>3, <1>5, <1>6, <1>7, <1>8 DEF LogInv

LEMMA ParallelLog ==
  ASSUME IInv, Ledger, LogInv, IInv', hd_parallel
  PROVE  LogInv'
<1> DEFINE r == Head(g.pending_Q)
           t == g.lb[r]
           c == [g EXCEPT !.pending_Q = Tail(@)]
           d == IF NeedsCache(c, r) THEN hd_ca_hit(c, r) ELSE c
           K == Knows(disk, Lost)
           N == NowOn(disk, mwc_tm)
<1>0. /\ UNCHANGED <<disk, mwc_tm, clock, pv_pbuf, missing, sa_miss, mode, count>>
      /\ g.pending_Q # <<>> /\ mode # "down" /\ Busy' = Busy
  <2>1. g.lb # [q \in Req |-> NULL]
    BY ParallelUp DEF IInv
  <2> QED BY <2>1 DEF hd_parallel, disks, Busy, IInv, Control
<1>1. /\ Sound(g, InWrite, Busy) /\ Moves(g) /\ g \in MemType /\ Entries(g) /\ Tally(g)
      /\ Form(g, Busy, disk, mwc_tm) /\ InWrite \in SUBSET Req /\ Busy \in SUBSET Pv
      /\ Lost \subseteq missing /\ writing \in [Req -> Issued \cup {NULL}] /\ missing \subseteq Pv
  BY <1>0, LogFacts DEF LogInv, IInv, Wheel
<1>2. Losses' /\ Lost' = Lost /\ Clocks'
  BY <1>0, LossesFrame DEF LogInv, Clocks
<1>3. /\ Sound(c, InWrite, Busy) /\ Moves(c) /\ c.lb = g.lb /\ c.cached = g.cached
      /\ r \in Req /\ r \notin Queued(c) /\ r \notin InWrite /\ c.lb[r] \in Tg /\ c.lb[r] # NULL
  BY <1>0, <1>1, Dequeue
<1>4. /\ \/ NeedsCache(c, r) /\ ~IsHit(c, t) /\ g' = hd_ca_miss(c, r) /\ UNCHANGED writing
         \/ ~(NeedsCache(c, r) /\ ~IsHit(c, t)) /\ g' = [d EXCEPT !.pending_Q = <<r>> \o @] /\ UNCHANGED writing
         \/ ~(NeedsCache(c, r) /\ ~IsHit(c, t)) /\ g' = Returned(d, r) /\ UNCHANGED writing
         \/ /\ ~(NeedsCache(c, r) /\ ~IsHit(c, t)) /\ g' = d /\ Live(t) # Broken(t)
            /\ writing' = [writing EXCEPT ![r] = [live |-> Live(t), broken |-> Broken(t)]]
  BY DEF hd_parallel
<1>5. t = c.lb[r]
  BY <1>3
<1>6. /\ c.flags = g.flags /\ c.pvwrt = g.pvwrt /\ c.ca_pv = g.ca_pv /\ c.ca_lst = g.ca_lst
  BY <1>1 DEF MemType
<1> HIDE DEF c, r, K, N
<1>7. Eases(g, c, {}) /\ c \in MemType /\ Tally(c)
  BY <1>3, <1>6, PlainEases DEF Sound
<1>8. Form(c, Busy, disk, mwc_tm) /\ Entries(c) /\ Image(c) \subseteq Image(g)
  <2>1. Form(c, Busy, disk, mwc_tm)
    BY <1>1, <1>7, FormEases
  <2> QED BY <1>1, <1>7, <2>1, EasesImage DEF Form
<1>9. count.return = 0 => Book(c, InWrite, Busy, disk, mwc_tm, Lost)
  <2>1. InWrite \in SUBSET InWrite /\ Lost \subseteq Lost
    OBVIOUS
  <2> HIDE DEF Lost
  <2> QED BY <1>1, <1>7, <2>1, BookEases DEF LogInv, Lost
<1>10. /\ Logged(c, Tg, Busy, N, Pv)
       /\ count.return = 0 => Logged(c, K, Busy, N, Lost)
  BY <1>7, <1>8, <1>9, LoggedAny DEF Book, K, N

(* The request is looked up in the cache, or need not be.                   *)
<1>11. ASSUME ~(NeedsCache(c, r) /\ ~IsHit(c, t))
       PROVE  /\ Sound(d, InWrite, Busy) /\ Moves(d) /\ r \notin Queued(d) /\ d.lb = c.lb
              /\ Form(d, Busy, disk, mwc_tm) /\ Image(d) \subseteq Image(c)
              /\ \A q \in d.cached : q = r \/ q \in c.cached
              /\ count.return = 0 => Book(d, InWrite, Busy, disk, mwc_tm, Lost)
  <2>1. CASE NeedsCache(c, r)
    <3>1. d = hd_ca_hit(c, r) /\ IsHit(c, c.lb[r]) /\ c.lb[r] \in Image(c) /\ r \notin c.cached
      BY <1>5, <1>11, <2>1 DEF IsHit, NeedsCache
    <3> HIDE DEF d, t
    <3>2. /\ Sound(d, InWrite, Busy) /\ Moves(d) /\ d.lb = c.lb /\ Queued(d) = Queued(c)
      BY <1>1, <1>3, <3>1, HitOK
    <3>3. ASSUME NEW K0, NEW N0, NEW Lo0, Logged(c, K0, Busy, N0, Lo0)
          PROVE  /\ Entries(d) /\ Tidy(d, Busy) /\ Logged(d, K0, Busy, N0, Lo0) /\ Image(d) \subseteq Image(c)
                 /\ d.cached = c.cached \cup {r}
      <4>1. Tidy(c, Busy)
        BY <1>8 DEF Form
      <4>2. LET h == hd_ca_hit(c, r)
            IN  /\ Entries(h) /\ Tidy(h, Busy) /\ Logged(h, K0, Busy, N0, Lo0) /\ Image(h) \subseteq Image(c)
                /\ h.cached = c.cached \cup {r}
        <5>1. InWrite \in SUBSET Req /\ Sound(c, InWrite, Busy) /\ Entries(c) /\ Tidy(c, Busy)
          BY <1>1, <1>3, <1>8, <4>1
        <5>2. r \in Req /\ r \notin Queued(c) /\ r \notin c.cached /\ IsHit(c, c.lb[r])
          BY <1>3, <3>1
        <5> HIDE DEF Busy
        <5> QED BY ONLY <5>1, <5>2, <3>3, HitLogged
      <4> QED BY <3>1, <4>2
    <3>4. /\ Entries(d) /\ Tidy(d, Busy) /\ Image(d) \subseteq Image(c) /\ d.cached = c.cached \cup {r}
      BY <1>10, <3>3
    <3>5. Form(d, Busy, disk, mwc_tm)
      BY <1>8, <3>4 DEF Form
    <3>6. count.return = 0 => Logged(d, K, Busy, N, Lost)
      BY <1>10, <3>3
    <3>7. count.return = 0 => Book(d, InWrite, Busy, disk, mwc_tm, Lost)
      BY <1>3, <1>9, <3>2, <3>4, <3>6 DEF Book, K, N
    <3> QED BY <1>3, <3>2, <3>4, <3>5, <3>7
  <2>2. CASE ~NeedsCache(c, r)
    <3>1. d = c
      BY <2>2
    <3> HIDE DEF d
    <3> QED BY <1>3, <1>8, <1>9, <3>1
  <2> QED BY <2>1, <2>2

(* The cache after the step, and the requests in write as before.           *)
<1>12. ASSUME Form(g', Busy, disk, mwc_tm), \A q \in InWrite : g'.lb[q] = g.lb[q],
              UNCHANGED writing,
              count.return = 0 => Book(g', InWrite, Busy, disk, mwc_tm, Lost)
       PROVE  LogInv'
  <2>1. InWrite' = InWrite
    BY <1>12 DEF InWrite
  <2>2. (\A q \in InWrite : writing[q].live \subseteq Mirrors(g.lb[q]))'
    BY <1>12, <2>1 DEF LogInv
  <2> QED BY <1>0, <1>2, <1>12, <2>1, <2>2 DEF LogInv
<1>13. CASE NeedsCache(c, r) /\ ~IsHit(c, t) /\ g' = hd_ca_miss(c, r) /\ UNCHANGED writing
  <2>1. r \notin c.cached
    BY <1>13 DEF NeedsCache
  <2>2. Steady(c, g', InWrite)
    BY <1>1, <1>3, <1>13, <2>1, MissOK
  <2>3. \A q \in InWrite : g'.lb[q] = g.lb[q]
    BY <1>3, <2>2 DEF Steady
  <2>4. Tidy(c, Busy)
    BY <1>8 DEF Form
  <2>5. ASSUME NEW K0, NEW N0, NEW Lo0, Logged(c, K0, Busy, N0, Lo0), Busy = {} => missing \subseteq Lo0
        PROVE  /\ Entries(g') /\ Tidy(g', Busy) /\ Logged(g', K0, Busy, N0, Lo0)
               /\ Busy # {} => Image(g') \subseteq Image(c)
               /\ \A q \in g'.cached : q = r \/ q \in c.cached
    BY <1>1, <1>3, <1>8, <1>13, <2>1, <2>4, <2>5, MissLogged
  <2>6. /\ Entries(g') /\ Tidy(g', Busy) /\ (Busy # {} => Image(g') \subseteq Image(c))
        /\ \A q \in g'.cached : q = r \/ q \in c.cached
    BY <1>1, <1>10, <2>5
  <2>7. Busy = {} => missing \subseteq Lost
    <3>1. Busy = {} => \A p \in Pv : pv_pbuf[p] # "wheel"
      BY DEF Busy
    <3> QED BY <1>1, <3>1 DEF LogInv, Losses, Lost
  <2>8. count.return = 0 => Logged(g', K, Busy, N, Lost)
    BY <1>10, <2>5, <2>7
  <2>9. Form(g', Busy, disk, mwc_tm)
    BY <1>8, <2>6 DEF Form
  <2>10. count.return = 0 => Book(g', InWrite, Busy, disk, mwc_tm, Lost)
    BY <1>3, <1>9, <2>3, <2>6, <2>8 DEF Book, K, N
  <2> QED BY <1>12, <1>13, <2>3, <2>9, <2>10
<1>14. CASE /\ ~(NeedsCache(c, r) /\ ~IsHit(c, t)) /\ UNCHANGED writing
            /\ g' = [d EXCEPT !.pending_Q = <<r>> \o @] \/ g' = Returned(d, r)
  <2> HIDE DEF d
  <2>1. /\ Sound(d, InWrite, Busy) /\ Moves(d) /\ r \notin Queued(d) /\ d.lb = c.lb
        /\ Form(d, Busy, disk, mwc_tm) /\ d \in MemType /\ Tally(d) /\ Entries(d)
        /\ count.return = 0 => Book(d, InWrite, Busy, disk, mwc_tm, Lost)
    BY <1>11, <1>14 DEF Sound, Form
  <2>2. Eases(d, g', {}) /\ \A q \in InWrite : g'.lb[q] = d.lb[q]
    <3>1. CASE g' = Returned(d, r)
      <4>1. Eases(d, g', {})
        BY <1>1, <1>3, <2>1, <3>1, ReturnedEases
      <4>2. Leaves(d, g', InWrite \ {r})
        BY <1>1, <1>3, <2>1, <3>1, ReturnedOK
      <4> QED BY <1>3, <4>1, <4>2 DEF Leaves
    <3>2. CASE g' = [d EXCEPT !.pending_Q = <<r>> \o @]
      <4>1. /\ g'.flags = d.flags /\ g'.pvwrt = d.pvwrt /\ g'.ca_pv = d.ca_pv /\ g'.ca_lst = d.ca_lst
            /\ g'.cached = d.cached /\ g'.lb = d.lb
        BY <2>1, <3>2 DEF MemType
      <4> QED BY <4>1, PlainEases
    <3> QED BY <1>14, <3>1, <3>2
  <2>3. g' \in MemType
    BY DEF IInv, CacheInv, Sound
  <2>4. Form(g', Busy, disk, mwc_tm)
    BY <2>1, <2>2, <2>3, FormEases
  <2>5. count.return = 0 => Book(g', InWrite, Busy, disk, mwc_tm, Lost)
    <3>1. InWrite \in SUBSET InWrite /\ Lost \subseteq Lost
      OBVIOUS
    <3> HIDE DEF Lost
    <3> QED BY <2>1, <2>2, <3>1, BookEases
  <2> QED BY <1>3, <1>12, <1>14, <2>1, <2>2, <2>4, <2>5
<1>15. CASE /\ ~(NeedsCache(c, r) /\ ~IsHit(c, t)) /\ g' = d /\ Live(t) # Broken(t)
            /\ writing' = [writing EXCEPT ![r] = [live |-> Live(t), broken |-> Broken(t)]]
  <2>1. /\ Sound(g', InWrite, Busy) /\ r \notin Queued(g') /\ g'.lb = g.lb
        /\ Form(g', Busy, disk, mwc_tm)
        /\ count.return = 0 => Book(g', InWrite, Busy, disk, mwc_tm, Lost)
    BY <1>3, <1>11, <1>15
  <2>2. /\ InWrite' \subseteq InWrite \cup {r} /\ writing'[r] = [live |-> Live(t), broken |-> Broken(t)]
        /\ \A q \in InWrite : writing'[q] = writing[q]
    BY <1>1, <1>3, <1>15 DEF InWrite
  <2>3. Live(t) \subseteq Mirrors(t) /\ t = g'.lb[r] /\ t \in Tg
    BY <1>3, <1>5, <2>1 DEF Live, FreshIn
  <2>4. ~(Mirrors(t) \subseteq Lost)
    <3>1. PICK p \in Live(t) : p \notin missing
      <4>1. Broken(t) \subseteq Live(t)
        BY DEF Broken
      <4>2. PICK p \in Live(t) : p \notin Broken(t)
        BY <1>15, <4>1
      <4> QED BY <4>2 DEF Broken
    <3> QED BY <1>1, <2>3, <3>1
  <2>5. ASSUME count.return = 0, r \in g'.cached PROVE Named(disk, t, Mirrors(t) \ Lost)
    <3>1. WaitsFor(g', r) = {}
      BY <1>3, <2>1 DEF Queued, Waiting
    <3>2. t \in K
      BY <2>1, <2>3, <2>5, <3>1 DEF Book, Logged, K
    <3> QED BY <2>4, <3>2 DEF K, Knows
  <2> HIDE DEF d, t
  <2>6. \A q \in InWrite' : writing'[q].live \subseteq Mirrors(g'.lb[q])
    BY <2>1, <2>2, <2>3 DEF LogInv
  <2>7. count.return = 0 => Book(g', InWrite', Busy, disk, mwc_tm, Lost)
    BY <2>1, <2>2, <2>3, <2>5 DEF Book
  <2>8. Form(g, Busy, disk, mwc_tm)' /\ (count.return = 0 => Book(g, InWrite, Busy, disk, mwc_tm, Lost))'
    BY <1>0, <1>2, <2>1, <2>7
  <2>9. (\A q \in InWrite : writing[q].live \subseteq Mirrors(g.lb[q]))'
    BY <2>6
  <2> QED BY <1>0, <1>2, <2>8, <2>9 DEF LogInv
<1> QED BY <1>4, <1>13, <1>14, <1>15

LEMMA LogStep ==
  ASSUME IInv, Ledger, LogInv, IInv', [Next]_vars
  PROVE  LogInv'
<1>1. ASSUME NEW r \in Req, NEW t \in Tg, hd_strategy(r, t) PROVE LogInv'
  BY <1>1, StrategyLog
<1>2. CASE hd_parallel
  BY <1>2, ParallelLog
<1>3. CASE hd_schedule
  BY <1>3, ScheduleLog
<1>4. ASSUME NEW p \in Pv, CacheWritten(p) PROVE LogInv'
  BY <1>4, CacheWrittenLog
<1>5. ASSUME NEW p \in Pv, CacheFailed(p) PROVE LogInv'
  BY <1>5, CacheFailedLog
<1>6. ASSUME NEW p \in Pv, SaPvMissing(p) PROVE LogInv'
  BY <1>6, SaPvMissingLog
<1>7. ASSUME NEW p \in Pv, hd_kaddpv(p) PROVE LogInv'
  BY <1>7, KaddpvLog
<1>8. ASSUME NEW r \in Req, NEW E \in SUBSET Pv, hd_parwrite(r, E) PROVE LogInv'
  BY <1>8, ParwriteLog
<1>9. ASSUME NEW r \in Req, NEW M \in SUBSET MayFail, hd_staleppe(r, M) PROVE LogInv'
  BY <1>9, StaleppeLog
<1>10. ASSUME NEW l \in Lp, Resync(l) PROVE LogInv'
  BY <1>10, ResyncLog
<1>11. ASSUME NEW t \in Tg, NEW E \in SUBSET MayFail, hd_mwc_fprec(t, E) PROVE LogInv'
  <2>1. UNCHANGED <<g, writing, disk, mwc_tm, clock, pv_pbuf, missing, sa_miss, mode, count>>
    BY <1>11 DEF hd_mwc_fprec
  <2> QED BY <2>1, RecoveryLog
<1>12. CASE hd_ca_clnup
  BY <1>12, ClnupLog
<1>13. CASE CleanAwake
  BY <1>13, CleanAwakeLog
<1>14. CASE CleanWritten
  BY <1>14, CleanWrittenLog
<1>15. CASE Crash
  BY <1>15, CrashLog
<1>16. ASSUME NEW F \in SUBSET Pv, Varyon(F) PROVE LogInv'
  BY <1>16, VaryonLog
<1>17. ASSUME NEW t \in Tg, hd_disastrec(t) PROVE LogInv'
  <2>1. UNCHANGED <<g, writing, disk, mwc_tm, clock, pv_pbuf, missing, sa_miss, mode, count>>
    BY <1>17 DEF hd_disastrec, disks
  <2> QED BY <2>1, RecoveryLog
<1>18. CASE HD_MWC_REC
  <2>1. UNCHANGED <<g, writing, disk, mwc_tm, clock, pv_pbuf, missing, sa_miss, mode, count>>
    BY <1>18 DEF HD_MWC_REC, memory
  <2> QED BY <2>1, RecoveryLog
<1>19. CASE hd_kdis_initmwc
  BY <1>19, InitmwcLog
<1>20. CASE Cleared
  BY <1>20, ClearedLog
<1>21. CASE UNCHANGED vars
  <2>1. UNCHANGED <<g, writing, disk, mwc_tm, clock, pv_pbuf, missing, sa_miss, mode, count>>
    BY <1>21 DEF vars, memory, disks
  <2> QED BY <2>1, RecoveryLog
<1> QED BY <1>1, <1>2, <1>3, <1>4, <1>5, <1>6, <1>7, <1>8, <1>9, <1>10, <1>11, <1>12, <1>13, <1>14,
           <1>15, <1>16, <1>17, <1>18, <1>19, <1>20, <1>21 DEF Next

(* What is on the disks, together with the cache, holds at every moment.     *)
THEOREM HdMirCachLogInvariant == Spec => [](IInv /\ Ledger /\ LogInv)
<1>1. Init => IInv /\ Ledger /\ LogInv
  BY InitOK, InitLog
<1>2. IInv /\ Ledger /\ LogInv /\ [Next]_vars => (IInv /\ Ledger /\ LogInv)'
  <2>1. SUFFICES ASSUME IInv, Ledger, LogInv, [Next]_vars PROVE IInv' /\ Ledger' /\ LogInv'
    OBVIOUS
  <2>2. IInv' /\ Ledger'
    BY <2>1, StepOK, LedgerStep
  <2> QED BY <2>1, <2>2, LogStep
<1> QED BY <1>1, <1>2, PTL DEF Spec

(* Recorded: while the copies of a track group are being written for a       *)
(* request in the cache, the newest record on the disks names the track      *)
(* group, and so does that of every active disk that holds a copy to be      *)
(* written: hd_ca_ckcach lets the request through only when hd_ca_wend has    *)
(* ended the writes of the record, and neither a clean-up, a later record,   *)
(* a disk that fails nor a crash between two of the writes takes the number  *)
(* away before the request has returned.                                    *)
THEOREM HdMirCachRecorded == Spec => []Recorded
<1>1. IInv /\ Ledger /\ LogInv => Recorded
  <2>1. SUFFICES ASSUME IInv, Ledger, LogInv, NEW r \in g.cached, writing[r] # NULL, count.return = 0,
                        NEW p \in Newest(Pv) \cup (writing[r].live \ missing)
                 PROVE  g.lb[r] \in disk[p].ltgs
    BY DEF Recorded
  <2>2. g \in MemType /\ Entries(g) /\ (InWrite # {} => mode = "up") /\ (mode # "down" => Lost \subseteq missing)
    BY <2>1, LogFacts
  <2>3. r \in Req /\ r \in InWrite
    BY <2>1, <2>2, CacheFields DEF InWrite
  <2>4. Lost \subseteq missing
    BY <2>2, <2>3
  <2>5. Named(disk, g.lb[r], Mirrors(g.lb[r]) \ Lost)
    BY <2>1, <2>3 DEF LogInv, Book
  <2>6. writing[r].live \subseteq Mirrors(g.lb[r])
    BY <2>1, <2>3 DEF LogInv
  <2>7. disk \in [Pv -> Record]
    BY <2>1 DEF LogInv, Clocks, Timed
  <2>8. p \in NewestOf(disk) \cup (Mirrors(g.lb[r]) \ Lost)
    BY <2>4, <2>6 DEF Newest, NewestOf
  <2>9. p \in Pv
    <3>1. g.lb[r] \in Tg
      <4>1. Sound(g, InWrite, Busy)
        BY <2>1, LogFacts
      <4>2. g.lb[r] # NULL /\ g.lb \in [Req -> Tg \cup {NULL}]
        BY <4>1, <2>1, CacheFields DEF Sound, Places
      <4> QED BY <4>2, <2>3
    <3>2. Mirrors(g.lb[r]) \subseteq Pv
      BY <3>1, MirrorsOK
    <3> QED BY <2>8, <3>2 DEF NewestOf
  <2>10. ~Earlier(disk[p].tm, disk[p].tm)
    <3>1. disk[p].tm \in Nat \X Nat
      BY <2>7, <2>9 DEF Record
    <3> QED BY <3>1, EarlierOrder
  <2> QED BY <2>5, <2>8, <2>9, <2>10 DEF Named
<1> QED BY HdMirCachLogInvariant, <1>1, PTL

(* The copies (MirrorsAgree).  A partition has one track group: with two, a  *)
(* copy can be waiting to be recorded as stale for the one while a write of  *)
(* the other ends.                                                          *)
OneGroup == \A t, u \in Tg : Part[t] = Part[u] => t = u

Single(t, S) == \A p, q \in FreshIn(t, S) : p = q
Known(t) == t \in Knows(disk, Lost)

(* Types, and that a copy marked by a request on the wheel is stale.         *)
Kinds ==
  /\ torn \subseteq Tg /\ rcv \subseteq Tg /\ differ \subseteq Tg \X Pv
  /\ \A r \in Req : onwheel[r] # NULL => \A p \in onwheel[r].marked : <<Part[g.lb[r]], p>> \in stale

(* There is a good copy, and memory knows at least what the disks do.        *)
HasFresh(S) == \A t \in Tg : FreshIn(t, S) # {}
SomeFresh ==
  /\ HasFresh(sa_stale)
  /\ mode # "down" => HasFresh(stale) /\ sa_stale \subseteq stale

(* A copy that lacks a write is stale.                                      *)
Lacking == \A w \in differ : <<Part[w[1]], w[2]>> \in IF mode = "up" THEN stale ELSE sa_stale

(* A write of several copies is in the cache; one that fails on all good     *)
(* copies leaves one of them fresh.                                         *)
InFlight ==
  /\ \A r \in InWrite : r \in g.cached \/ \A p, q \in writing[r].live : p = q
  /\ \A r \in Req : onwheel[r] # NULL => (onwheel[r].err => Single(g.lb[r], stale))

(* A track group whose copies may differ has one good copy, or is going to   *)
(* be recovered.                                                            *)
Mended ==
  \A t \in torn :
    /\ mode = "up" => Single(t, sa_stale)
    /\ mode # "up" => Single(t, sa_stale) \/ Known(t)
    /\ mode = "recover" => Single(t, stale) \/ t \in rcv

Copying == SomeFresh /\ Lacking /\ InFlight /\ Mended
MirInv == Kinds /\ (count.off = 0 /\ count.return = 0 => Copying)

LEMMA FreshMono ==
  ASSUME NEW t, NEW S, NEW S2, S \subseteq S2
  PROVE  FreshIn(t, S2) \subseteq FreshIn(t, S) /\ (Single(t, S) => Single(t, S2))
BY DEF FreshIn, Single

LEMMA SingleCard ==
  ASSUME NEW t \in Tg, NEW S
  PROVE  /\ Single(t, S) <=> ~(Cardinality(FreshIn(t, S)) > 1)
         /\ FreshIn(t, S) # {} => (Single(t, S) <=> Cardinality(FreshIn(t, S)) = 1)
<1> DEFINE F == FreshIn(t, S)
<1>1. IsFiniteSet(F) /\ Cardinality(F) \in Nat
  <2>1. F \subseteq Mirrors(t) /\ IsFiniteSet(Mirrors(t))
    BY MirrorsOK DEF FreshIn
  <2> QED BY <2>1, FS_Subset, FS_CardinalityType
<1>2. (\A p, q \in F : p = q) => F = {} \/ \E p : F = {p}
  OBVIOUS
<1>3. F = {} => Cardinality(F) = 0
  BY FS_EmptySet
<1>4. \A p : F = {p} => Cardinality(F) = 1
  BY FS_Singleton
<1>5. Cardinality(F) = 0 => F = {}
  BY <1>1, FS_EmptySet
<1>6. Cardinality(F) = 1 => \E p : F = {p}
  BY <1>1, FS_Singleton
<1>7. Single(t, S) <=> \A p, q \in F : p = q
  BY DEF Single
<1> HIDE DEF F
<1>9. Single(t, S) <=> Cardinality(F) \in {0, 1}
  BY <1>1, <1>2, <1>3, <1>4, <1>5, <1>6, <1>7
<1> QED BY <1>1, <1>3, <1>5, <1>9 DEF F

LEMMA FirstIn ==
  ASSUME NEW t \in Tg, NEW S, S \cap Mirrors(t) # {}
  PROVE  FirstOf(t, S) \in S \cap Mirrors(t) /\ LastOf(t, S) \in S \cap Mirrors(t)
<1> DEFINE s == Copies[Part[t]]
           I == {i \in DOMAIN s : s[i] \in S}
<1>1. s \in Seq(Pv) /\ DOMAIN s = 1..Len(s) /\ Len(s) \in Nat
  BY CopiesAssumption
<1>2. Mirrors(t) = {s[i] : i \in 1..Len(s)}
  BY <1>1 DEF Mirrors, Range
<1>3. I # {} /\ I \in SUBSET (1..Len(s)) /\ I \in SUBSET Nat
  BY <1>1, <1>2
<1>4. Min(I) \in I
  <2> HIDE DEF I
  <2> QED BY <1>3, MinIn
<1>5. Max(I) \in I
  <2> HIDE DEF I
  <2> QED BY <1>1, <1>3, MaxIn
<1>6. FirstOf(t, S) = s[Min(I)] /\ LastOf(t, S) = s[Max(I)]
  BY DEF FirstOf, LastOf
<1> QED BY <1>1, <1>2, <1>4, <1>5, <1>6

(* Of the good copies of t but one is left.                                 *)
LEMMA OneLeft ==
  ASSUME OneGroup, NEW t \in Tg, NEW S, NEW gone, FreshIn(t, S) # {}
  PROVE  LET S2 == S \cup AllButOne(t, FreshIn(t, S), gone)
         IN  /\ Single(t, S2) /\ FreshIn(t, S2) # {}
             /\ \A u \in Tg : u # t => FreshIn(u, S2) = FreshIn(u, S)
<1> DEFINE F == FreshIn(t, S)
           x == IF F \ gone # {} THEN FirstOf(t, F \ gone) ELSE LastOf(t, F)
           A == AllButOne(t, F, gone)
<1>1. x \in F
  <2>1. F \subseteq Mirrors(t)
    BY DEF FreshIn
  <2> HIDE DEF F
  <2>2. CASE F \ gone # {}
    <3>1. FirstOf(t, F \ gone) \in F \ gone
      BY <2>1, <2>2, FirstIn
    <3> QED BY <3>1, <2>2
  <2>3. CASE F \ gone = {}
    <3>1. LastOf(t, F) \in F
      BY <2>1, FirstIn DEF F
    <3> QED BY <3>1, <2>3
  <2> QED BY <2>2, <2>3
<1>2. A = {<<Part[t], p>> : p \in F \ {x}}
  BY DEF AllButOne
<1> HIDE DEF x, A
<1>3. FreshIn(t, S \cup A) = {x}
  BY <1>1, <1>2 DEF FreshIn
<1>4. ASSUME NEW u \in Tg, u # t PROVE FreshIn(u, S \cup A) = FreshIn(u, S)
  BY <1>2, <1>4 DEF FreshIn, OneGroup
<1> QED BY <1>3, <1>4 DEF Single, A

(* A request in write stays cached, while the volume group is not forced off. *)
LEMMA MvHeldCached ==
  ASSUME NEW c \in MemType
  PROVE  hd_ca_mvhld(c).cached = c.cached
BY DEF hd_ca_mvhld, MemType

LEMMA ReturnedCached ==
  ASSUME NEW c, NEW B \in SUBSET Req, NEW D, Sound(c, B, D), Moves(c), NEW r \in Req, r \notin Queued(c)
  PROVE  \A q \in c.cached : q # r => q \in Returned(c, r).cached
<1> DEFINE e == IF r \in c.cached THEN hd_ca_term(c, r) ELSE c
<1>1. e \in MemType /\ \A q \in c.cached : q # r => q \in e.cached
  <2>1. CASE r \in c.cached
    <3>1. Sound(hd_ca_term(c, r), B, D) /\ hd_ca_term(c, r).cached = c.cached \ {r}
      BY <2>1, Term
    <3> QED BY <2>1, <3>1 DEF Sound
  <2>2. CASE r \notin c.cached
    BY <2>2 DEF Sound
  <2> QED BY <2>1, <2>2
<1>2. Returned(c, r) = [e EXCEPT !.lb[r] = NULL]
  BY DEF Returned
<1> HIDE DEF e
<1>3. Returned(c, r).cached = e.cached
  BY <1>1, <1>2 DEF MemType
<1> QED BY <1>1, <1>3

LEMMA WendCached ==
  ASSUME NEW c, NEW B \in SUBSET Req, NEW D, Sound(c, B, D), NEW p \in D, p \in Pv, ~ForcedOff(c)
  PROVE  hd_ca_wend(c, p).cached = c.cached
<1> DEFINE s == hd_ca_sked(c, p)
           d == [s EXCEPT !.ca_inflt_cnt = @ - 1]
           L == Written(d.ca_lst)
           last == [d EXCEPT !.ca_lst = L, !.flags = @ \ {"CA_INFLT"}]
           again == [last EXCEPT !.flags = @ \cup {"CA_INFLT"}]
<1>1. s \in MemType /\ s.cached = c.cached
  BY SkedOK DEF Sound
<1>2. hd_ca_wend(c, p) = d \/ hd_ca_wend(c, p) = again \/ hd_ca_wend(c, p) = hd_ca_mvhld(last)
  BY DEF hd_ca_wend
<1> HIDE DEF s
<1>3. d.cached = s.cached /\ d.ca_lst = s.ca_lst
  BY <1>1 DEF MemType
<1>4. L \in [1..ca_size -> Entry]
  BY <1>1, <1>3, CacheFields, WrittenSame
<1> HIDE DEF L
<1>5. last.cached = s.cached /\ again.cached = s.cached
  BY <1>1 DEF MemType
<1>6. hd_ca_mvhld(last).cached = last.cached
  BY <1>1 DEF MemType, hd_ca_mvhld
<1> QED BY <1>1, <1>2, <1>3, <1>5, <1>6

LEMMA HitCached ==
  ASSUME NEW c \in MemType, NEW r
  PROVE  hd_ca_hit(c, r).cached = c.cached \cup {r}
BY DEF hd_ca_hit, hd_ca_use, MemType

LEMMA MissCached ==
  ASSUME NEW c \in MemType, NEW r
  PROVE  c.cached \subseteq hd_ca_miss(c, r).cached
<1> DEFINE t == c.lb[r]
           known == t \in Image(c)
           i == IF known THEN EntryOf(c, t) ELSE Max(hd_ca_new(c))
           P == PvWaits(t)
           use == hd_ca_use(c, i, CleanEntry, "CATAIL")
           taken == IF known THEN c ELSE [use EXCEPT !.flags = @ \ {"CA_FULL"}]
           e == [tg |-> t, state |-> "CACHG", iocnt |-> IF known THEN c.ca_lst[i].iocnt + 1 ELSE 1]
           u == hd_ca_use(taken, IF known THEN i ELSE ca_size, e, "CAHEAD")
           v == hd_ca_pvque(u, r)
           w == [v EXCEPT !.flags = @ \cup {"CA_VGACT"}, !.cached = @ \cup {r}]
           h == Held(c, r)
<1>1. \/ hd_ca_miss(c, r) = h
      \/ hd_ca_miss(c, r) = [h EXCEPT !.flags = @ \cup {"CA_FULL"}]
      \/ hd_ca_miss(c, r) = [taken EXCEPT !.lb[r] = NULL]
      \/ hd_ca_miss(c, r) = Held(taken, r)
      \/ hd_ca_miss(c, r) = w
  BY DEF hd_ca_miss
<1> DEFINE Whole(x) == DOMAIN x = DOMAIN c /\ x.cached = c.cached
<1> HIDE DEF e, i, P, known
<1>2. "cached" \in DOMAIN c /\ Whole(c)
  BY DEF MemType
<1>3. Whole(use)
  BY <1>2 DEF hd_ca_use
<1> HIDE DEF use
<1>4. Whole(taken)
  BY <1>2, <1>3
<1> HIDE DEF taken
<1>5. Whole(u)
  BY <1>2, <1>4 DEF hd_ca_use
<1> HIDE DEF u
<1>6. Whole(v)
  BY <1>2, <1>5 DEF hd_ca_pvque
<1> HIDE DEF v
<1>7. w.cached = c.cached \cup {r}
  BY <1>2, <1>6
<1>8. Whole(h) /\ Whole(Held(taken, r))
  BY <1>2, <1>4 DEF Held
<1> HIDE DEF h, w
<1>9. [h EXCEPT !.flags = @ \cup {"CA_FULL"}].cached = c.cached /\ [taken EXCEPT !.lb[r] = NULL].cached = c.cached
  BY <1>2, <1>4, <1>8
<1> QED BY <1>1, <1>7, <1>8, <1>9

LEMMA CleanCached ==
  ASSUME NEW c \in MemType, Clean(c)
  PROVE  g'.cached = c.cached
<1> DEFINE P == IF \E i \in 1..ca_size : Unused(c.ca_lst[i]) THEN Pv \ missing ELSE {}
           L == CleanedList(c)
           d == [c EXCEPT !.ca_lst = L, !.pvwrt = P]
           e == [d EXCEPT !.flags = @ \ {"CA_INFLT"}]
<1>1. hd_ca_wrt(d) \/ g' = hd_ca_mvhld(e)
  BY DEF Clean
<1> DEFINE Whole(x) == DOMAIN x = DOMAIN c /\ x.cached = c.cached
<1> HIDE DEF P, L
<1>2. "cached" \in DOMAIN c
  BY DEF MemType
<1>3. Whole(d)
  BY <1>2
<1> HIDE DEF d
<1>4. hd_ca_wrt(d) => g'.cached = c.cached
  BY <1>2, <1>3 DEF hd_ca_wrt
<1>5. Whole(e)
  BY <1>2, <1>3
<1> HIDE DEF e
<1>6. hd_ca_mvhld(e).cached = c.cached
  BY <1>2, <1>5 DEF hd_ca_mvhld
<1> QED BY <1>1, <1>4, <1>6

Alone(r) == \A p, q \in writing[r].live : p = q

LEMMA KnownFrame ==
  ASSUME disk' = disk, Lost \subseteq Lost', NEW t, Known(t)
  PROVE  Known(t)'
<1>1. Knows(disk, Lost) \subseteq Knows(disk, Lost')
  BY KnowsMore
<1>2. Knows(disk, Lost)' = Knows(disk, Lost')
  BY DEF Knows
<1> QED BY <1>1, <1>2 DEF Known

(* A step that leaves the copies as they are.                               *)
LEMMA MirFrame ==
  ASSUME MirInv, UNCHANGED <<stale, sa_stale, differ, torn, mode, rcv, onwheel>>,
         \A r \in Req : onwheel[r] # NULL => g'.lb[r] = g.lb[r],
         count'.off = 0 /\ count'.return = 0 =>
           /\ count.off = 0 /\ count.return = 0
           /\ \A q \in InWrite' : q \in g'.cached \/ Alone(q)'
           /\ \A t \in torn : mode # "up" /\ ~Single(t, sa_stale) /\ Known(t) => Known(t)'
  PROVE  MirInv'
<1>1. Kinds'
  BY DEF MirInv, Kinds
<1>2. ASSUME count'.off = 0, count'.return = 0 PROVE Copying'
  <2>0. Copying
    BY <1>2 DEF MirInv
  <2>1. \A t : (Single(t, sa_stale) <=> Single(t, sa_stale)') /\ (Single(t, stale) <=> Single(t, stale)')
    BY DEF Single, FreshIn
  <2>2. (HasFresh(sa_stale) <=> HasFresh(sa_stale)') /\ (HasFresh(stale) <=> HasFresh(stale)')
    BY DEF HasFresh, FreshIn
  <2>3. SomeFresh' /\ Lacking'
    BY <2>0, <2>2 DEF Copying, SomeFresh, Lacking
  <2>4. InFlight'
    <3>1. \A r \in InWrite' : (r \in g.cached)' \/ Alone(r)'
      BY <1>2
    <3>2. ASSUME NEW r \in Req, onwheel[r] # NULL, onwheel[r].err PROVE Single(g.lb[r], stale)'
      <4>1. Single(g.lb[r], stale) /\ g'.lb[r] = g.lb[r]
        BY <2>0, <3>2 DEF Copying, InFlight
      <4> QED BY <4>1 DEF Single, FreshIn
    <3> QED BY <3>1, <3>2 DEF InFlight, Alone
  <2>5. Mended'
    BY <1>2, <2>0, <2>1 DEF Copying, Mended
  <2> QED BY <2>3, <2>4, <2>5 DEF Copying
<1> QED BY <1>1, <1>2 DEF MirInv

(* The requests in write that go on as they were.                           *)
LEMMA StillCached ==
  ASSUME MirInv, count.off = 0, count.return = 0, InWrite' \subseteq InWrite,
         \A q \in InWrite' : writing'[q] = writing[q] /\ (q \in g.cached => q \in g'.cached)
  PROVE  \A q \in InWrite' : q \in g'.cached \/ Alone(q)'
<1> SUFFICES ASSUME NEW q \in InWrite', q \notin g'.cached PROVE Alone(q)'
  OBVIOUS
<1>1. q \in InWrite /\ q \notin g.cached /\ writing'[q] = writing[q]
  OBVIOUS
<1>2. Alone(q)
  BY <1>1 DEF MirInv, Copying, InFlight, Alone
<1> QED BY <1>1, <1>2 DEF Alone

LEMMA StrategyMir ==
  ASSUME IInv, Ledger, LogInv, MirInv, NEW r \in Req, NEW t \in Tg, hd_strategy(r, t)
  PROVE  MirInv'
<1>1. CacheInv /\ Wheel /\ g \in MemType
  BY LogFacts DEF IInv
<1>2. /\ UNCHANGED <<stale, sa_stale, sa_miss, missing, differ, torn, mode, rcv, onwheel, writing, disk>>
      /\ count'.off = count.off /\ count'.return = count.return
      /\ mode = "up" /\ g' = [g EXCEPT !.lb[r] = t, !.pending_Q = Append(@, r)]
  BY DEF hd_strategy, disks, Ledger
<1>3. \A q \in Req : onwheel[q] # NULL => g'.lb[q] = g.lb[q]
  BY <1>1, StrategyCache, WheelWrites
<1>4. g'.cached = g.cached /\ InWrite' = InWrite
  BY <1>1, <1>2 DEF MemType, InWrite
<1>5. ASSUME count.off = 0, count.return = 0 PROVE \A q \in InWrite' : q \in g'.cached \/ Alone(q)'
  BY <1>2, <1>4, <1>5, StillCached
<1> QED BY <1>2, <1>3, <1>5, MirFrame

LEMMA ParallelCached ==
  ASSUME CacheInv, Wheel, hd_parallel
  PROVE  \A q \in InWrite' :
           \/ q \in InWrite /\ writing'[q] = writing[q] /\ (q \in g.cached => q \in g'.cached)
           \/ q \in g'.cached
           \/ Alone(q)'
<1> DEFINE r == Head(g.pending_Q)
           t == g.lb[r]
           c == [g EXCEPT !.pending_Q = Tail(@)]
           d == IF NeedsCache(c, r) THEN hd_ca_hit(c, r) ELSE c
<1>0. /\ Sound(g, InWrite, Busy) /\ Moves(g) /\ g.pending_Q # <<>>
      /\ InWrite \in SUBSET Req
      /\ writing \in [Req -> Issued \cup {NULL}]
  BY InWriteIn DEF CacheInv, hd_parallel, Wheel
<1>1. /\ Sound(c, InWrite, Busy) /\ Moves(c) /\ c.lb = g.lb /\ c.cached = g.cached
      /\ r \in Req /\ r \notin Queued(c) /\ r \notin InWrite /\ c.lb[r] \in Tg
  BY <1>0, Dequeue
<1>2. /\ \/ NeedsCache(c, r) /\ ~IsHit(c, t) /\ g' = hd_ca_miss(c, r) /\ UNCHANGED writing
         \/ ~(NeedsCache(c, r) /\ ~IsHit(c, t)) /\ g' = [d EXCEPT !.pending_Q = <<r>> \o @] /\ UNCHANGED writing
         \/ ~(NeedsCache(c, r) /\ ~IsHit(c, t)) /\ g' = Returned(d, r) /\ UNCHANGED writing
         \/ /\ ~(NeedsCache(c, r) /\ ~IsHit(c, t)) /\ g' = d
            /\ writing' = [writing EXCEPT ![r] = [live |-> Live(t), broken |-> Broken(t)]]
  BY DEF hd_parallel
<1>3. t = c.lb[r] /\ t \in Tg
  BY <1>1
<1> HIDE DEF c, r, t
<1>4. c \in MemType /\ d = IF NeedsCache(c, r) THEN hd_ca_hit(c, r) ELSE c
  BY <1>1 DEF Sound
<1>5. ~(NeedsCache(c, r) /\ ~IsHit(c, t)) =>
        /\ Sound(d, InWrite, Busy) /\ Moves(d) /\ r \notin Queued(d)
        /\ d.cached = IF NeedsCache(c, r) THEN c.cached \cup {r} ELSE c.cached
  <2>1. SUFFICES ASSUME ~(NeedsCache(c, r) /\ ~IsHit(c, t))
                 PROVE  /\ Sound(d, InWrite, Busy) /\ Moves(d) /\ r \notin Queued(d)
                        /\ d.cached = IF NeedsCache(c, r) THEN c.cached \cup {r} ELSE c.cached
    OBVIOUS
  <2>2. CASE NeedsCache(c, r)
    <3>1. d = hd_ca_hit(c, r) /\ c.lb[r] \in Image(c) /\ r \notin c.cached
      BY <2>1, <2>2, <1>3 DEF IsHit, NeedsCache
    <3> HIDE DEF d
    <3>2. Sound(d, InWrite, Busy) /\ Moves(d) /\ Queued(d) = Queued(c)
      BY <1>0, <1>1, <3>1, HitOK
    <3>3. d.cached = c.cached \cup {r}
      BY <1>4, <3>1, HitCached
    <3> QED BY <1>1, <2>2, <3>2, <3>3
  <2>3. CASE ~NeedsCache(c, r)
    BY <1>1, <2>3
  <2> QED BY <2>2, <2>3
<1> HIDE DEF d
<1>6. CASE UNCHANGED writing /\ g' = hd_ca_miss(c, r)
  <2>1. g.cached \subseteq g'.cached
    BY <1>1, <1>4, <1>6, MissCached
  <2> QED BY <1>6, <2>1 DEF InWrite
<1>7. CASE UNCHANGED writing /\ ~(NeedsCache(c, r) /\ ~IsHit(c, t)) /\ g' = [d EXCEPT !.pending_Q = <<r>> \o @]
  <2>1. g'.cached = d.cached
    BY <1>5, <1>7 DEF Sound, MemType
  <2> QED BY <1>1, <1>5, <1>7, <2>1 DEF InWrite
<1>8. CASE UNCHANGED writing /\ ~(NeedsCache(c, r) /\ ~IsHit(c, t)) /\ g' = Returned(d, r)
  <2>1. \A q \in d.cached : q # r => q \in g'.cached
    BY <1>0, <1>1, <1>5, <1>8, ReturnedCached
  <2> QED BY <1>1, <1>5, <1>8, <2>1 DEF InWrite
<1>9. CASE /\ ~(NeedsCache(c, r) /\ ~IsHit(c, t)) /\ g' = d
           /\ writing' = [writing EXCEPT ![r] = [live |-> Live(t), broken |-> Broken(t)]]
  <2>1. writing'[r].live = Live(t) /\ \A q \in Req : q # r => writing'[q] = writing[q]
    BY <1>0, <1>1, <1>9
  <2>2. r \in d.cached \/ ~(Cardinality(Live(t)) > 1)
    BY <1>3, <1>5, <1>9 DEF NeedsCache
  <2>3. ~(Cardinality(Live(t)) > 1) => \A p, q \in writing'[r].live : p = q
    <3>1. ~(Cardinality(Live(t)) > 1) => Single(t, stale \ chging)
      BY <1>3, SingleCard DEF Live
    <3> QED BY <2>1, <3>1 DEF Single, Live
  <2>4. g.cached \subseteq d.cached
    BY <1>1, <1>5, <1>9
  <2>5. InWrite' \subseteq InWrite \cup {r}
    BY <2>1 DEF InWrite
  <2>6. \A q \in InWrite' : q # r => q \in InWrite /\ writing'[q] = writing[q]
    BY <1>0, <2>1, <2>5
  <2>7. ASSUME NEW q \in InWrite', q = r PROVE q \in g'.cached \/ Alone(q)'
    BY <1>9, <2>2, <2>3, <2>7 DEF Alone
  <2> QED BY <1>9, <2>4, <2>6, <2>7
<1> QED BY <1>2, <1>6, <1>7, <1>8, <1>9

LEMMA ParallelMir ==
  ASSUME IInv, Ledger, LogInv, MirInv, hd_parallel
  PROVE  MirInv'
<1>1. CacheInv /\ Wheel /\ Control
  BY DEF IInv
<1>2. /\ UNCHANGED <<stale, sa_stale, differ, torn, mode, rcv, onwheel, count>>
  BY DEF hd_parallel, disks
<1>3. mode = "up"
  BY <1>1, ParallelUp DEF Control
<1>4. \A q \in Req : onwheel[q] # NULL => g'.lb[q] = g.lb[q]
  BY <1>1, ParallelCache, WheelWrites DEF Steady
<1>5. ASSUME count.off = 0, count.return = 0, NEW q \in InWrite' PROVE q \in g'.cached \/ Alone(q)'
  <2>1. CASE q \in InWrite /\ writing'[q] = writing[q] /\ (q \in g.cached => q \in g'.cached)
    <3>1. q \in g.cached \/ Alone(q)
      BY <1>5, <2>1 DEF MirInv, Copying, InFlight, Alone
    <3> QED BY <2>1, <3>1 DEF Alone
  <2>2. CASE q \in g'.cached \/ Alone(q)'
    BY <2>2
  <2> QED BY <1>1, <2>1, <2>2, ParallelCached
<1> QED BY <1>2, <1>3, <1>4, <1>5, MirFrame

(* A step of the cache alone.                                               *)
LEMMA CacheMir ==
  ASSUME IInv, MirInv, UNCHANGED <<stale, sa_stale, differ, torn, mode, rcv, onwheel, writing>>,
         \A q \in InWrite : g'.lb[q] = g.lb[q],
         count'.off = 0 /\ count'.return = 0 =>
           /\ count.off = 0 /\ count.return = 0 /\ g.cached \subseteq g'.cached
           /\ sa_miss \subseteq sa_miss'
           /\ disk' = disk \/ mode = "up" \/ (mode = "recover" /\ rcv = {} /\ stale = sa_stale)
  PROVE  MirInv'
<1>1. Wheel
  BY DEF IInv
<1>2. \A q \in Req : onwheel[q] # NULL => g'.lb[q] = g.lb[q]
  BY <1>1, WheelWrites
<1>3. InWrite' = InWrite
  BY DEF InWrite
<1>4. ASSUME count'.off = 0, count'.return = 0
      PROVE  /\ count.off = 0 /\ count.return = 0
             /\ \A q \in InWrite' : q \in g'.cached \/ Alone(q)'
             /\ \A t \in torn : mode # "up" /\ ~Single(t, sa_stale) /\ Known(t) => Known(t)'
  <2>1. count.off = 0 /\ count.return = 0 /\ g.cached \subseteq g'.cached /\ sa_miss \subseteq sa_miss'
    BY <1>4
  <2>2. \A q \in InWrite' : q \in g'.cached \/ Alone(q)'
    BY <1>3, <2>1, StillCached
  <2>3. ASSUME NEW t \in torn, mode # "up", ~Single(t, sa_stale), Known(t) PROVE Known(t)'
    <3>1. CASE disk' = disk
      <4>1. Lost \subseteq Lost'
        BY <1>4, <2>1 DEF Lost
      <4> QED BY <2>3, <3>1, <4>1, KnownFrame
    <3>2. CASE mode = "recover" /\ rcv = {} /\ stale = sa_stale
      <4>1. Single(t, stale) \/ t \in rcv
        BY <2>1, <2>3, <3>2 DEF MirInv, Copying, Mended
      <4> QED BY <2>3, <3>2, <4>1
    <3> QED BY <1>4, <2>3, <3>1, <3>2
  <2> QED BY <2>1, <2>2, <2>3
<1> QED BY <1>2, <1>4, MirFrame

LEMMA ScheduleMir ==
  ASSUME IInv, Ledger, LogInv, MirInv, hd_schedule
  PROVE  MirInv'
<1>1. /\ UNCHANGED <<stale, sa_stale, sa_miss, differ, torn, mode, rcv, onwheel, writing, disk, count>>
      /\ g' = g \/ g' = [g EXCEPT !.flags = (@ \ {"CA_VGACT"}) \cup {"CA_INFLT"},
                          !.ca_inflt_cnt = @ + Cardinality(g.pvwrt), !.pvwrt = {}]
  BY DEF hd_schedule, disks, hd_ca_wrt
<1>2. g \in MemType
  BY LogFacts
<1>3. g'.cached = g.cached /\ g'.lb = g.lb
  BY <1>1, <1>2 DEF MemType
<1> QED BY <1>1, <1>3, CacheMir

(* The end of the write of a record.                                        *)
LEMMA WendMir ==
  ASSUME IInv, Ledger, LogInv, NEW p \in Pv, pv_pbuf[p] # "idle", g' = hd_ca_wend(g, p)
  PROVE  /\ \A q \in InWrite : g'.lb[q] = g.lb[q]
         /\ count.off = 0 => g'.cached = g.cached
         /\ mode = "up" \/ (mode = "recover" /\ rcv = {} /\ stale = sa_stale)
<1>1. /\ Sound(g, InWrite, Busy) /\ InWrite \in SUBSET Req /\ Busy \in SUBSET Pv /\ p \in Busy
      /\ mode # "down" /\ Control /\ Recording
  BY LogFacts DEF Busy, IInv
<1>2. \A q \in InWrite : g'.lb[q] = g.lb[q]
  BY <1>1, WendOK DEF Follows
<1>3. ASSUME count.off = 0 PROVE g'.cached = g.cached
  <2>1. ~ForcedOff(g)
    BY <1>1, <1>3 DEF Recording
  <2> QED BY <1>1, <2>1, WendCached
<1>4. "CA_INFLT" \in g.flags
  BY <1>1 DEF Sound, Flow
<1>5. mode = "up" \/ (mode = "recover" /\ proc # "none")
  BY <1>1, <1>4 DEF Control
<1>6. mode = "recover" /\ proc # "none" => rcv = {} /\ stale = sa_stale
  BY <1>1 DEF Recording
<1> QED BY <1>2, <1>3, <1>5, <1>6

LEMMA CacheWrittenMir ==
  ASSUME IInv, Ledger, LogInv, MirInv, NEW p \in Pv, CacheWritten(p)
  PROVE  MirInv'
<1>1. /\ pv_pbuf[p] # "idle" /\ g' = hd_ca_wend(g, p)
      /\ UNCHANGED <<stale, sa_stale, sa_miss, differ, torn, mode, rcv, onwheel, writing, count>>
  BY DEF CacheWritten
<1> QED BY <1>1, WendMir, CacheMir

LEMMA CacheFailedMir ==
  ASSUME IInv, Ledger, LogInv, MirInv, NEW p \in Pv, CacheFailed(p)
  PROVE  MirInv'
<1>1. /\ pv_pbuf[p] # "idle" /\ (UNCHANGED g \/ g' = hd_ca_wend(g, p))
      /\ UNCHANGED <<stale, sa_stale, sa_miss, differ, torn, mode, rcv, onwheel, writing, disk, count>>
  BY DEF CacheFailed, disks
<1>2. (\A q \in InWrite : g'.lb[q] = g.lb[q]) /\ (count.off = 0 => g'.cached = g.cached)
  BY <1>1, WendMir
<1> QED BY <1>1, <1>2, CacheMir

LEMMA SaPvMissingMir ==
  ASSUME IInv, Ledger, LogInv, MirInv, NEW p \in Pv, SaPvMissing(p)
  PROVE  MirInv'
<1> DEFINE c == Checked(g, missing)
<1>1. /\ pv_pbuf[p] # "idle" /\ g' = hd_ca_wend(c, p) /\ count' = CountOff(missing)
      /\ sa_miss' = IF Quorate(missing) THEN sa_miss \cup {p} ELSE sa_miss
      /\ UNCHANGED <<stale, sa_stale, differ, torn, mode, rcv, onwheel, writing, disk>>
  BY DEF SaPvMissing
<1>2. CacheInv /\ p \in Busy /\ InWrite \in SUBSET Req /\ Busy \in SUBSET Pv
  BY <1>1, LogFacts DEF IInv, Busy
<1>3. \A q \in InWrite : g'.lb[q] = g.lb[q]
  <2>1. Sound(c, InWrite, Busy) /\ \A q \in Req : c.lb[q] = g.lb[q]
    BY <1>2, CheckedOK DEF Follows
  <2> HIDE DEF c
  <2>2. \A q \in InWrite : g'.lb[q] = c.lb[q]
    BY <1>1, <1>2, <2>1, WendOK DEF Follows
  <2> QED BY <1>2, <2>1, <2>2
<1>4. ASSUME count'.off = 0, count'.return = 0
      PROVE  count.off = 0 /\ count.return = 0 /\ g'.cached = g.cached
  <2>1. Quorate(missing) /\ count.off = 0 /\ count.return = 0
    BY <1>1, <1>4 DEF CountOff, Ledger
  <2>2. c = g
    BY <2>1 DEF Checked
  <2> QED BY <1>1, <2>1, <2>2, WendMir
<1> QED BY <1>1, <1>3, <1>4, CacheMir

LEMMA KaddpvMir ==
  ASSUME IInv, Ledger, LogInv, MirInv, NEW p \in Pv, hd_kaddpv(p)
  PROVE  MirInv'
<1>1. /\ UNCHANGED <<stale, sa_stale, differ, torn, mode, rcv, onwheel, writing, disk, g>>
      /\ count'.return = count.return + 1 /\ count.return \in Nat
  BY DEF hd_kaddpv, Ledger
<1> QED BY <1>1, CacheMir

LEMMA ClnupMir ==
  ASSUME IInv, Ledger, LogInv, MirInv, hd_ca_clnup
  PROVE  MirInv'
<1> DEFINE c == [g EXCEPT !.flags = @ \cup {"CA_INFLT"}]
<1>1. CacheInv /\ Control /\ g \in MemType
  BY LogFacts DEF IInv
<1>2. /\ mode = "up" /\ lock = "free"
      /\ \/ UNCHANGED g
         \/ "CA_INFLT" \notin g.flags /\ Clean(c)
      /\ UNCHANGED <<writing, onwheel, stale, sa_stale, sa_miss, differ, torn, mode, rcv, disk>>
      /\ count'.off = count.off /\ count'.return = count.return
  BY DEF hd_ca_clnup, disks, Ledger
<1>3. CASE UNCHANGED g
  BY <1>2, <1>3, CacheMir
<1>4. CASE "CA_INFLT" \notin g.flags /\ Clean(c)
  <2>1. Busy = {} /\ "CA_VGACT" \notin g.flags /\ pv_pbuf \in [Pv -> {"idle", "writing", "wheel"}]
    BY <1>1, <1>2, <1>4 DEF CacheInv, Sound, Flow, Control
  <2>2. /\ Sound(c, InWrite, {}) /\ "CA_VGACT" \notin c.flags
        /\ Follows(g, c, g.flags \cup {"CA_INFLT"}, Req)
    BY <1>1, <2>1, ReservedOK
  <2>3. c.cached = g.cached
    BY <1>1 DEF MemType
  <2> HIDE DEF c
  <2>4. \A q \in InWrite : g'.lb[q] = c.lb[q]
    BY <1>2, <1>4, <2>1, <2>2, CleanCache DEF Follows
  <2>5. \A q \in InWrite : g'.lb[q] = g.lb[q]
    BY <2>2, <2>4, InWriteIn DEF Follows
  <2>6. g'.cached = g.cached
    BY <1>4, <2>2, <2>3, CleanCached DEF Sound
  <2> QED BY <1>2, <2>5, <2>6, CacheMir
<1> QED BY <1>2, <1>3, <1>4

LEMMA CleanAwakeMir ==
  ASSUME IInv, Ledger, LogInv, MirInv, CleanAwake
  PROVE  MirInv'
<1>1. CacheInv /\ Control /\ g \in MemType
  BY LogFacts DEF IInv
<1>2. /\ lock = "free" /\ proc = "awake" /\ Clean(g)
      /\ UNCHANGED <<writing, onwheel, stale, sa_stale, sa_miss, differ, torn, mode, rcv, disk, count>>
  BY DEF CleanAwake, disks
<1>3. /\ "CA_VGACT" \notin g.flags /\ pv_pbuf \in [Pv -> {"idle", "writing", "wheel"}]
      /\ Busy = {} /\ Sound(g, InWrite, {})
  BY <1>1, <1>2 DEF Control, CacheInv
<1>4. \A q \in InWrite : g'.lb[q] = g.lb[q]
  BY <1>2, <1>3, CleanCache DEF Follows
<1>5. g'.cached = g.cached
  BY <1>1, <1>2, CleanCached
<1> QED BY <1>2, <1>4, <1>5, CacheMir

LEMMA CleanWrittenMir ==
  ASSUME IInv, Ledger, LogInv, MirInv, CleanWritten
  PROVE  MirInv'
<1> DEFINE c == [g EXCEPT !.flags = @ \ {"CA_INFLT"}]
<1>1. CacheInv /\ Control /\ g \in MemType
  BY LogFacts DEF IInv
<1>2. /\ proc = "written" /\ g' = hd_ca_mvhld(c)
      /\ UNCHANGED <<writing, onwheel, stale, sa_stale, sa_miss, differ, torn, mode, rcv, disk, count>>
  BY DEF CleanWritten, disks
<1>3. \A q \in InWrite : g'.lb[q] = g.lb[q]
  BY <1>1, <1>2, CleanWrittenCache DEF Follows, Control
<1>4. g'.cached = g.cached
  <2>1. c.cached = g.cached /\ c \in MemType
    BY <1>1 DEF MemType
  <2> HIDE DEF c
  <2> QED BY <1>2, <2>1, MvHeldCached
<1> QED BY <1>2, <1>3, <1>4, CacheMir

LEMMA InitmwcMir ==
  ASSUME IInv, Ledger, LogInv, MirInv, hd_kdis_initmwc
  PROVE  MirInv'
<1>1. /\ UNCHANGED <<writing, onwheel, stale, sa_stale, sa_miss, differ, torn, mode, rcv, disk, count>>
      /\ hd_ca_wrt([g EXCEPT !.pvwrt = Pv \ missing])
  BY DEF hd_kdis_initmwc, disks
<1>2. g \in MemType
  BY LogFacts
<1>3. g'.cached = g.cached /\ g'.lb = g.lb
  BY <1>1, <1>2 DEF MemType, hd_ca_wrt
<1> QED BY <1>1, <1>3, CacheMir

(* Of the copies of t that hd_stalepp marks one stays fresh; only one, if    *)
(* all that were fresh are bad.                                             *)
LEMMA MarkLeft ==
  ASSUME OneGroup, NEW t \in Tg, NEW live, NEW mirbad, FreshIn(t, stale) \subseteq live, FreshIn(t, stale) # {}
  PROVE  LET S2 == stale \cup {<<Part[t], p>> : p \in Marked(t, live, mirbad)}
         IN  /\ FreshIn(t, S2) # {}
             /\ FreshIn(t, stale) \cap live \subseteq mirbad => Single(t, S2)
             /\ \A u \in Tg : u # t => FreshIn(u, S2) = FreshIn(u, stale)
<1> DEFINE F == FreshIn(t, stale)
           B == Marked(t, live, mirbad)
           S2 == stale \cup {<<Part[t], p>> : p \in B}
           A == ActMir(t, live)
<1>1. F \subseteq Mirrors(t) /\ F # {} /\ live \cap F = F
  BY DEF FreshIn
<1>2. \E x \in F : A = {x}
  <2> DEFINE G == IF F \ missing # {} THEN F \ missing ELSE F
  <2>1. A = {FirstOf(t, G)}
    BY <1>1 DEF ActMir
  <2> HIDE DEF F, A
  <2>2. G \subseteq F /\ G \cap Mirrors(t) # {}
    BY <1>1
  <2> HIDE DEF G
  <2>3. FirstOf(t, G) \in G
    BY <2>2, FirstIn
  <2> QED BY <2>1, <2>2, <2>3
<1>3. PICK x \in F : A = {x}
  BY <1>2
<1>4. B = IF F \cap live \subseteq mirbad THEN mirbad \ A ELSE mirbad
  BY DEF Marked
<1> HIDE DEF A, B
<1>5. FreshIn(t, S2) = F \ B
  BY DEF FreshIn
<1>6. ASSUME NEW u \in Tg, u # t PROVE FreshIn(u, S2) = FreshIn(u, stale)
  BY <1>6 DEF FreshIn, OneGroup
<1> HIDE DEF F, S2
<1>7. F \cap live \subseteq mirbad => F \ B = {x}
  BY <1>1, <1>3, <1>4
<1>8. F \ B # {}
  BY <1>1, <1>3, <1>4
<1> QED BY <1>5, <1>6, <1>7, <1>8 DEF F, S2, B, Single

(* A request that ends.                                                     *)
LEMMA EndsMir ==
  ASSUME IInv, Ledger, LogInv, MirInv, NEW r \in InWrite, NEW M, NEW err, NEW bad, NEW marked,
         NEW c, c = g \/ c = Checked(g, M), hd_finished(c, r, err, bad, marked),
         lock' = "schedule", UNCHANGED <<pv_pbuf, mode, proc>>
  PROVE  /\ g.lb[r] \in Tg /\ mode = "up"
         /\ InWrite' = InWrite \ {r}
         /\ \A q \in Req : onwheel'[q] # NULL =>
              q \in InWrite \ {r} /\ onwheel'[q] = onwheel[q] /\ g'.lb[q] = g.lb[q]
         /\ differ' = differ \cup ({g.lb[r]} \X (Mirrors(g.lb[r]) \ FreshIn(g.lb[r], marked)))
         /\ torn' = IF err /\ ~Single(g.lb[r], marked) THEN torn \cup {g.lb[r]} ELSE torn
         /\ torn' \subseteq Tg /\ differ' \subseteq Tg \X Pv
         /\ count.off = 0 /\ count.return = 0 /\ c = g => \A q \in InWrite' : q \in g'.cached \/ Alone(q)'
<1> DEFINE t == g.lb[r]
<1>1. CacheInv /\ Control /\ Wheel /\ InWrite \in SUBSET Req /\ Sound(g, InWrite, Busy) /\ Moves(g) /\ Kinds
  BY LogFacts DEF IInv, MirInv
<1>2. Ends(c, r, err, bad)
  BY DEF hd_finished, Ends
<1>3. /\ InWrite' = InWrite \ {r} /\ mode = "up" /\ c.lb[r] = g.lb[r]
      /\ \A q \in InWrite \ {r} : g'.lb[q] = g.lb[q] /\ writing'[q] = writing[q]
  BY <1>1, <1>2, FinishedStep
<1>4. t \in Tg /\ r \in Req
  <2>1. g.lb[r] # NULL /\ g.lb \in [Req -> Tg \cup {NULL}]
    BY <1>1, CacheFields DEF Sound, Places
  <2> QED BY <1>1, <2>1
<1>5. /\ g' = Returned(c, r) /\ onwheel' = [onwheel EXCEPT ![r] = NULL]
      /\ differ' = differ \cup ({t} \X (Mirrors(t) \ FreshIn(t, marked)))
      /\ torn' = IF err /\ Cardinality(FreshIn(t, marked)) > 1 THEN torn \cup {t} ELSE torn
  BY <1>3 DEF hd_finished
<1> HIDE DEF t
<1>6. ASSUME NEW q \in Req, onwheel'[q] # NULL
      PROVE  q \in InWrite \ {r} /\ onwheel'[q] = onwheel[q] /\ g'.lb[q] = g.lb[q]
  <2>1. q # r /\ onwheel'[q] = onwheel[q]
    BY <1>1, <1>4, <1>5, <1>6 DEF Wheel
  <2>2. q \in InWrite
    BY <1>1, <1>6, <2>1, WheelWrites
  <2> QED BY <1>3, <2>1, <2>2
<1>7. torn' = IF err /\ ~Single(t, marked) THEN torn \cup {t} ELSE torn
  <2>1. Single(t, marked) <=> ~(Cardinality(FreshIn(t, marked)) > 1)
    BY <1>4, SingleCard
  <2> QED BY <1>5, <2>1
<1>8. torn' \subseteq Tg /\ differ' \subseteq Tg \X Pv
  <2>1. Mirrors(t) \subseteq Pv
    BY <1>4, MirrorsOK
  <2> HIDE DEF Mirrors
  <2>2. torn' \subseteq Tg
    BY <1>1, <1>4, <1>5 DEF Kinds
  <2>3. {t} \X (Mirrors(t) \ FreshIn(t, marked)) \subseteq Tg \X Pv
    BY <1>4, <2>1
  <2> QED BY <1>1, <1>5, <2>2, <2>3 DEF Kinds
<1>9. ASSUME count.off = 0, count.return = 0, c = g PROVE \A q \in InWrite' : q \in g'.cached \/ Alone(q)'
  <2>1. r \notin Queued(g)
    BY <1>1 DEF Sound, Places
  <2>2. \A q \in g.cached : q # r => q \in g'.cached
    BY <1>1, <1>4, <1>5, <1>9, <2>1, ReturnedCached
  <2> QED BY <1>3, <1>9, <2>2, StillCached
<1> QED BY <1>3, <1>4, <1>5, <1>6, <1>7, <1>8, <1>9 DEF t

LEMMA Lacks ==
  ASSUME NEW t, NEW S
  PROVE  \A w \in {t} \X (Mirrors(t) \ FreshIn(t, S)) : <<Part[w[1]], w[2]>> \in S
<1> SUFFICES ASSUME NEW w \in {t} \X (Mirrors(t) \ FreshIn(t, S)) PROVE <<Part[w[1]], w[2]>> \in S
  OBVIOUS
<1>1. w[1] = t /\ w[2] \in Mirrors(t) /\ w[2] \notin FreshIn(t, S)
  OBVIOUS
<1> QED BY <1>1 DEF FreshIn

LEMMA StaleppeMir ==
  ASSUME IInv, Ledger, LogInv, MirInv, NEW r \in Req, NEW M \in SUBSET MayFail, hd_staleppe(r, M)
  PROVE  MirInv'
<1> DEFINE t == g.lb[r]
           w == onwheel[r]
           gone == missing \cup M
           copies == {<<Part[t], p>> : p \in w.marked}
           c == Checked(g, gone)
           e == w.err \/ ~Quorate(gone)
<1>1. /\ w # NULL /\ lock' = "schedule" /\ hd_finished(c, r, e, w.bad, stale)
      /\ sa_stale' = IF Quorate(gone) THEN sa_stale \cup copies ELSE sa_stale
      /\ count' = CountOff(gone)
      /\ UNCHANGED <<pv_pbuf, proc, stale, mode, rcv>>
  BY DEF hd_staleppe
<1>2. r \in InWrite /\ Kinds
  BY <1>1, WheelWrites DEF IInv, MirInv
<1>3. c = Checked(g, gone) /\ t = g.lb[r] /\ w = onwheel[r]
  OBVIOUS
<1>4. copies \subseteq stale
  BY <1>1, <1>2 DEF Kinds
<1>5. Quorate(gone) => c = g /\ (e <=> w.err)
  BY DEF Checked
<1> HIDE DEF c, e, gone, t, w, copies
<1>6. /\ t \in Tg /\ mode = "up" /\ InWrite' = InWrite \ {r}
      /\ \A q \in Req : onwheel'[q] # NULL =>
           q \in InWrite \ {r} /\ onwheel'[q] = onwheel[q] /\ g'.lb[q] = g.lb[q]
      /\ differ' = differ \cup ({t} \X (Mirrors(t) \ FreshIn(t, stale)))
      /\ torn' = IF e /\ ~Single(t, stale) THEN torn \cup {t} ELSE torn
      /\ torn' \subseteq Tg /\ differ' \subseteq Tg \X Pv
      /\ count.off = 0 /\ count.return = 0 /\ c = g => \A q \in InWrite' : q \in g'.cached \/ Alone(q)'
  BY <1>1, <1>2, <1>3, EndsMir
<1>7. Kinds'
  <2>1. rcv' \subseteq Tg
    BY <1>1, <1>2 DEF Kinds
  <2>2. ASSUME NEW q \in Req, onwheel'[q] # NULL, NEW p \in onwheel'[q].marked PROVE <<Part[g'.lb[q]], p>> \in stale'
    BY <1>1, <1>2, <1>6, <2>2 DEF Kinds
  <2> QED BY <1>6, <2>1, <2>2 DEF Kinds
<1>8. ASSUME count'.off = 0, count'.return = 0 PROVE Copying'
  <2>1. Quorate(gone) /\ count.off = 0 /\ count.return = 0
    BY <1>1, <1>8 DEF CountOff, Ledger
  <2>2. Copying
    BY <2>1 DEF MirInv
  <2>3. sa_stale' = sa_stale \cup copies /\ sa_stale' \subseteq stale /\ HasFresh(stale)
    BY <1>1, <1>4, <1>6, <2>1, <2>2 DEF Copying, SomeFresh
  <2>4. HasFresh(sa_stale')
    BY <2>3, FreshMono DEF HasFresh
  <2>5. SomeFresh'
    BY <1>1, <2>3, <2>4 DEF SomeFresh, HasFresh, FreshIn
  <2>6. \A x \in differ' : <<Part[x[1]], x[2]>> \in stale
    BY <1>6, <2>2, Lacks DEF Copying, Lacking
  <2>7. Lacking'
    BY <1>1, <1>6, <2>6 DEF Lacking
  <2>8. ASSUME NEW q \in Req, onwheel'[q] # NULL, onwheel'[q].err PROVE Single(g.lb[q], stale)'
    <3>1. Single(g.lb[q], stale) /\ g'.lb[q] = g.lb[q]
      BY <1>6, <2>2, <2>8 DEF Copying, InFlight
    <3> QED BY <1>1, <3>1 DEF Single, FreshIn
  <2>9. InFlight'
    BY <1>5, <1>6, <2>1, <2>8 DEF InFlight, Alone
  <2>10. torn' = torn
    <3>1. w.err => Single(t, stale)
      BY <1>1, <1>3, <2>2 DEF Copying, InFlight
    <3> QED BY <1>5, <1>6, <2>1, <3>1
  <2>11. \A u \in torn : Single(u, sa_stale')
    BY <1>6, <2>2, <2>3, FreshMono DEF Copying, Mended
  <2>12. Mended'
    BY <1>1, <1>6, <2>10, <2>11 DEF Mended, Single, FreshIn
  <2> QED BY <2>5, <2>7, <2>9, <2>12 DEF Copying
<1> QED BY <1>7, <1>8 DEF MirInv

(* All good copies of a track group that is in write are being written.      *)
LEMMA FreshAreLive ==
  ASSUME IInv, LogInv, MirInv, count.off = 0, count.return = 0, mode = "up", NEW r \in InWrite
  PROVE  FreshIn(g.lb[r], sa_stale) \subseteq writing[r].live /\ FreshIn(g.lb[r], stale) \subseteq writing[r].live
<1>1. OnRecord(g.lb[r], Mirrors(g.lb[r]) \ writing[r].live)
  BY DEF IInv, Recording
<1>2. sa_stale \subseteq stale
  BY DEF MirInv, Copying, SomeFresh
<1> QED BY <1>1, <1>2 DEF OnRecord, FreshIn

LEMMA ParwriteMir ==
  ASSUME OneGroup, IInv, Ledger, LogInv, MirInv, NEW r \in Req, NEW E \in SUBSET Pv, hd_parwrite(r, E)
  PROVE  MirInv'
<1> DEFINE t == g.lb[r]
           w == writing[r]
           mirbad == w.broken \cup E
           err == FreshIn(t, stale) \cap w.live \subseteq mirbad
           bad == Marked(t, w.live, mirbad)
           copies == {<<Part[t], p>> : p \in bad}
           wait == {p \in bad : <<Part[t], p>> \notin stale \ chging}
           v == [bad |-> mirbad, marked |-> wait, err |-> err]
<1>1. /\ w # NULL /\ lock' = "schedule" /\ onwheel[r] = NULL
      /\ \/ /\ mirbad = {} \/ Cardinality(w.live) = 1
            /\ hd_finished(g, r, mirbad # {}, mirbad, stale) /\ UNCHANGED stale
         \/ /\ stale' = stale \cup copies
            /\ onwheel' = [onwheel EXCEPT ![r] = v]
            /\ UNCHANGED <<g, writing, differ, torn>>
         \/ /\ stale' = stale \cup copies
            /\ ~(wait # {} /\ ~ForcedOff(g))
            /\ hd_finished(g, r, err \/ wait # {}, mirbad, stale')
      /\ UNCHANGED <<pv_pbuf, proc, sa_stale, mode, rcv, count>>
  BY DEF hd_parwrite
<1>2. r \in InWrite /\ Kinds /\ IInv /\ Wheel /\ Control /\ InWrite \in SUBSET Req
  BY <1>1, InWriteIn DEF InWrite, MirInv, IInv
<1>3. mode = "up"
  BY <1>1, <1>2 DEF Control
<1>4. t \in Tg
  <2>1. Sound(g, InWrite, Busy)
    BY LogFacts
  <2>2. g.lb[r] # NULL /\ g.lb \in [Req -> Tg \cup {NULL}]
    BY <1>2, <2>1, CacheFields DEF Sound, Places
  <2> QED BY <2>2
<1>5. t = g.lb[r] /\ w = writing[r] /\ stale \subseteq stale \cup copies
  OBVIOUS
<1>6. ASSUME count.off = 0, count.return = 0
      PROVE  /\ Copying /\ ~ForcedOff(g) /\ FreshIn(t, stale) \subseteq w.live /\ FreshIn(t, stale) # {}
             /\ HasFresh(stale \cup copies)
             /\ err => Single(t, stale \cup copies)
  <2>1. Copying /\ ~ForcedOff(g)
    <3>1. Copying
      BY <1>6 DEF MirInv
    <3>2. Recording
      BY <1>2 DEF IInv
    <3>3. ~ForcedOff(g)
      BY <1>6, <3>2 DEF Recording
    <3> QED BY <3>1, <3>3
  <2>2. FreshIn(t, stale) \subseteq w.live /\ HasFresh(stale)
    BY <1>2, <1>3, <1>6, <2>1, FreshAreLive DEF Copying, SomeFresh
  <2>3. FreshIn(t, stale) # {}
    BY <1>4, <2>2 DEF HasFresh
  <2>4. /\ FreshIn(t, stale \cup copies) # {}
        /\ err => Single(t, stale \cup copies)
        /\ \A u \in Tg : u # t => FreshIn(u, stale \cup copies) = FreshIn(u, stale)
    <3> HIDE DEF t, w, mirbad
    <3> QED BY <1>4, <2>2, <2>3, MarkLeft
  <2> HIDE DEF t, w, err, copies
  <2>5. HasFresh(stale \cup copies)
    BY <2>2, <2>4 DEF HasFresh
  <2> QED BY <2>1, <2>2, <2>3, <2>4, <2>5
<1>7. \A p \in wait : <<Part[t], p>> \in stale \cup copies
  OBVIOUS
<1>8. v.marked = wait /\ v.err = err
  OBVIOUS
<1> HIDE DEF t, w, mirbad, err, bad, copies, v
<1>9. \A q : Single(q, stale) => Single(q, stale \cup copies)
  BY <1>5, FreshMono
(* What the copies are, when they are as they should be in stale'.           *)
<1>10. ASSUME stale' = stale \/ stale' = stale \cup copies, count.off = 0, count.return = 0,
              differ' = differ \/ differ' = differ \cup ({t} \X (Mirrors(t) \ FreshIn(t, stale'))),
              torn' = torn, InFlight'
       PROVE  Copying'
  <2>1. Copying
    BY <1>6, <1>10
  <2>2. HasFresh(stale') /\ HasFresh(sa_stale) /\ sa_stale \subseteq stale'
    BY <1>3, <1>5, <1>6, <1>10, <2>1 DEF Copying, SomeFresh
  <2>3. SomeFresh'
    BY <1>1, <2>2 DEF SomeFresh, HasFresh, FreshIn
  <2>4. \A x \in differ : <<Part[x[1]], x[2]>> \in stale'
    BY <1>3, <1>5, <1>10, <2>1 DEF Copying, Lacking
  <2>5. Lacking'
    BY <1>1, <1>3, <1>10, <2>4, Lacks DEF Lacking
  <2>6. Mended'
    BY <1>1, <1>3, <1>10, <2>1 DEF Copying, Mended, Single, FreshIn
  <2> QED BY <1>10, <2>3, <2>5, <2>6 DEF Copying
<1>11. ASSUME NEW e, NEW marked, hd_finished(g, r, e, mirbad, marked), marked = stale',
              stale' = stale \/ stale' = stale \cup copies,
              count.off = 0 /\ count.return = 0 => ~e \/ Single(t, stale')
       PROVE  MirInv'
  <2>1. /\ InWrite' = InWrite \ {r}
        /\ \A q \in Req : onwheel'[q] # NULL =>
             q \in InWrite \ {r} /\ onwheel'[q] = onwheel[q] /\ g'.lb[q] = g.lb[q]
        /\ differ' = differ \cup ({t} \X (Mirrors(t) \ FreshIn(t, marked)))
        /\ torn' = IF e /\ ~Single(t, marked) THEN torn \cup {t} ELSE torn
        /\ torn' \subseteq Tg /\ differ' \subseteq Tg \X Pv
        /\ count.off = 0 /\ count.return = 0 => \A q \in InWrite' : q \in g'.cached \/ Alone(q)'
    BY <1>1, <1>2, <1>5, <1>11, EndsMir
  <2>2. Kinds'
    <3>1. rcv' \subseteq Tg
      BY <1>1, <1>2 DEF Kinds
    <3>2. ASSUME NEW q \in Req, onwheel'[q] # NULL, NEW p \in onwheel'[q].marked PROVE <<Part[g'.lb[q]], p>> \in stale'
      BY <1>2, <1>5, <1>11, <2>1, <3>2 DEF Kinds
    <3> QED BY <2>1, <3>1, <3>2 DEF Kinds
  <2>3. ASSUME count.off = 0, count.return = 0 PROVE Copying'
    <3>1. ASSUME NEW q \in Req, onwheel'[q] # NULL, onwheel'[q].err PROVE Single(g.lb[q], stale)'
      <4>1. Single(g.lb[q], stale) /\ g'.lb[q] = g.lb[q]
        BY <1>6, <2>1, <2>3, <3>1 DEF Copying, InFlight
      <4>2. Single(g.lb[q], stale')
        BY <1>9, <1>11, <4>1
      <4> QED BY <4>1, <4>2 DEF Single, FreshIn
    <3>2. InFlight'
      BY <2>1, <2>3, <3>1 DEF InFlight, Alone
    <3>3. torn' = torn
      BY <1>11, <2>1, <2>3
    <3> QED BY <1>10, <1>11, <2>1, <2>3, <3>2, <3>3
  <2> QED BY <1>1, <2>2, <2>3 DEF MirInv
<1>12. CASE /\ mirbad = {} \/ Cardinality(w.live) = 1
            /\ hd_finished(g, r, mirbad # {}, mirbad, stale) /\ UNCHANGED stale
  <2>1. ASSUME count.off = 0, count.return = 0, mirbad # {} PROVE Single(t, stale)
    <3>1. \E x : w.live = {x}
      <4>1. Cardinality(w.live) = 1 /\ w.live \subseteq Pv /\ IsFiniteSet(Pv)
        <5>1. writing[r] \in Issued
          BY <1>2 DEF Wheel, InWrite
        <5> QED BY <1>5, <1>12, <2>1, <5>1, SizeAssumption DEF Issued
      <4>2. IsFiniteSet(w.live)
        BY <4>1, FS_Subset
      <4> QED BY <4>1, <4>2, FS_Singleton
    <3> QED BY <1>6, <2>1, <3>1 DEF Single
  <2> QED BY <1>11, <1>12, <2>1
<1>13. CASE /\ stale' = stale \cup copies
            /\ ~(wait # {} /\ ~ForcedOff(g))
            /\ hd_finished(g, r, err \/ wait # {}, mirbad, stale')
  <2>1. ASSUME count.off = 0, count.return = 0 PROVE ~(err \/ wait # {}) \/ Single(t, stale')
    BY <1>6, <1>13, <2>1
  <2> HIDE DEF wait
  <2> QED BY <1>11, <1>13, <2>1
<1>14. CASE /\ stale' = stale \cup copies
            /\ onwheel' = [onwheel EXCEPT ![r] = v]
            /\ UNCHANGED <<g, writing, differ, torn>>
  <2>1. onwheel'[r] = v /\ \A q \in Req : q # r => onwheel'[q] = onwheel[q]
    BY <1>2, <1>14 DEF Wheel
  <2>2. InWrite' = InWrite
    BY <1>14 DEF InWrite
  <2>3. Kinds'
    <3>1. rcv' \subseteq Tg
      BY <1>1, <1>2 DEF Kinds
    <3>2. ASSUME NEW q \in Req, onwheel'[q] # NULL, NEW p \in onwheel'[q].marked PROVE <<Part[g'.lb[q]], p>> \in stale'
      <4>1. CASE q = r
        BY <1>5, <1>7, <1>8, <1>14, <2>1, <3>2, <4>1
      <4>2. CASE q # r
        BY <1>2, <1>5, <1>14, <2>1, <3>2, <4>2 DEF Kinds
      <4> QED BY <4>1, <4>2
    <3> QED BY <1>2, <1>14, <3>1, <3>2 DEF Kinds
  <2>4. ASSUME count.off = 0, count.return = 0 PROVE Copying'
    <3>1. ASSUME NEW q \in Req, onwheel'[q] # NULL, onwheel'[q].err PROVE Single(g.lb[q], stale)'
      <4>1. Single(g.lb[q], stale')
        <5>1. CASE q = r
          BY <1>5, <1>6, <1>8, <1>14, <2>1, <2>4, <3>1, <5>1
        <5>2. CASE q # r
          BY <1>6, <1>9, <1>14, <2>1, <2>4, <3>1, <5>2 DEF Copying, InFlight
        <5> QED BY <5>1, <5>2
      <4> QED BY <1>14, <4>1 DEF Single, FreshIn
    <3>2. InFlight'
      BY <1>6, <1>14, <2>2, <2>4, <3>1 DEF Copying, InFlight
    <3> QED BY <1>10, <1>14, <2>4, <3>2
  <2> QED BY <1>1, <2>3, <2>4 DEF MirInv
<1> QED BY <1>1, <1>12, <1>13, <1>14

(* While the volume group is not on, nothing is in flight.                  *)
LEMMA Still ==
  ASSUME IInv, mode # "up"
  PROVE  InWrite = {} /\ \A r \in Req : onwheel[r] = NULL
<1>1. writing = [r \in Req |-> NULL] /\ onwheel = [r \in Req |-> NULL]
  BY DEF IInv, Control
<1> QED BY <1>1 DEF InWrite

LEMMA SingleSame ==
  ASSUME NEW S, NEW t, Single(t, S), NEW S2, S \subseteq S2
  PROVE  Single(t, S2)
BY FreshMono

LEMMA ResyncMir ==
  ASSUME IInv, Ledger, LogInv, MirInv, NEW l \in Lp, Resync(l)
  PROVE  MirInv'
<1> DEFINE S == {p \in Range(Copies[l]) \ missing : <<l, p>> \in stale}
           tgs == {t \in Tg : Part[t] = l}
<1>1. /\ mode = "up" /\ \A r \in Req : g.lb[r] \notin tgs
      /\ stale' = stale \ ({l} \X S) /\ sa_stale' = sa_stale \ ({l} \X S)
      /\ differ' = differ \ (tgs \X S)
      /\ torn' = torn \ {t \in tgs : Cardinality(FreshIn(t, stale)) = 1}
      /\ UNCHANGED <<g, writing, onwheel, mode, rcv, count>>
  BY DEF Resync
<1>2. Kinds /\ IInv /\ InWrite \in SUBSET Req
  BY InWriteIn DEF MirInv
<1>3. ASSUME NEW r \in InWrite PROVE g.lb[r] \in Tg /\ Part[g.lb[r]] # l
  <2>1. Sound(g, InWrite, Busy)
    BY LogFacts
  <2>2. g.lb[r] # NULL /\ g.lb \in [Req -> Tg \cup {NULL}]
    BY <1>2, <2>1, CacheFields DEF Sound, Places
  <2> QED BY <1>1, <1>2, <2>2
<1>4. \A r \in Req : onwheel[r] # NULL => r \in InWrite
  BY <1>2, WheelWrites DEF IInv
<1> HIDE DEF S
<1>5. \A t, X : Part[t] # l => FreshIn(t, X \ ({l} \X S)) = FreshIn(t, X)
  BY DEF FreshIn
<1>6. Kinds'
  <2>1. torn' \subseteq Tg /\ rcv' \subseteq Tg /\ differ' \subseteq Tg \X Pv
    BY <1>1, <1>2 DEF Kinds
  <2>2. ASSUME NEW q \in Req, onwheel'[q] # NULL, NEW p \in onwheel'[q].marked PROVE <<Part[g'.lb[q]], p>> \in stale'
    <3>1. <<Part[g.lb[q]], p>> \in stale /\ Part[g.lb[q]] # l
      BY <1>1, <1>2, <1>3, <1>4, <2>2 DEF Kinds
    <3> QED BY <1>1, <3>1
  <2> QED BY <2>1, <2>2 DEF Kinds
<1>7. ASSUME count.off = 0, count.return = 0 PROVE Copying'
  <2>1. Copying
    BY <1>7 DEF MirInv
  <2>2. HasFresh(stale) /\ sa_stale \subseteq stale /\ HasFresh(sa_stale)
    BY <1>1, <2>1 DEF Copying, SomeFresh
  <2>3. SomeFresh'
    <3>1. sa_stale' \subseteq stale' /\ stale' \subseteq stale /\ sa_stale' \subseteq sa_stale
      BY <1>1, <2>2
    <3>2. HasFresh(stale') /\ HasFresh(sa_stale')
      BY <2>2, <3>1, FreshMono DEF HasFresh
    <3> QED BY <3>1, <3>2 DEF SomeFresh, HasFresh, FreshIn
  <2>4. Lacking'
    <3>1. ASSUME NEW x \in differ' PROVE <<Part[x[1]], x[2]>> \in stale'
      <4>1. x \in differ /\ x \notin tgs \X S /\ x \in Tg \X Pv
        BY <1>1, <1>2 DEF Kinds
      <4>2. <<Part[x[1]], x[2]>> \in stale
        BY <1>1, <2>1, <4>1 DEF Copying, Lacking
      <4>3. x = <<x[1], x[2]>> /\ x[1] \in Tg
        BY <4>1
      <4>4. ~(Part[x[1]] = l /\ x[2] \in S)
        BY <4>1, <4>3
      <4> QED BY <1>1, <4>2, <4>4
    <3> QED BY <1>1, <3>1 DEF Lacking
  <2>5. InFlight'
    <3>1. ASSUME NEW q \in Req, onwheel'[q] # NULL, onwheel'[q].err PROVE Single(g.lb[q], stale)'
      <4>1. Single(g.lb[q], stale) /\ Part[g.lb[q]] # l
        BY <1>1, <1>3, <1>4, <2>1, <3>1 DEF Copying, InFlight
      <4>2. Single(g.lb[q], stale')
        BY <1>1, <1>5, <4>1 DEF Single
      <4> QED BY <1>1, <4>2 DEF Single, FreshIn
    <3>2. InWrite' = InWrite
      BY <1>1 DEF InWrite
    <3> QED BY <1>1, <2>1, <3>1, <3>2 DEF Copying, InFlight
  <2>6. ASSUME NEW t \in torn' PROVE Single(t, sa_stale')
    <3>1. t \in torn /\ t \in Tg /\ (Part[t] = l => Cardinality(FreshIn(t, stale)) # 1)
      BY <1>1, <1>2 DEF Kinds
    <3>2. Single(t, sa_stale)
      BY <1>1, <2>1, <3>1 DEF Copying, Mended
    <3>3. Single(t, stale) /\ FreshIn(t, stale) # {}
      BY <2>2, <3>1, <3>2, SingleSame DEF HasFresh
    <3>4. Part[t] # l
      BY <3>1, <3>3, SingleCard
    <3> QED BY <1>1, <1>5, <3>2, <3>4 DEF Single
  <2>7. Mended'
    BY <1>1, <2>6 DEF Mended, Single, FreshIn
  <2> QED BY <2>3, <2>4, <2>5, <2>7 DEF Copying
<1> QED BY <1>1, <1>6, <1>7 DEF MirInv

(* A step of the recovery.                                                  *)
LEMMA RecoverMir ==
  ASSUME IInv, Ledger, LogInv, MirInv, mode = "recover",
         UNCHANGED <<g, writing, onwheel, mode, disk, sa_miss, differ, count>>,
         sa_stale \subseteq sa_stale', sa_stale' \subseteq stale', stale \subseteq stale', rcv' \subseteq rcv,
         torn' \subseteq torn,
         count.off = 0 /\ count.return = 0 =>
           HasFresh(stale') /\ \A t \in torn' : Single(t, stale) \/ t \in rcv => Single(t, stale') \/ t \in rcv'
  PROVE  MirInv'
<1>1. InWrite' = {} /\ \A r \in Req : onwheel'[r] = NULL
  BY Still DEF InWrite
<1>2. Kinds'
  BY <1>1 DEF MirInv, Kinds
<1>3. ASSUME count.off = 0, count.return = 0 PROVE Copying'
  <2>1. Copying
    BY <1>3 DEF MirInv
  <2>2. HasFresh(stale') /\ HasFresh(sa_stale')
    BY <1>3, FreshMono DEF HasFresh
  <2>3. SomeFresh'
    BY <2>2 DEF SomeFresh, HasFresh, FreshIn
  <2>4. Lacking'
    BY <2>1 DEF Copying, Lacking
  <2>5. InFlight'
    BY <1>1 DEF InFlight
  <2>6. ASSUME NEW t \in torn'
        PROVE  (Single(t, sa_stale') \/ Known(t)') /\ (Single(t, stale') \/ t \in rcv')
    <3>1. (Single(t, sa_stale) \/ Known(t)) /\ (Single(t, stale) \/ t \in rcv)
      BY <2>1 DEF Copying, Mended
    <3>2. Single(t, sa_stale) => Single(t, sa_stale')
      BY SingleSame
    <3>3. Lost' = Lost
      BY <1>3 DEF Lost
    <3>4. Known(t) => Known(t)'
      BY <3>3, KnownFrame
    <3> QED BY <1>3, <3>1, <3>2, <3>4
  <2>7. Mended'
    BY <2>6 DEF Mended, Single, FreshIn
  <2> QED BY <2>3, <2>4, <2>5, <2>7 DEF Copying
<1> QED BY <1>2, <1>3 DEF MirInv

LEMMA MwcFprecMir ==
  ASSUME OneGroup, IInv, Ledger, LogInv, MirInv, NEW t \in Tg, NEW E, hd_mwc_fprec(t, E)
  PROVE  MirInv'
<1> DEFINE F == FreshIn(t, stale)
           bad == F \cap (missing \cup E)
           s == stale \cup (IF F = bad THEN AllButOne(t, F, missing) ELSE {<<Part[t], p>> : p \in bad})
<1>1. /\ mode = "recover" /\ sa_stale' = s /\ stale' = s /\ torn' = torn \ {t} /\ rcv' = rcv \ {t}
      /\ UNCHANGED <<g, writing, onwheel, mode, disk, sa_miss, differ, count>>
  BY DEF hd_mwc_fprec
<1>2. sa_stale \subseteq stale
  BY <1>1 DEF IInv, Recording
<1>3. stale \subseteq s
  OBVIOUS
<1>4. ASSUME count.off = 0, count.return = 0 PROVE HasFresh(s)
  <2>1. HasFresh(stale)
    BY <1>1, <1>4 DEF MirInv, Copying, SomeFresh
  <2>2. CASE F = bad
    <3>1. s = stale \cup AllButOne(t, FreshIn(t, stale), missing)
      BY <2>2
    <3> HIDE DEF s
    <3>2. FreshIn(t, stale) # {}
      BY <2>1 DEF HasFresh
    <3>3. FreshIn(t, s) # {} /\ \A u \in Tg : u # t => FreshIn(u, s) = FreshIn(u, stale)
      BY <3>1, <3>2, OneLeft
    <3> QED BY <2>1, <3>3 DEF HasFresh
  <2>3. CASE F # bad
    <3>1. PICK x \in F : x \notin bad
      BY <2>3
    <3>2. s = stale \cup {<<Part[t], p>> : p \in bad}
      BY <2>3
    <3> HIDE DEF s, bad
    <3>3. x \in FreshIn(t, s)
      BY <3>1, <3>2 DEF FreshIn
    <3>4. ASSUME NEW u \in Tg, u # t PROVE FreshIn(u, s) = FreshIn(u, stale)
      BY <3>2, <3>4 DEF FreshIn, OneGroup
    <3> QED BY <2>1, <3>3, <3>4 DEF HasFresh
  <2> QED BY <2>2, <2>3
<1> HIDE DEF s
<1>5. \A u : Single(u, stale) => Single(u, s)
  BY <1>3, SingleSame
<1> QED BY <1>1, <1>2, <1>3, <1>4, <1>5, RecoverMir

LEMMA DisastrecMir ==
  ASSUME OneGroup, IInv, Ledger, LogInv, MirInv, NEW t \in Tg, hd_disastrec(t)
  PROVE  MirInv'
<1> DEFINE s == stale \cup AllButOne(t, FreshIn(t, stale), missing)
<1>1. /\ mode = "recover" /\ sa_stale' = sa_stale /\ stale' = s /\ torn' = torn /\ rcv' = rcv \ {t}
      /\ UNCHANGED <<g, writing, onwheel, mode, disk, sa_miss, differ, count>>
  BY DEF hd_disastrec, disks
<1>2. sa_stale \subseteq stale
  BY <1>1 DEF IInv, Recording
<1>3. stale \subseteq s /\ s = stale \cup AllButOne(t, FreshIn(t, stale), missing)
  OBVIOUS
<1> HIDE DEF s
<1>4. ASSUME count.off = 0, count.return = 0 PROVE HasFresh(s) /\ Single(t, s)
  <2>1. HasFresh(stale)
    BY <1>1, <1>4 DEF MirInv, Copying, SomeFresh
  <2>2. FreshIn(t, stale) # {}
    BY <2>1 DEF HasFresh
  <2>3. /\ Single(t, s) /\ FreshIn(t, s) # {}
        /\ \A u \in Tg : u # t => FreshIn(u, s) = FreshIn(u, stale)
    BY <1>3, <2>2, OneLeft
  <2> QED BY <2>1, <2>3 DEF HasFresh
<1>5. \A u : Single(u, stale) => Single(u, s)
  BY <1>3, SingleSame
<1> QED BY <1>1, <1>2, <1>3, <1>4, <1>5, RecoverMir

LEMMA MwcRecMir ==
  ASSUME IInv, Ledger, LogInv, MirInv, HD_MWC_REC
  PROVE  MirInv'
<1>1. /\ mode = "recover" /\ sa_stale' = stale /\ stale' = stale /\ torn' \subseteq torn /\ rcv' = rcv
      /\ UNCHANGED <<g, writing, onwheel, mode, disk, sa_miss, differ, count>>
  BY DEF HD_MWC_REC, memory
<1>2. sa_stale \subseteq stale
  BY <1>1 DEF IInv, Recording
<1>3. ASSUME count.off = 0, count.return = 0 PROVE HasFresh(stale)
  BY <1>1, <1>3 DEF MirInv, Copying, SomeFresh
<1> QED BY <1>1, <1>2, <1>3, RecoverMir

LEMMA ClearedMir ==
  ASSUME IInv, Ledger, LogInv, MirInv, Cleared
  PROVE  MirInv'
<1>1. /\ proc = "cleared" /\ mode' = "up"
      /\ UNCHANGED <<writing, onwheel, stale, sa_stale, differ, torn, rcv, count>>
  BY DEF Cleared, disks
<1>2. mode = "recover" /\ rcv = {} /\ stale = sa_stale
  <2>1. Control /\ Recording
    BY DEF IInv
  <2>2. mode = "recover"
    BY <1>1, <2>1 DEF Control
  <2> QED BY <1>1, <2>1, <2>2 DEF Recording
<1>3. InWrite' = {} /\ \A r \in Req : onwheel'[r] = NULL
  BY <1>1, <1>2, Still DEF InWrite
<1>4. Kinds'
  BY <1>1, <1>3 DEF MirInv, Kinds
<1>5. ASSUME count.off = 0, count.return = 0 PROVE Copying'
  <2>1. Copying
    BY <1>5 DEF MirInv
  <2>2. HasFresh(stale) /\ HasFresh(sa_stale)
    BY <1>2, <2>1 DEF Copying, SomeFresh
  <2>3. SomeFresh'
    BY <1>1, <1>2, <2>2 DEF SomeFresh, HasFresh, FreshIn
  <2>4. Lacking'
    BY <1>1, <1>2, <2>1 DEF Copying, Lacking
  <2>5. InFlight'
    BY <1>3 DEF InFlight
  <2>6. \A t \in torn : Single(t, sa_stale)
    BY <1>2, <2>1 DEF Copying, Mended
  <2>7. Mended'
    BY <1>1, <2>6 DEF Mended, Single, FreshIn
  <2> QED BY <2>3, <2>4, <2>5, <2>7 DEF Copying
<1> QED BY <1>1, <1>4, <1>5 DEF MirInv

(* In all track groups of L but one of the good copies is left.             *)
LEMMA OneLeftEach ==
  ASSUME OneGroup, NEW L \in SUBSET Tg, NEW S, HasFresh(S), NEW gone
  PROVE  LET S2 == S \cup UNION {AllButOne(t, FreshIn(t, S), gone) : t \in L}
         IN  /\ HasFresh(S2)
             /\ \A u \in Tg \ L : FreshIn(u, S2) = FreshIn(u, S)
<1> DEFINE A(t) == AllButOne(t, FreshIn(t, S), gone)
           S2 == S \cup UNION {A(t) : t \in L}
<1>1. ASSUME NEW t, NEW x \in A(t) PROVE x[1] = Part[t]
  BY DEF AllButOne
<1> HIDE DEF A
<1>2. ASSUME NEW u \in Tg, u \notin L PROVE FreshIn(u, S2) = FreshIn(u, S)
  <2>1. ASSUME NEW p, <<Part[u], p>> \in S2 PROVE <<Part[u], p>> \in S
    <3>1. ASSUME NEW t \in L, <<Part[u], p>> \in A(t) PROVE FALSE
      <4>1. Part[u] = Part[t]
        BY <1>1, <3>1
      <4> QED BY <1>2, <4>1 DEF OneGroup
    <3> QED BY <2>1, <3>1
  <2> QED BY <2>1 DEF FreshIn
<1>3. ASSUME NEW u \in L PROVE FreshIn(u, S2) # {}
  <2>1. FreshIn(u, S) # {} /\ u \in Tg
    BY DEF HasFresh
  <2>2. FreshIn(u, S \cup A(u)) # {}
    BY <2>1, OneLeft DEF A
  <2>3. ASSUME NEW p, <<Part[u], p>> \in S2 PROVE <<Part[u], p>> \in S \cup A(u)
    <3>1. ASSUME NEW t \in L, <<Part[u], p>> \in A(t) PROVE t = u
      <4>1. Part[u] = Part[t]
        BY <1>1, <3>1
      <4> QED BY <2>1, <4>1 DEF OneGroup
    <3> QED BY <2>3, <3>1
  <2> HIDE DEF S2
  <2> QED BY <2>2, <2>3 DEF FreshIn
<1>4. HasFresh(S2)
  <2> HIDE DEF S2
  <2> QED BY <1>2, <1>3 DEF HasFresh
<1> QED BY <1>2, <1>4 DEF A

(* The disk that varyon takes the record of.                                *)
LEMMA BestNewest ==
  ASSUME Clocks, NEW F \in SUBSET Pv, Cardinality(F) >= Quorum
  PROVE  LET best == CHOOSE p \in Newest(F) : TRUE
         IN  best \in F /\ \A q \in F : ~Earlier(disk[best].tm, disk[q].tm)
<1>1. F # {}
  BY BestIn
<1>2. disk \in [Pv -> Record]
  BY DEF Clocks, Timed
<1>3. \E p \in F : \A q \in F : ~Earlier(disk[p].tm, disk[q].tm)
  BY <1>1, <1>2, NewestIn
<1>4. \E p : p \in Newest(F)
  BY <1>3 DEF Newest
<1>5. (CHOOSE p \in Newest(F) : TRUE) \in Newest(F)
  BY <1>4
<1> QED BY <1>5 DEF Newest

(* After varyon with the disks of F the records still name t, if they did    *)
(* and one of its copies is on a disk of F whose record counted.            *)
LEMMA NamedAfter ==
  ASSUME Clocks, NEW F \in SUBSET Pv, NEW best \in F, \A q \in F : ~Earlier(disk[best].tm, disk[q].tm),
         NEW dk, dk = [p \in Pv |-> IF p \in F THEN disk[best] ELSE disk[p]],
         NEW t \in Tg, NEW S, Named(disk, t, S), NEW x \in F, x \in S
  PROVE  t \in disk[best].ltgs /\ Named(dk, t, Mirrors(t) \cap F)
<1>1. disk \in [Pv -> Record]
  BY DEF Clocks, Timed
<1>2. \A p \in Pv : disk[p].tm \in Nat \X Nat
  BY <1>1 DEF Record
<1>3. \A q \in Pv : ~Earlier(disk[q].tm, disk[x].tm) => t \in disk[q].ltgs
  BY DEF Named
<1>4. t \in disk[best].ltgs
  BY <1>3
<1>5. ASSUME NEW p \in NewestOf(dk) \cup (Mirrors(t) \cap F), NEW q \in Pv, ~Earlier(dk[q].tm, dk[p].tm)
      PROVE  t \in dk[q].ltgs
  <2>1. CASE q \in F
    BY <1>4, <2>1
  <2>2. CASE q \notin F
    <3>1. dk[q] = disk[q] /\ p \in Pv
      BY <2>2 DEF NewestOf
    <3>2. ~Earlier(dk[p].tm, disk[best].tm)
      <4>1. CASE p \in F
        <5>1. dk[p] = disk[best]
          BY <4>1
        <5> QED BY <1>2, <5>1, EarlierOrder
      <4>2. CASE p \in NewestOf(dk)
        <5>1. dk[best] = disk[best]
          OBVIOUS
        <5> QED BY <4>2, <5>1 DEF NewestOf
      <4> QED BY <4>1, <4>2
    <3>3. dk[p].tm \in Nat \X Nat
      BY <1>2, <3>1
    <3>4. ~Earlier(disk[q].tm, disk[best].tm)
      BY <1>2, <1>5, <3>1, <3>2, <3>3, EarlierOrder
    <3>5. ~Earlier(disk[q].tm, disk[x].tm)
      BY <1>2, <3>4, EarlierOrder
    <3> QED BY <1>3, <3>1, <3>5
  <2> QED BY <2>1, <2>2
<1> QED BY <1>4, <1>5 DEF Named

LEMMA LeftOf ==
  ASSUME OneGroup, NEW L \in SUBSET Tg, NEW S, HasFresh(S), NEW gone,
         NEW S2, S2 = S \cup UNION {AllButOne(t, FreshIn(t, S), gone) : t \in L}
  PROVE  HasFresh(S2)
BY OneLeftEach

LEMMA VaryonMir ==
  ASSUME OneGroup, IInv, Ledger, LogInv, MirInv, NEW F \in SUBSET Pv, Varyon(F)
  PROVE  MirInv'
<1> DEFINE best == CHOOSE p \in Newest(F) : TRUE
           lost == {t \in Tg : Mirrors(t) \subseteq DisasterPvs(F)}
           s == sa_stale \cup UNION {AllButOne(t, FreshIn(t, sa_stale), Pv \ F) : t \in lost}
           todo == {t \in disk[best].ltgs : Cardinality(FreshIn(t, s)) > 1}
           dk == [p \in Pv |-> IF p \in F THEN disk[best] ELSE disk[p]]
<1>1. /\ mode = "down" /\ Cardinality(F) >= Quorum
      /\ disk' = dk /\ sa_stale' = s /\ stale' = s /\ torn' = torn \ lost
      /\ sa_miss' = Pv \ F /\ missing' = Pv \ F /\ rcv' = todo
      /\ mode' = IF todo = {} THEN "up" ELSE "recover"
      /\ UNCHANGED <<g, writing, onwheel, differ, count>>
  BY DEF Varyon
<1>2. Clocks /\ best \in F /\ \A q \in F : ~Earlier(disk[best].tm, disk[q].tm)
  BY <1>1, BestNewest DEF LogInv
<1>3. sa_stale \subseteq s /\ lost \in SUBSET Tg
  OBVIOUS
<1>4. \A t \in Tg \ lost : \E x \in F : x \in Mirrors(t) /\ x \notin sa_miss
  <2>1. \A t \in Tg : Mirrors(t) \subseteq Pv
    BY MirrorsOK
  <2> QED BY <2>1 DEF DisasterPvs
<1>5. HasFresh(sa_stale) => HasFresh(s)
  <2>1. s = sa_stale \cup UNION {AllButOne(t, FreshIn(t, sa_stale), Pv \ F) : t \in lost}
    OBVIOUS
  <2> HIDE DEF s, lost, todo, dk, best
  <2> QED BY <1>3, <2>1, LeftOf
<1>6. ASSUME NEW t \in disk[best].ltgs, t \in Tg, HasFresh(s), t \notin todo PROVE Single(t, s)
  BY <1>6, SingleCard
<1>7. dk = [p \in Pv |-> IF p \in F THEN disk[best] ELSE disk[p]]
  OBVIOUS
<1>8. todo \subseteq disk[best].ltgs /\ disk[best].ltgs \subseteq Tg
  <2>1. disk \in [Pv -> Record]
    BY <1>2 DEF Clocks, Timed
  <2> QED BY <1>2, <2>1 DEF Record
<1> HIDE DEF best, lost, s, todo, dk
<1>9. InWrite' = {} /\ \A r \in Req : onwheel'[r] = NULL
  BY <1>1, Still DEF InWrite
<1>10. Kinds'
  BY <1>1, <1>8, <1>9 DEF MirInv, Kinds
<1>11. ASSUME count.off = 0, count.return = 0 PROVE Copying'
  <2>1. Copying
    BY <1>11 DEF MirInv
  <2>2. HasFresh(s)
    BY <1>5, <2>1 DEF Copying, SomeFresh
  <2>3. SomeFresh'
    BY <1>1, <2>2 DEF SomeFresh, HasFresh, FreshIn
  <2>4. Lacking'
    BY <1>1, <1>3, <2>1 DEF Copying, Lacking
  <2>5. InFlight'
    BY <1>9 DEF InFlight
  <2>6. ASSUME NEW t \in torn' PROVE Single(t, s) \/ (t \in todo /\ Known(t)')
    <3>1. t \in torn /\ t \in Tg \ lost
      BY <1>1 DEF MirInv, Kinds
    <3>2. CASE Single(t, sa_stale)
      BY <1>3, <3>2, SingleSame
    <3>3. CASE Known(t)
      <4>1. PICK x \in F : x \in Mirrors(t) /\ x \notin sa_miss
        BY <1>4, <3>1
      <4>2. Named(disk, t, Mirrors(t) \ sa_miss)
        BY <1>11, <3>3, <4>1 DEF Known, Knows, Lost
      <4>3. t \in disk[best].ltgs /\ Named(dk, t, Mirrors(t) \cap F)
        <5> DEFINE S == Mirrors(t) \ sa_miss
        <5>1. Named(disk, t, S) /\ x \in S /\ t \in Tg
          BY <3>1, <4>1, <4>2
        <5> HIDE DEF S
        <5> QED BY <1>2, <1>7, <5>1, NamedAfter
      <4>4. Mirrors(t) \ (Pv \ F) = Mirrors(t) \cap F
        BY <3>1, MirrorsOK
      <4>5. Known(t)'
        BY <1>1, <1>11, <3>1, <4>3, <4>4 DEF Known, Knows, Lost
      <4> QED BY <1>6, <2>2, <3>1, <4>3, <4>5
    <3> QED BY <1>1, <2>1, <3>1, <3>2, <3>3 DEF Copying, Mended
  <2>7. Mended'
    BY <1>1, <2>6 DEF Mended, Single, FreshIn
  <2> QED BY <2>3, <2>4, <2>5, <2>7 DEF Copying
<1> QED BY <1>1, <1>10, <1>11 DEF MirInv

(* What a write in flight leaves when the system stops.                     *)
LEMMA TornKnown ==
  ASSUME IInv, Ledger, LogInv, MirInv, count.off = 0, count.return = 0, NEW r \in InWrite
  PROVE  Single(g.lb[r], sa_stale) \/ Known(g.lb[r])
<1>1. mode = "up" /\ InWrite \in SUBSET Req /\ Sound(g, InWrite, Busy) /\ g \in MemType
  BY LogFacts
<1>2. g.lb[r] \in Tg
  <2>1. g.lb[r] # NULL /\ g.lb \in [Req -> Tg \cup {NULL}]
    BY <1>1, CacheFields DEF Sound, Places
  <2> QED BY <1>1, <2>1
<1>3. r \in g.cached \/ Alone(r)
  BY DEF MirInv, Copying, InFlight, Alone
<1>4. CASE r \in g.cached
  <2>1. Named(disk, g.lb[r], Mirrors(g.lb[r]) \ Lost)
    BY <1>4 DEF LogInv, Book
  <2> QED BY <1>2, <2>1 DEF Known, Knows
<1>5. CASE Alone(r)
  <2>1. FreshIn(g.lb[r], sa_stale) \subseteq writing[r].live
    BY <1>1, FreshAreLive
  <2> QED BY <1>5, <2>1 DEF Alone, Single
<1> QED BY <1>3, <1>4, <1>5

LEMMA CrashMir ==
  ASSUME OneGroup, IInv, Ledger, LogInv, MirInv, Crash
  PROVE  MirInv'
<1> DEFINE recorded == {w \in Tg \X Pv : <<Part[w[1]], w[2]>> \in sa_stale}
           left == {t \in Tg : /\ Cardinality(FreshIn(t, sa_stale)) > 1
                               /\ \/ \E r \in Req : g.lb[r] = t /\ writing[r] # NULL
                                  \/ \E w \in differ : w[1] = t /\ w \notin recorded}
<1>1. /\ mode # "down" /\ torn' = torn \cup left /\ differ' = differ \cap recorded /\ mode' = "down" /\ rcv' = {}
      /\ writing' = [r \in Req |-> NULL] /\ onwheel' = [r \in Req |-> NULL]
      /\ count'.off = count.off /\ count'.return = count.return
      /\ UNCHANGED <<disk, sa_stale, sa_miss>>
  BY DEF Crash, Ledger
<1>2. InWrite' = {} /\ \A r \in Req : onwheel'[r] = NULL
  BY <1>1 DEF InWrite
<1>3. Kinds /\ Wheel /\ Recording /\ Control
  BY DEF MirInv, IInv
<1>4. Kinds'
  BY <1>1, <1>2, <1>3 DEF Kinds
<1>5. ASSUME count.off = 0, count.return = 0 PROVE Copying'
  <2>1. Copying
    BY <1>5 DEF MirInv
  <2>2. SomeFresh'
    BY <1>1, <2>1 DEF Copying, SomeFresh, HasFresh, FreshIn
  <2>3. Lacking'
    BY <1>1 DEF Lacking
  <2>4. InFlight'
    BY <1>2 DEF InFlight
  <2>5. ASSUME NEW t \in left PROVE Single(t, sa_stale) \/ Known(t)
    <3>1. CASE \E r \in Req : g.lb[r] = t /\ writing[r] # NULL
      <4>1. PICK r \in InWrite : g.lb[r] = t
        BY <3>1 DEF InWrite
      <4> QED BY <1>5, <4>1, TornKnown
    <3>2. CASE \E w \in differ : w[1] = t /\ w \notin recorded
      <4>1. PICK w \in differ : w[1] = t /\ <<Part[t], w[2]>> \notin sa_stale
        BY <1>3, <3>2 DEF Kinds
      <4>2. mode = "up" /\ <<Part[t], w[2]>> \in stale
        BY <2>1, <4>1 DEF Copying, Lacking
      <4>3. <<Part[t], w[2]>> \in chging /\ ~ForcedOff(g)
        <5>1. stale \ chging \subseteq sa_stale /\ ~ForcedOff(g)
          BY <1>3, <1>5, <4>2 DEF Recording
        <5> QED BY <4>1, <4>2, <5>1
      <4>4. PICK r \in Req : <<Part[t], w[2]>> \in MarkedBy(r)
        BY <1>3, <4>3 DEF Wheel
      <4>5. onwheel[r] # NULL /\ Part[g.lb[r]] = Part[t]
        BY <4>4 DEF MarkedBy
      <4>6. r \in InWrite
        BY <1>3, <4>5, WheelWrites
      <4>7. g.lb[r] \in Tg
        <5>1. Sound(g, InWrite, Busy)
          BY LogFacts
        <5>2. g.lb[r] # NULL /\ g.lb \in [Req -> Tg \cup {NULL}]
          BY <4>6, <5>1, CacheFields DEF Sound, Places
        <5> QED BY <5>2
      <4>8. g.lb[r] = t
        BY <4>5, <4>7 DEF OneGroup
      <4> QED BY <1>5, <4>6, <4>8, TornKnown
    <3> QED BY <3>1, <3>2
  <2>6. ASSUME NEW t \in torn' PROVE Single(t, sa_stale) \/ Known(t)'
    <3>1. Single(t, sa_stale) \/ Known(t)
      BY <1>1, <2>1, <2>5 DEF Copying, Mended
    <3>2. Lost' = Lost
      BY <1>1, <1>5 DEF Lost
    <3>3. Known(t) => Known(t)'
      BY <1>1, <3>2, KnownFrame
    <3> QED BY <3>1, <3>3
  <2>7. Mended'
    BY <1>1, <2>6 DEF Mended, Single, FreshIn
  <2> QED BY <2>2, <2>3, <2>4, <2>7 DEF Copying
<1> QED BY <1>1, <1>4, <1>5 DEF MirInv

LEMMA InitMir == Init => MirInv
<1> SUFFICES ASSUME Init PROVE MirInv
  OBVIOUS
<1>1. /\ writing = [r \in Req |-> NULL] /\ onwheel = [r \in Req |-> NULL]
      /\ stale = {} /\ sa_stale = {} /\ differ = {} /\ torn = {} /\ rcv = {}
  BY DEF Init
<1>2. InWrite = {} /\ \A r \in Req : onwheel[r] = NULL
  BY <1>1 DEF InWrite
<1>3. HasFresh({})
  <2>1. SUFFICES ASSUME NEW t \in Tg PROVE Mirrors(t) # {}
    BY DEF HasFresh, FreshIn
  <2> DEFINE s == Copies[Part[t]]
  <2>2. s \in Seq(Pv) /\ s # <<>>
    BY CopiesAssumption
  <2> HIDE DEF s
  <2>3. 1 \in DOMAIN s
    BY <2>2
  <2>4. s[1] \in Range(s)
    BY <2>3 DEF Range
  <2> QED BY <2>4 DEF Mirrors, s
<1>4. Kinds /\ Copying
  BY <1>1, <1>2, <1>3 DEF Kinds, Copying, SomeFresh, Lacking, InFlight, Mended
<1> QED BY <1>4 DEF MirInv

LEMMA MirStep ==
  ASSUME OneGroup, IInv, Ledger, LogInv, MirInv, [Next]_vars
  PROVE  MirInv'
<1>1. ASSUME NEW r \in Req, NEW t \in Tg, hd_strategy(r, t) PROVE MirInv'
  BY <1>1, StrategyMir
<1>2. CASE hd_parallel
  BY <1>2, ParallelMir
<1>3. CASE hd_schedule
  BY <1>3, ScheduleMir
<1>4. ASSUME NEW p \in Pv, CacheWritten(p) PROVE MirInv'
  BY <1>4, CacheWrittenMir
<1>5. ASSUME NEW p \in Pv, CacheFailed(p) PROVE MirInv'
  BY <1>5, CacheFailedMir
<1>6. ASSUME NEW p \in Pv, SaPvMissing(p) PROVE MirInv'
  BY <1>6, SaPvMissingMir
<1>7. ASSUME NEW p \in Pv, hd_kaddpv(p) PROVE MirInv'
  BY <1>7, KaddpvMir
<1>8. ASSUME NEW r \in Req, NEW E \in SUBSET Pv, hd_parwrite(r, E) PROVE MirInv'
  BY <1>8, ParwriteMir
<1>9. ASSUME NEW r \in Req, NEW M \in SUBSET MayFail, hd_staleppe(r, M) PROVE MirInv'
  BY <1>9, StaleppeMir
<1>10. ASSUME NEW l \in Lp, Resync(l) PROVE MirInv'
  BY <1>10, ResyncMir
<1>11. ASSUME NEW t \in Tg, NEW E \in SUBSET MayFail, hd_mwc_fprec(t, E) PROVE MirInv'
  BY <1>11, MwcFprecMir
<1>12. CASE hd_ca_clnup
  BY <1>12, ClnupMir
<1>13. CASE CleanAwake
  BY <1>13, CleanAwakeMir
<1>14. CASE CleanWritten
  BY <1>14, CleanWrittenMir
<1>15. CASE Crash
  BY <1>15, CrashMir
<1>16. ASSUME NEW F \in SUBSET Pv, Varyon(F) PROVE MirInv'
  BY <1>16, VaryonMir
<1>17. ASSUME NEW t \in Tg, hd_disastrec(t) PROVE MirInv'
  BY <1>17, DisastrecMir
<1>18. CASE HD_MWC_REC
  BY <1>18, MwcRecMir
<1>19. CASE hd_kdis_initmwc
  BY <1>19, InitmwcMir
<1>20. CASE Cleared
  BY <1>20, ClearedMir
<1>21. CASE UNCHANGED vars
  BY <1>21, CacheMir DEF vars, memory, disks
<1> QED BY <1>1, <1>2, <1>3, <1>4, <1>5, <1>6, <1>7, <1>8, <1>9, <1>10, <1>11, <1>12, <1>13, <1>14,
           <1>15, <1>16, <1>17, <1>18, <1>19, <1>20, <1>21 DEF Next

(* MirrorsAgree: while the volume group is on, no two copies that pass for   *)
(* good differ, unless a quorum has been lost or a disk has come back.  What *)
(* a crash can leave torn is either named by every record that varyon may   *)
(* take for the newest (hd_ca_ckcach), or has one good copy by the VGSAs, or *)
(* has no disk left that counts (lvm_mwcinfo); and the log is cleared only   *)
(* when each has been recovered or its other copies are recorded as stale   *)
(* (hd_mwc_fprec, hd_disastrec, HD_MWC_REC).                                *)
THEOREM HdMirCachMirrorsAgree ==
  ASSUME OneGroup
  PROVE  Spec => []MirrorsAgree
<1>1. IInv /\ Ledger /\ LogInv /\ MirInv => MirrorsAgree
  <2>1. SUFFICES ASSUME MirInv, mode = "up", count.off = 0, count.return = 0, NEW t \in torn
                 PROVE  Cardinality(FreshIn(t, stale)) = 1
    BY DEF MirrorsAgree, Agree
  <2>2. Copying /\ t \in Tg
    BY <2>1 DEF MirInv, Kinds
  <2>3. Single(t, sa_stale) /\ sa_stale \subseteq stale /\ FreshIn(t, stale) # {}
    BY <2>1, <2>2 DEF Copying, Mended, SomeFresh, HasFresh
  <2>4. Single(t, stale)
    BY <2>3, SingleSame
  <2> QED BY <2>2, <2>3, <2>4, SingleCard
<1>2. IInv /\ Ledger /\ LogInv /\ MirInv /\ [Next]_vars => (IInv /\ Ledger /\ LogInv /\ MirInv)'
  <2>1. SUFFICES ASSUME IInv, Ledger, LogInv, MirInv, [Next]_vars
                 PROVE  IInv' /\ Ledger' /\ LogInv' /\ MirInv'
    OBVIOUS
  <2>2. IInv' /\ Ledger'
    BY <2>1, StepOK, LedgerStep
  <2> QED BY <2>1, <2>2, LogStep, MirStep
<1>3. Init => IInv /\ Ledger /\ LogInv /\ MirInv
  BY InitOK, InitLog, InitMir
<1> QED BY <1>1, <1>2, <1>3, PTL DEF Spec
===============================================================================
