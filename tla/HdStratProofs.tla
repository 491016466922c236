--------------------------- MODULE HdStratProofs ---------------------------
(***************************************************************************)
(* The invariants of HdStrat, and that it keeps the promise of LvSerial,    *)
(* for every value of the constants.                                        *)
(***************************************************************************)
EXTENDS HdStrat, DataLemmas, FiniteSetTheorems, TLAPS

USE NPbufAssumption, TrkAssumption, ReqAssumption, NullAssumption

(* Requests the driver holds have parameters.                               *)
LEMMA HeldHasExtent ==
  ASSUME TypeOK, OnePlace, NEW r \in Req, lbuf[r] # NULL
  PROVE  lbuf[r] \in Extent /\ lbuf[r].dev \in Lv /\ lbuf[r].trk \in Trk
BY DEF TypeOK, Extent

(* On a chain, to conflict with some of a set is to share data with one.    *)
LEMMA OverlapsSameData ==
  ASSUME NEW q, NEW S, \A p \in S : lbuf[p].dev = lbuf[q].dev
  PROVE  Overlaps(q, S) <=> \E p \in S : SameData(p, q)
BY DEF Overlaps, Conflicts, SameData

(* What hd_terminate does, with the choices it makes named: the requests    *)
(* that are refused and those that are ready to be scheduled.               *)
TerminateEffect(r, pq, refused, ready) ==
  LET gone == {r} \cup refused IN
  /\ refused \cap ready = {} /\ r \notin ready
  /\ \A q \in refused \cup ready : Blocked(q) /\ r \in older[q]
  /\ \A q \in work_Q \ refused : Blocked(q) /\ r \in older[q] =>
       (q \in ready <=> ~Overlaps(q, older[q] \ gone))
  /\ \A p \in refused : \A q \in work_Q :
       p \in older[q] /\ Blocked(q) => q \in refused
  /\ work_Q' = work_Q \ gone
  /\ older' = [q \in Req |-> IF q \in gone THEN {} ELSE older[q] \ gone]
  /\ b_error' = [q \in Req |->
                   IF q \in gone \cup ready THEN "none" ELSE b_error[q]]
  /\ lbuf' = [q \in Req |-> IF q \in gone THEN NULL ELSE lbuf[q]]
  /\ inflight' = inflight \ gone
  /\ complcnt' = [complcnt EXCEPT
        ![lbuf[r].dev] = @ - Cardinality(inflight \cap gone)]
  /\ VG_FORCEDOFF' = (VG_FORCEDOFF \/ refused # {})
  /\ quiet' = IF quiet.pc = "asleep" /\ quiet.lv = lbuf[r].dev
                 /\ complcnt'[lbuf[r].dev] = 0
              THEN [quiet EXCEPT !.pc = "awake"] ELSE quiet
  /\ pending_Q' \in Seq(Req)
  /\ Range(pending_Q') = Range(pq) \cup ready
  /\ IsInjective(pq) /\ Range(pq) \cap ready = {} => IsInjective(pending_Q')

LEMMA TerminateFacts ==
  ASSUME TypeOK, Chains, NEW r \in work_Q, ~Blocked(r), NEW pq \in Seq(Req),
         hd_terminate(r, pq)
  PROVE  \E refused, ready \in SUBSET work_Q :
           TerminateEffect(r, pq, refused, ready)
<1> DEFINE waiting == {q \in work_Q : r \in older[q] /\ Blocked(q)}
<1>0. r \in Req /\ work_Q \subseteq Req
  BY DEF TypeOK
<1>1. PICK refused \in SUBSET waiting :
        /\ \A p \in refused : \A q \in waiting : p \in older[q] => q \in refused
        /\ LET gone == {r} \cup refused
               ready == {q \in waiting \ refused : hd_unblock(q, gone)} IN
           /\ work_Q' = work_Q \ gone
           /\ older' = [q \in Req |-> IF q \in gone THEN {} ELSE older[q] \ gone]
           /\ b_error' = [q \in Req |->
                            IF q \in gone \cup ready THEN "none" ELSE b_error[q]]
           /\ lbuf' = [q \in Req |-> IF q \in gone THEN NULL ELSE lbuf[q]]
           /\ \E s \in ChainOrders(ready) : pending_Q' = pq \o s
           /\ inflight' = inflight \ gone
           /\ complcnt' = [complcnt EXCEPT
                 ![lbuf[r].dev] = @ - Cardinality(Completed(gone))]
        /\ VG_FORCEDOFF' = (VG_FORCEDOFF \/ refused # {})
        /\ quiet' = IF quiet.pc = "asleep" /\ quiet.lv = lbuf[r].dev
                       /\ complcnt'[lbuf[r].dev] = 0
                    THEN [quiet EXCEPT !.pc = "awake"] ELSE quiet
  BY DEF hd_terminate
<1> DEFINE gone == {r} \cup refused
           ready == {q \in waiting \ refused : hd_unblock(q, gone)}
<1>2. refused \in SUBSET work_Q /\ ready \in SUBSET work_Q
  BY <1>1
<1>3. refused \cap ready = {} /\ r \notin ready
  OBVIOUS
<1>4. \A q \in refused \cup ready : Blocked(q) /\ r \in older[q]
  BY <1>1
<1>5. \A q \in work_Q \ refused : Blocked(q) /\ r \in older[q] =>
        (q \in ready <=> ~Overlaps(q, older[q] \ ({r} \cup refused)))
  BY DEF hd_unblock
<1>6. \A p \in refused : \A q \in work_Q :
        p \in older[q] /\ Blocked(q) => q \in refused
  <2> SUFFICES ASSUME NEW p \in refused, NEW q \in work_Q, p \in older[q], Blocked(q)
               PROVE  q \in refused
    OBVIOUS
  <2>1. r \in older[p]
    BY <1>1
  <2>2. r \in older[q]
    BY <2>1 DEF Chains
  <2> QED BY <1>1, <2>2
<1>7. PICK s \in ChainOrders(ready) : pending_Q' = pq \o s
  BY <1>1
<1>14. /\ work_Q' = work_Q \ gone
       /\ older' = [q \in Req |-> IF q \in gone THEN {} ELSE older[q] \ gone]
       /\ b_error' = [q \in Req |->
                        IF q \in gone \cup ready THEN "none" ELSE b_error[q]]
       /\ lbuf' = [q \in Req |-> IF q \in gone THEN NULL ELSE lbuf[q]]
       /\ inflight' = inflight \ gone
       /\ complcnt' = [complcnt EXCEPT
             ![lbuf[r].dev] = @ - Cardinality(inflight \cap gone)]
  BY <1>1 DEF Completed
<1> HIDE DEF ready, waiting
<1>8. /\ s \in [1..Cardinality(ready) -> ready] /\ Range(s) = ready
      /\ \A i, j \in 1..Cardinality(ready) : i < j => s[i] \in older[s[j]]
  BY <1>7 DEF ChainOrders
<1>9. Cardinality(ready) \in Nat
  <2>1. ready \in SUBSET Req
    BY <1>0, <1>2
  <2> QED BY <2>1, FS_Subset, FS_CardinalityType
<1>10. IsInjective(s)
  <2> SUFFICES ASSUME NEW i \in 1..Cardinality(ready), NEW j \in 1..Cardinality(ready),
                      s[i] = s[j], i # j
               PROVE  FALSE
    BY <1>8 DEF IsInjective
  <2>1. s[i] \in older[s[j]] \/ s[j] \in older[s[i]]
    BY <1>8, <1>9
  <2>2. s[i] \in work_Q /\ s[j] \in work_Q
    BY <1>8, <1>2
  <2> QED BY <2>1, <2>2 DEF Chains
<1>11. s \in [1..Cardinality(ready) -> Req]
  BY <1>8, <1>2, <1>0
<1>12. /\ pending_Q' \in Seq(Req)
       /\ Range(pending_Q') = Range(pq) \cup ready
       /\ IsInjective(pq) /\ Range(pq) \cap ready = {} => IsInjective(pending_Q')
  <2> DEFINE n == Cardinality(ready)
  <2>1. n \in Nat /\ s \in [1..n -> Req]
    BY <1>9, <1>11
  <2> HIDE DEF n
  <2>2. /\ pq \o s \in Seq(Req)
        /\ Range(pq \o s) = Range(pq) \cup Range(s)
        /\ IsInjective(pq) /\ IsInjective(s) /\ Range(pq) \cap Range(s) = {}
              => IsInjective(pq \o s)
    BY <2>1, RangeConcat
  <2> QED BY <2>2, <1>7, <1>8, <1>10
<1>15. /\ VG_FORCEDOFF' = (VG_FORCEDOFF \/ refused # {})
       /\ quiet' = IF quiet.pc = "asleep" /\ quiet.lv = lbuf[r].dev
                      /\ complcnt'[lbuf[r].dev] = 0
                   THEN [quiet EXCEPT !.pc = "awake"] ELSE quiet
  BY <1>1
<1> USE <1>2
<1> WITNESS refused \in SUBSET work_Q, ready \in SUBSET work_Q
<1> QED BY <1>3, <1>4, <1>5, <1>6, <1>12, <1>14, <1>15 DEF TerminateEffect

(* The requests that stay keep their parameters and their chains.           *)
LEMMA TerminateStays ==
  ASSUME TypeOK, Chains, NEW r \in work_Q, NEW pq,
         NEW refused \in SUBSET work_Q, NEW ready \in SUBSET work_Q,
         TerminateEffect(r, pq, refused, ready), NEW q \in work_Q'
  PROVE  /\ q \in Req /\ q \in work_Q /\ q # r /\ q \notin refused
         /\ lbuf'[q] = lbuf[q]
         /\ older'[q] = older[q] \ ({r} \cup refused)
         /\ older'[q] \subseteq work_Q'
         /\ b_error'[q] = "ELBBLOCKED" <=> Blocked(q) /\ q \notin ready
<1>1. work_Q' = work_Q \ ({r} \cup refused) /\ work_Q \subseteq Req
  BY DEF TerminateEffect, TypeOK
<1>2. /\ lbuf'[q] = lbuf[q]
      /\ older'[q] = older[q] \ ({r} \cup refused)
      /\ b_error'[q] = "ELBBLOCKED" <=> Blocked(q) /\ q \notin ready
  BY <1>1 DEF TerminateEffect, Blocked
<1>3. older'[q] \subseteq work_Q'
  BY <1>1, <1>2 DEF Chains, Chain
<1> QED BY <1>1, <1>2, <1>3

LEMMA TerminateGone ==
  ASSUME TypeOK, Chains, NEW r \in work_Q, NEW pq,
         NEW refused \in SUBSET work_Q, NEW ready \in SUBSET work_Q,
         TerminateEffect(r, pq, refused, ready)
  PROVE  /\ work_Q' = work_Q \ ({r} \cup refused)
         /\ \A q \in Req \ work_Q' : older'[q] = {}
<1>1. work_Q' = work_Q \ ({r} \cup refused) /\ work_Q \subseteq Req
  BY DEF TerminateEffect, TypeOK
<1>4. \A q \in Req \ work_Q' : older'[q] = {}
  BY <1>1 DEF TerminateEffect, Chains
<1> QED BY <1>1, <1>4

LEMMA TerminateChains ==
  ASSUME TypeOK, Chains, NEW r \in work_Q, NEW pq,
         NEW refused \in SUBSET work_Q, NEW ready \in SUBSET work_Q,
         TerminateEffect(r, pq, refused, ready)
  PROVE  Chains'
<1>0. \A q \in work_Q' : /\ q \in work_Q /\ q # r /\ q \notin refused
                         /\ lbuf'[q] = lbuf[q]
                         /\ older'[q] = older[q] \ ({r} \cup refused)
                         /\ older'[q] \subseteq work_Q'
  BY TerminateStays
<1>1. \A q \in Req \ work_Q' : older'[q] = {}
  BY TerminateGone
<1>2. work_Q' = work_Q \ ({r} \cup refused)
  BY TerminateGone
<1>3. ASSUME NEW q \in work_Q', NEW p \in work_Q'
      PROVE  p \in Chain(q)' <=> p \in Chain(q)
  BY <1>0, <1>3 DEF Chain, HD_HASH
<1>4. ASSUME NEW q \in work_Q'
      PROVE  older'[q] \subseteq Chain(q)' \ {q}
  <2>1. older[q] \subseteq Chain(q) \ {q}
    BY <1>0 DEF Chains
  <2> QED BY <2>1, <1>0, <1>3
<1>5. ASSUME NEW q \in work_Q', NEW p \in older'[q]
      PROVE  older'[p] \subseteq older'[q]
  <2>1. p \in work_Q' /\ p \in older[q]
    BY <1>0
  <2>2. older[p] \subseteq older[q]
    BY <2>1, <1>0 DEF Chains
  <2> QED BY <2>1, <2>2, <1>0
<1>6. ASSUME NEW q \in work_Q', NEW p \in Chain(q)'
      PROVE  p = q \/ p \in older'[q] \/ q \in older'[p]
  <2>1. p \in work_Q'
    BY DEF Chain
  <2>2. p = q \/ p \in older[q] \/ q \in older[p]
    BY <2>1, <1>0, <1>3 DEF Chains
  <2> QED BY <2>1, <2>2, <1>0
<1> QED BY <1>1, <1>4, <1>5, <1>6 DEF Chains

LEMMA TerminateBlocked ==
  ASSUME TypeOK, Chains, BlockedByOlder, NEW r \in work_Q, NEW pq,
         NEW refused \in SUBSET work_Q, NEW ready \in SUBSET work_Q,
         TerminateEffect(r, pq, refused, ready)
  PROVE  BlockedByOlder'
<1> SUFFICES ASSUME NEW q \in work_Q'
             PROVE  b_error'[q] = "ELBBLOCKED" <=> \E p \in older'[q] : SameData(p, q)'
  BY DEF BlockedByOlder, Blocked
<1> DEFINE gone == {r} \cup refused
<1>1. /\ q \in work_Q /\ q # r /\ q \notin refused
      /\ older'[q] = older[q] \ ({r} \cup refused)
      /\ b_error'[q] = "ELBBLOCKED" <=> Blocked(q) /\ q \notin ready
  <2>1. q \in work_Q /\ q # r /\ q \notin refused
    BY DEF TerminateEffect
  <2>2. older'[q] = older[q] \ ({r} \cup refused)
    BY <2>1 DEF TerminateEffect, TypeOK
  <2>3. b_error'[q] = "ELBBLOCKED" <=> Blocked(q) /\ q \notin ready
    BY <2>1 DEF TerminateEffect, TypeOK, Blocked
  <2> QED BY <2>1, <2>2, <2>3
<1>6. \A p \in older'[q] : SameData(p, q)' <=> SameData(p, q)
  <2>1. lbuf'[q] = lbuf[q] /\ older'[q] \subseteq work_Q'
    BY TerminateStays
  <2>2. \A p \in older'[q] : lbuf'[p] = lbuf[p]
    BY <2>1, TerminateStays
  <2> QED BY <2>1, <2>2 DEF SameData
<1>2. Overlaps(q, older[q] \ gone) <=> \E p \in older[q] \ gone : SameData(p, q)
  <2>1. \A p \in older[q] \ gone : lbuf[p].dev = lbuf[q].dev
    BY <1>1 DEF Chains, Chain
  <2> QED BY <2>1, OverlapsSameData
<1>3. CASE Blocked(q) /\ r \in older[q]
  <2>1. q \in ready <=> ~Overlaps(q, older[q] \ gone)
    BY <1>1, <1>3 DEF TerminateEffect
  <2> QED BY <2>1, <1>1, <1>2, <1>3, <1>6
<1>4. CASE Blocked(q) /\ r \notin older[q]
  <2>1. q \notin ready
    BY <1>4 DEF TerminateEffect
  <2>2. PICK p \in older[q] : SameData(p, q)
    BY <1>1, <1>4 DEF BlockedByOlder
  <2>3. p \notin gone
    <3>1. p # r
      BY <1>4, <2>2
    <3>2. p \notin refused
      BY <1>1, <1>4, <2>2 DEF TerminateEffect
    <3> QED BY <3>1, <3>2
  <2> QED BY <2>1, <2>2, <2>3, <1>1, <1>4, <1>6
<1>5. CASE ~Blocked(q)
  BY <1>1, <1>5, <1>6 DEF BlockedByOlder
<1> QED BY <1>3, <1>4, <1>5

(* The requests that go away are requests of one volume.                    *)
LEMMA TerminateOneVolume ==
  ASSUME TypeOK, Chains, NEW r \in work_Q, NEW pq,
         NEW refused \in SUBSET work_Q, NEW ready \in SUBSET work_Q,
         TerminateEffect(r, pq, refused, ready)
  PROVE  \A q \in {r} \cup refused : q \in work_Q /\ lbuf[q].dev = lbuf[r].dev
<1>1. \A q \in refused : r \in older[q]
  BY DEF TerminateEffect
<1> QED BY <1>1 DEF Chains, Chain

(* complcnt of the volume comes down by the marked requests that go.        *)
LEMMA TerminateCounts ==
  ASSUME TypeOK, Chains, OnePlace, ComplcntCounts, NEW r \in work_Q, NEW pq,
         NEW refused \in SUBSET work_Q, NEW ready \in SUBSET work_Q,
         TerminateEffect(r, pq, refused, ready)
  PROVE  ComplcntCounts' /\ complcnt' \in [Lv -> Nat]
<1> DEFINE gone == {r} \cup refused
           marked(l) == {q \in inflight : lbuf[q].dev = l}
           left(l) == {q \in inflight \ gone : lbuf[q].dev = l}
           lv == lbuf[r].dev
<1>1. /\ work_Q' = work_Q \ gone /\ inflight' = inflight \ gone
      /\ lbuf' = [q \in Req |-> IF q \in gone THEN NULL ELSE lbuf[q]]
      /\ complcnt' = [complcnt EXCEPT ![lv] = @ - Cardinality(inflight \cap gone)]
  BY DEF TerminateEffect
<1>2. \A q \in gone : q \in work_Q /\ lbuf[q].dev = lv
  BY TerminateOneVolume
<1>3. /\ work_Q \subseteq Req /\ inflight \subseteq work_Q /\ r \in Req
      /\ complcnt \in [Lv -> Nat]
  BY DEF TypeOK, ComplcntCounts
<1>4. lv \in Lv
  <2>1. lbuf[r] # NULL
    BY <1>3 DEF OnePlace
  <2> QED BY <2>1, <1>3, HeldHasExtent
<1>5. \A l \in Lv : {q \in inflight' : lbuf'[q].dev = l} = left(l)
  BY <1>1, <1>3
<1>6. \A l \in Lv : IsFiniteSet(marked(l))
  BY <1>3, FS_Subset
<1>7. \A l \in Lv : l # lv => left(l) = marked(l)
  BY <1>2
<1>8. /\ marked(lv) \cap gone = inflight \cap gone
      /\ left(lv) = marked(lv) \ gone
  BY <1>2
<1>9. /\ Cardinality(left(lv)) = complcnt[lv] - Cardinality(inflight \cap gone)
      /\ Cardinality(left(lv)) \in Nat
  <2>1. IsFiniteSet(marked(lv)) /\ IsFiniteSet(left(lv))
    BY <1>4, <1>6, <1>8, FS_Subset
  <2>2. Cardinality(marked(lv) \ gone)
          = Cardinality(marked(lv)) - Cardinality(marked(lv) \cap gone)
    BY <2>1, FS_Difference
  <2>3. complcnt[lv] = Cardinality(marked(lv))
    BY <1>4 DEF ComplcntCounts
  <2>4. Cardinality(left(lv)) \in Nat
    BY <2>1, FS_CardinalityType
  <2> QED BY <2>2, <2>3, <2>4, <1>8
<1>10. \A l \in Lv : l # lv => complcnt[l] = Cardinality(marked(l))
  BY DEF ComplcntCounts
<1> HIDE DEF gone, marked, left, lv
<1>11. \A l \in Lv : complcnt'[l] = Cardinality(left(l))
  BY <1>1, <1>3, <1>4, <1>7, <1>9, <1>10
<1>12. inflight' \subseteq work_Q'
  BY <1>1, <1>3
<1>13. complcnt' \in [Lv -> Nat]
  BY <1>1, <1>3, <1>4, <1>9
<1>14. \A l \in Lv : complcnt'[l] = Cardinality({q \in inflight' : lbuf'[q].dev = l})
  BY <1>5, <1>11
<1> QED BY <1>12, <1>13, <1>14 DEF ComplcntCounts

LEMMA TerminateTypes ==
  ASSUME TypeOK, Chains, OnePlace, ComplcntCounts, NEW r \in work_Q, NEW pq,
         NEW refused \in SUBSET work_Q, NEW ready \in SUBSET work_Q,
         TerminateEffect(r, pq, refused, ready)
  PROVE  /\ VG_FORCEDOFF' \in BOOLEAN
         /\ lbuf' \in [Req -> Extent \cup {NULL}]
         /\ work_Q' \in SUBSET Req
         /\ older' \in [Req -> SUBSET Req]
         /\ b_error' \in [Req -> {"none", "ELBBLOCKED"}]
         /\ inflight' \in SUBSET Req
         /\ complcnt' \in [Lv -> Nat]
         /\ pending_Q' \in Seq(Req)
         /\ quiet' \in QuietState
<1>6. complcnt' \in [Lv -> Nat]
  BY TerminateCounts
<1> USE DEF TypeOK, TerminateEffect
<1>1. VG_FORCEDOFF' \in BOOLEAN
  OBVIOUS
<1>2. lbuf' \in [Req -> Extent \cup {NULL}]
  OBVIOUS
<1>3. work_Q' \in SUBSET Req /\ inflight' \in SUBSET Req
  OBVIOUS
<1>4. older' \in [Req -> SUBSET Req]
  OBVIOUS
<1>5. b_error' \in [Req -> {"none", "ELBBLOCKED"}]
  OBVIOUS
<1>7. pending_Q' \in Seq(Req)
  OBVIOUS
<1>8. quiet' \in QuietState
  <2> DEFINE Waits == [pc: {"enter", "asleep", "awake"}, op: {"close", "drain"},
                       lv: Lv]
  <2>1. CASE quiet.pc = "asleep"
    <3>1. quiet \in Waits
      BY <2>1 DEF QuietState, Idle
    <3>2. [quiet EXCEPT !.pc = "awake"] \in Waits
      BY <3>1
    <3> QED BY <3>1, <3>2 DEF QuietState
  <2>2. CASE quiet.pc # "asleep"
    BY <2>2
  <2> QED BY <2>1, <2>2
<1> QED BY <1>1, <1>2, <1>3, <1>4, <1>5, <1>6, <1>7, <1>8

(* Nothing is added to a volume that is closed or closing.                  *)
LEMMA TerminateClosing ==
  ASSUME TypeOK, Closing, ClosedIsQuiet, NEW r \in work_Q, NEW pq,
         NEW refused \in SUBSET work_Q, NEW ready \in SUBSET work_Q,
         TerminateEffect(r, pq, refused, ready), lv_status' = lv_status
  PROVE  Closing' /\ ClosedIsQuiet'
<1>1. /\ work_Q \subseteq Req
      /\ \A q \in work_Q' : q \in work_Q /\ q \notin {r} \cup refused /\ lbuf'[q] = lbuf[q]
  BY DEF TerminateEffect, TypeOK
<1>2. \A q \in work_Q' : q \in inflight => q \in inflight'
  BY <1>1 DEF TerminateEffect
<1>3. /\ quiet' = Idle <=> quiet = Idle
      /\ quiet'.op = quiet.op
      /\ quiet # Idle => quiet'.lv = quiet.lv
      /\ quiet'.pc \in {"asleep", "awake"} => quiet.pc \in {"asleep", "awake"}
  <2>1. CASE quiet.pc = "asleep"
    BY <2>1 DEF TerminateEffect, TypeOK, QuietState, Idle
  <2>2. CASE quiet.pc # "asleep"
    BY <2>2 DEF TerminateEffect
  <2> QED BY <2>1, <2>2
<1>4. \A l \in Lv : lv_status[l]' = "LV_CLOSING"
                     <=> quiet' # Idle /\ quiet'.op = "close" /\ quiet'.lv = l
  BY <1>3 DEF Closing
<1>5. ASSUME quiet'.pc \in {"asleep", "awake"}, quiet'.op = "close"
      PROVE  \A q \in work_Q' : lbuf'[q].dev = quiet'.lv => q \in inflight'
  <2>1. quiet # Idle
    BY <1>5, <1>3 DEF Idle
  <2> QED BY <1>1, <1>2, <1>3, <1>5, <2>1 DEF Closing
<1>6. ClosedIsQuiet'
  BY <1>1 DEF ClosedIsQuiet
<1> QED BY <1>4, <1>5, <1>6 DEF Closing

(* Those that are ready have their place on the pending_Q, all that go away *)
(* have none.                                                               *)
LEMMA TerminateOnePlace ==
  ASSUME TypeOK, OnePlace, NEW r \in work_Q, NEW pq \in Seq(Req),
         NEW refused \in SUBSET work_Q, NEW ready \in SUBSET work_Q,
         TerminateEffect(r, pq, refused, ready),
         IsInjective(pq), r \notin Range(pq), r \notin started',
         Range(pq) \cup started' = (Range(pending_Q) \cup started) \ {r},
         Range(pq) \subseteq Range(pending_Q), started' \subseteq started,
         req_list' = req_list, lock = "initiate" => lock' = "initiate"
  PROVE  OnePlace'
<1>1. /\ work_Q' = work_Q \ ({r} \cup refused)
      /\ lbuf' = [q \in Req |-> IF q \in {r} \cup refused THEN NULL ELSE lbuf[q]]
      /\ b_error' = [q \in Req |->
           IF q \in {r} \cup refused \cup ready THEN "none" ELSE b_error[q]]
      /\ Range(pending_Q') = Range(pq) \cup ready
      /\ \A q \in refused \cup ready : Blocked(q)
      /\ refused \cap ready = {} /\ r \notin ready
      /\ IsInjective(pq) /\ Range(pq) \cap ready = {} => IsInjective(pending_Q')
  BY DEF TerminateEffect
<1>2. /\ \A q \in Req : lbuf[q] # NULL <=> q \in work_Q \/ q \in Range(req_list)
      /\ lock = "initiate" \/ req_list = <<>>
      /\ IsInjective(req_list) /\ Range(req_list) \cap work_Q = {}
      /\ Range(pending_Q) \cap started = {}
      /\ \A q \in work_Q : ~Blocked(q) <=> q \in Range(pending_Q) \/ q \in started
      /\ started \subseteq work_Q /\ Range(pending_Q) \subseteq work_Q
      /\ work_Q \subseteq Req /\ Range(req_list) \subseteq Req
  <2>1. Range(req_list) \subseteq {q \in Req : lbuf[q] # NULL}
    BY DEF OnePlace
  <2> QED BY <2>1 DEF OnePlace, TypeOK
<1>3. {q \in Req : lbuf'[q] # NULL} = work_Q' \cup Range(req_list')
  BY <1>1, <1>2
<1>4. /\ lock' = "initiate" \/ req_list' = <<>>
      /\ IsInjective(req_list') /\ Range(req_list') \cap work_Q' = {}
  BY <1>1, <1>2
<1>5. \A q \in refused \cup ready : q \notin Range(pending_Q) /\ q \notin started
  BY <1>1, <1>2
<1>6. IsInjective(pending_Q') /\ Range(pending_Q') \cap started' = {}
  <2>1. Range(pq) \cap ready = {}
    BY <1>5
  <2> QED BY <1>1, <1>2, <1>5, <2>1
<1>7. started' \subseteq work_Q' /\ Range(pending_Q') \subseteq work_Q'
  BY <1>1, <1>2, <1>5
<1>8. {q \in work_Q' : ~Blocked(q)'} = Range(pending_Q') \cup started'
  <2>1. ASSUME NEW q \in work_Q'
        PROVE  b_error'[q] # "ELBBLOCKED" <=> q \in Range(pending_Q') \cup started'
    <3>1. q \in work_Q /\ q # r /\ q \notin refused /\ q \in Req
      BY <1>1, <1>2
    <3>2. b_error'[q] # "ELBBLOCKED" <=> q \in ready \/ ~Blocked(q)
      BY <1>1, <3>1 DEF Blocked
    <3>3. ~Blocked(q) <=> q \in Range(pq) \cup started'
      BY <1>2, <3>1
    <3> QED BY <3>2, <3>3, <1>1
  <2> QED BY <2>1, <1>7 DEF Blocked
<1> QED BY <1>3, <1>4, <1>6, <1>7, <1>8 DEF OnePlace

-----------------------------------------------------------------------------
LEMMA EmptyRange == Range(<<>>) = {} /\ IsInjective(<<>>)
BY DEF Range, IsInjective

LEMMA InitIInv == Init => IInv
<1> SUFFICES ASSUME Init PROVE IInv
  OBVIOUS
<1> USE DEF Init
<1>1. TypeOK
  <2>1. /\ iodonelist \in [Cpu -> Seq(Req \cup {Other})]
        /\ pending_Q \in Seq(Req) /\ req_list \in Seq(Req)
    OBVIOUS
  <2>2. /\ complcnt \in [Lv -> Nat] /\ hd_freebuf \in 0..NPbuf
        /\ lbuf \in [Req -> Extent \cup {NULL}]
        /\ lv_status \in [Lv -> {"LV_CLOSED", "LV_OPEN", "LV_CLOSING"}]
        /\ older \in [Req -> SUBSET Req]
        /\ b_error \in [Req -> {"none", "ELBBLOCKED"}]
    OBVIOUS
  <2>3. /\ quiet \in QuietState /\ VG_FORCEDOFF \in BOOLEAN
        /\ work_Q \in SUBSET Req /\ inflight \in SUBSET Req
        /\ started \in SUBSET Req /\ lock \in {"free", "initiate", "schedule"}
    BY DEF QuietState
  <2> QED BY <2>1, <2>2, <2>3 DEF TypeOK
<1>2. Chains /\ BlockedByOlder /\ Closing /\ ClosedIsQuiet /\ Redriven
  BY DEF Chains, BlockedByOlder, Closing, ClosedIsQuiet, Redriven, Idle
<1>3. OnePlace /\ FinishedOnce
  BY EmptyRange DEF OnePlace, FinishedOnce
<1>4. ComplcntCounts /\ PbufsAccounted
  BY FS_EmptySet DEF ComplcntCounts, PbufsAccounted
<1> QED BY <1>1, <1>2, <1>3, <1>4 DEF IInv

(* Steps that leave the requests and the volumes as they are.               *)
LEMMA UnchangedRequests ==
  ASSUME IInv, UNCHANGED <<work_Q, older, b_error, inflight, complcnt, lbuf>>
  PROVE  /\ Chains' /\ BlockedByOlder' /\ ComplcntCounts'
         /\ lv_status' = lv_status => ClosedIsQuiet'
         /\ lv_status' = lv_status /\ quiet' = quiet => Closing'
         /\ UNCHANGED <<hd_freebuf, started>> => PbufsAccounted'
         /\ UNCHANGED <<iodonelist, started>> => FinishedOnce'
         /\ UNCHANGED <<started, pending_Q, req_list, lock>> => OnePlace'
         /\ UNCHANGED <<lock, pending_Q, hd_freebuf, iodonelist>> => Redriven'
<1>1. Chains'
  BY DEF IInv, Chains, Chain, HD_HASH
<1>2. BlockedByOlder'
  BY DEF IInv, BlockedByOlder, Blocked, SameData
<1>3. ComplcntCounts'
  BY DEF IInv, ComplcntCounts
<1>4. /\ lv_status' = lv_status => ClosedIsQuiet'
      /\ lv_status' = lv_status /\ quiet' = quiet => Closing'
  BY DEF IInv, ClosedIsQuiet, Closing
<1>5. /\ UNCHANGED <<hd_freebuf, started>> => PbufsAccounted'
      /\ UNCHANGED <<iodonelist, started>> => FinishedOnce'
      /\ UNCHANGED <<started, pending_Q, req_list, lock>> => OnePlace'
      /\ UNCHANGED <<lock, pending_Q, hd_freebuf, iodonelist>> => Redriven'
  BY DEF IInv, PbufsAccounted, FinishedOnce, OnePlace, Blocked, Redriven
<1> QED BY <1>1, <1>2, <1>3, <1>4, <1>5

LEMMA StutterIInv == ASSUME IInv, UNCHANGED vars PROVE IInv'
<1>1. TypeOK'
  BY DEF IInv, TypeOK, vars, qvars
<1> QED BY <1>1, UnchangedRequests DEF IInv, vars, qvars

LEMMA InitiatedIInv == ASSUME IInv, Initiated PROVE IInv'
<1>1. TypeOK'
  BY DEF IInv, TypeOK, Initiated, qvars
<1>2. OnePlace' /\ Redriven'
  BY DEF IInv, OnePlace, Blocked, Redriven, Initiated, qvars
<1> QED BY <1>1, <1>2, UnchangedRequests DEF IInv, Initiated, qvars

LEMMA ScheduledIInv == ASSUME IInv, Scheduled PROVE IInv'
<1>1. TypeOK'
  BY DEF IInv, TypeOK, Scheduled, qvars
<1>2. OnePlace' /\ Redriven'
  BY DEF IInv, OnePlace, Blocked, Redriven, Scheduled, qvars
<1> QED BY <1>1, <1>2, UnchangedRequests DEF IInv, Scheduled, qvars

LEMMA ForceOffIInv == ASSUME IInv, ForceOff PROVE IInv'
<1>1. TypeOK'
  BY DEF IInv, TypeOK, ForceOff, qvars
<1> QED BY <1>1, UnchangedRequests DEF IInv, ForceOff, qvars

LEMMA BeginIInv == ASSUME IInv, Begin PROVE IInv'
<1> USE DEF Begin
<1> DEFINE r == Head(pending_Q)
<1>1. /\ r \in Req /\ Tail(pending_Q) \in Seq(Req)
      /\ Range(pending_Q) = {r} \cup Range(Tail(pending_Q))
      /\ IsInjective(Tail(pending_Q)) /\ r \notin Range(Tail(pending_Q))
  BY RangeTail DEF IInv, TypeOK, OnePlace
<1>2. r \in work_Q /\ ~Blocked(r) /\ r \notin started
  BY <1>1 DEF IInv, OnePlace
<1> HIDE DEF r
<1>3. TypeOK'
  BY <1>1 DEF IInv, TypeOK, qvars
<1>4. OnePlace'
  BY <1>1, <1>2 DEF IInv, OnePlace, Blocked, qvars, r
<1>5. PbufsAccounted'
  <2>1. IsFiniteSet(started) /\ Cardinality(started) \in Nat
    BY FS_Subset, FS_CardinalityType DEF IInv, TypeOK
  <2>2. Cardinality(started \cup {r}) = Cardinality(started) + 1
    BY <2>1, <1>2, FS_AddElement
  <2> QED BY <2>1, <2>2 DEF IInv, PbufsAccounted, TypeOK, r
<1>6. FinishedOnce' /\ Redriven'
  BY DEF IInv, FinishedOnce, Redriven
<1> QED BY <1>3, <1>4, <1>5, <1>6, UnchangedRequests DEF IInv, qvars

LEMMA RefuseIInv == ASSUME IInv, Refuse PROVE IInv'
<1> DEFINE r == Head(pending_Q)
           pq == Tail(pending_Q)
<1>1. /\ r \in Req /\ pq \in Seq(Req)
      /\ Range(pending_Q) = {r} \cup Range(pq)
      /\ IsInjective(pq) /\ r \notin Range(pq)
  BY RangeTail DEF IInv, TypeOK, OnePlace, Refuse
<1>2. r \in work_Q /\ ~Blocked(r) /\ r \notin started
  BY <1>1 DEF IInv, OnePlace
<1>3. /\ hd_terminate(r, pq) /\ lock = "schedule"
      /\ UNCHANGED <<lv_status, hd_freebuf, started, iodonelist, lock, req_list>>
  BY DEF Refuse
<1> HIDE DEF r, pq
<1>4. TypeOK /\ Chains /\ OnePlace /\ BlockedByOlder /\ ComplcntCounts /\ Closing
      /\ ClosedIsQuiet /\ FinishedOnce /\ PbufsAccounted
  BY DEF IInv
<1>5. PICK refused \in SUBSET work_Q, ready \in SUBSET work_Q :
         TerminateEffect(r, pq, refused, ready)
  BY <1>1, <1>2, <1>3, <1>4, TerminateFacts
<1>6. TypeOK'
  <2>1. /\ lv_status' \in [Lv -> {"LV_CLOSED", "LV_OPEN", "LV_CLOSING"}]
        /\ hd_freebuf' \in 0..NPbuf /\ started' \in SUBSET Req
        /\ iodonelist' \in [Cpu -> Seq(Req \cup {Other})]
        /\ lock' \in {"free", "initiate", "schedule"} /\ req_list' \in Seq(Req)
    BY <1>3, <1>4 DEF TypeOK
  <2>2. /\ VG_FORCEDOFF' \in BOOLEAN
        /\ lbuf' \in [Req -> Extent \cup {NULL}]
        /\ work_Q' \in SUBSET Req
        /\ older' \in [Req -> SUBSET Req]
        /\ b_error' \in [Req -> {"none", "ELBBLOCKED"}]
        /\ inflight' \in SUBSET Req
        /\ complcnt' \in [Lv -> Nat]
        /\ pending_Q' \in Seq(Req)
        /\ quiet' \in QuietState
    BY <1>2, <1>4, <1>5, TerminateTypes
  <2> QED BY <2>1, <2>2 DEF TypeOK
<1>7. Chains' /\ BlockedByOlder'
  BY <1>2, <1>4, <1>5, TerminateChains, TerminateBlocked
<1>8. ComplcntCounts'
  BY <1>2, <1>4, <1>5, TerminateCounts
<1>9. Closing' /\ ClosedIsQuiet'
  BY <1>2, <1>3, <1>4, <1>5, TerminateClosing
<1>10. OnePlace'
  <2>1. /\ Range(pq) \cup started' = (Range(pending_Q) \cup started) \ {r}
        /\ Range(pq) \subseteq Range(pending_Q) /\ started' \subseteq started
        /\ r \notin started' /\ req_list' = req_list
        /\ lock = "initiate" => lock' = "initiate"
    BY <1>1, <1>2, <1>3
  <2> QED BY <1>1, <1>2, <1>4, <1>5, <2>1, TerminateOnePlace
<1>11. FinishedOnce' /\ PbufsAccounted' /\ Redriven'
  BY <1>3, <1>4 DEF FinishedOnce, PbufsAccounted, Redriven
<1> QED BY <1>6, <1>7, <1>8, <1>9, <1>10, <1>11 DEF IInv

(* The buffer at the head of the list of a processor leaves it.             *)
LEMMA FinishedTail ==
  ASSUME TypeOK, FinishedOnce, NEW c \in Cpu, iodonelist[c] # <<>>,
         iodonelist' = [iodonelist EXCEPT ![c] = Tail(iodonelist[c])],
         started' = started \ {Head(iodonelist[c])}
  PROVE  FinishedOnce' /\ iodonelist' \in [Cpu -> Seq(Req \cup {Other})]
<1> DEFINE b == Head(iodonelist[c])
           tl == Tail(iodonelist[c])
<1>1. /\ tl \in Seq(Req \cup {Other})
      /\ Range(iodonelist[c]) = {b} \cup Range(tl)
      /\ IsInjective(tl) /\ b \notin Range(tl)
  <2>1. iodonelist[c] \in Seq(Req \cup {Other}) /\ IsInjective(iodonelist[c])
    BY DEF TypeOK, FinishedOnce
  <2> QED BY <2>1, RangeTail
<1>2. /\ iodonelist' = [iodonelist EXCEPT ![c] = tl] /\ started' = started \ {b}
      /\ iodonelist \in [Cpu -> Seq(Req \cup {Other})]
  BY DEF TypeOK
<1> HIDE DEF b, tl
<1>3. iodonelist' \in [Cpu -> Seq(Req \cup {Other})]
  BY <1>1, <1>2
<1>4. \A d \in Cpu : /\ IsInjective(iodonelist'[d])
                     /\ Range(iodonelist'[d]) \subseteq Range(iodonelist[d])
                     /\ b \notin Range(iodonelist'[d])
  <2> TAKE d \in Cpu
  <2>1. CASE d = c
    BY <1>1, <1>2, <2>1
  <2>2. CASE d # c
    BY <1>1, <1>2, <2>2 DEF FinishedOnce
  <2> QED BY <2>1, <2>2
<1>5. \A d \in Cpu : Range(iodonelist'[d]) \cap Req \subseteq started'
  BY <1>2, <1>4 DEF FinishedOnce
<1>6. \A d, e \in Cpu : d # e =>
        Range(iodonelist'[d]) \cap Range(iodonelist'[e]) = {}
  BY <1>4 DEF FinishedOnce
<1> QED BY <1>3, <1>4, <1>5, <1>6 DEF FinishedOnce

LEMMA OtherDoneIInv == ASSUME IInv, NEW c \in Cpu, OtherDone(c) PROVE IInv'
<1> USE DEF OtherDone
<1>1. TypeOK /\ FinishedOnce
  BY DEF IInv
<1>2. started' = started \ {Head(iodonelist[c])}
  BY <1>1 DEF TypeOK
<1>3. FinishedOnce' /\ iodonelist' \in [Cpu -> Seq(Req \cup {Other})]
  BY <1>1, <1>2, FinishedTail
<1>4. TypeOK'
  BY <1>1, <1>3 DEF TypeOK, qvars
<1>5. Redriven'
  <2>1. iodonelist[c] \in Seq(Req \cup {Other})
    BY <1>1 DEF TypeOK
  <2>2. Range(iodonelist[c]) = {Other} \cup Range(Tail(iodonelist[c]))
    BY <2>1, RangeTail
  <2>3. \A d \in Cpu : Range(iodonelist'[d]) \cap Req = Range(iodonelist[d]) \cap Req
    BY <1>1, <2>2 DEF TypeOK
  <2> QED BY <2>3 DEF IInv, Redriven
<1>6. OnePlace' /\ PbufsAccounted'
  BY DEF IInv, OnePlace, Blocked, PbufsAccounted, qvars
<1> QED BY <1>3, <1>4, <1>5, <1>6, UnchangedRequests DEF IInv, qvars

LEMMA EndIInv == ASSUME IInv, NEW c \in Cpu, hd_end(c) PROVE IInv'
<1> DEFINE r == Head(iodonelist[c])
<1>1. TypeOK /\ Chains /\ OnePlace /\ BlockedByOlder /\ ComplcntCounts /\ Closing
      /\ ClosedIsQuiet /\ FinishedOnce /\ PbufsAccounted
  BY DEF IInv
<1>2. /\ iodonelist[c] # <<>> /\ r \in Req /\ lock = "free"
      /\ started' = started \ {r} /\ hd_freebuf' = hd_freebuf + 1
      /\ hd_terminate(r, pending_Q)
      /\ lock' = IF B_MORE_DONE(c) THEN "free" ELSE "schedule"
      /\ iodonelist' = [iodonelist EXCEPT ![c] = Tail(iodonelist[c])]
      /\ UNCHANGED <<lv_status, req_list>>
  BY DEF hd_end
<1>3. /\ Range(iodonelist[c]) = {r} \cup Range(Tail(iodonelist[c]))
      /\ r \notin Range(Tail(iodonelist[c]))
  <2>1. iodonelist[c] \in Seq(Req \cup {Other}) /\ IsInjective(iodonelist[c])
    BY <1>1 DEF TypeOK, FinishedOnce
  <2> QED BY <1>2, <2>1, RangeTail
<1>4. r \in started /\ r \in work_Q /\ ~Blocked(r) /\ r \notin Range(pending_Q)
  <2>1. r \in started
    BY <1>1, <1>2, <1>3 DEF FinishedOnce
  <2> QED BY <1>1, <2>1 DEF OnePlace
<1>5. FinishedOnce' /\ iodonelist' \in [Cpu -> Seq(Req \cup {Other})]
  BY <1>1, <1>2, FinishedTail
<1>6. Redriven'
  <2>1. CASE ~B_MORE_DONE(c)
    BY <1>2, <2>1 DEF Redriven
  <2>2. CASE B_MORE_DONE(c)
    <3>1. iodonelist'[c] = Tail(iodonelist[c])
      BY <1>1, <1>2 DEF TypeOK
    <3> QED BY <2>2, <3>1 DEF Redriven, B_MORE_DONE
  <2> QED BY <2>1, <2>2
<1> HIDE DEF r
<1>7. pending_Q \in Seq(Req) /\ IsInjective(pending_Q)
  BY <1>1 DEF TypeOK, OnePlace
<1>8. PICK refused \in SUBSET work_Q, ready \in SUBSET work_Q :
         TerminateEffect(r, pending_Q, refused, ready)
  BY <1>1, <1>2, <1>4, <1>7, TerminateFacts
<1>9. hd_freebuf' \in 0..NPbuf /\ PbufsAccounted'
  <2>1. IsFiniteSet(started) /\ Cardinality(started) \in Nat
    BY <1>1, FS_Subset, FS_CardinalityType DEF TypeOK
  <2>2. /\ Cardinality(started \ {r}) = Cardinality(started) - 1
        /\ IsFiniteSet(started \ {r})
    BY <1>4, <2>1, FS_RemoveElement
  <2>3. Cardinality(started \ {r}) \in Nat
    BY <2>2, FS_CardinalityType
  <2>4. Cardinality(started') = Cardinality(started) - 1 /\ Cardinality(started') \in Nat
    BY <1>2, <2>2, <2>3
  <2>5. hd_freebuf + Cardinality(started) = NPbuf /\ hd_freebuf \in Nat
    BY <1>1 DEF PbufsAccounted, TypeOK
  <2>6. hd_freebuf' = hd_freebuf + 1
    BY <1>2
  <2>7. hd_freebuf' + Cardinality(started') = NPbuf
    BY <2>1, <2>4, <2>5, <2>6
  <2>8. hd_freebuf' \in 0..NPbuf
    BY <2>1, <2>4, <2>5, <2>6
  <2> QED BY <2>7, <2>8 DEF PbufsAccounted
<1>10. TypeOK'
  <2>1. /\ lv_status' \in [Lv -> {"LV_CLOSED", "LV_OPEN", "LV_CLOSING"}]
        /\ started' \in SUBSET Req /\ req_list' \in Seq(Req)
        /\ lock' \in {"free", "initiate", "schedule"}
    BY <1>1, <1>2 DEF TypeOK
  <2>2. /\ VG_FORCEDOFF' \in BOOLEAN
        /\ lbuf' \in [Req -> Extent \cup {NULL}]
        /\ work_Q' \in SUBSET Req
        /\ older' \in [Req -> SUBSET Req]
        /\ b_error' \in [Req -> {"none", "ELBBLOCKED"}]
        /\ inflight' \in SUBSET Req
        /\ complcnt' \in [Lv -> Nat]
        /\ pending_Q' \in Seq(Req)
        /\ quiet' \in QuietState
    BY <1>1, <1>4, <1>8, TerminateTypes
  <2> QED BY <1>5, <1>9, <2>1, <2>2 DEF TypeOK
<1>11. Chains' /\ BlockedByOlder'
  BY <1>1, <1>4, <1>8, TerminateChains, TerminateBlocked
<1>12. ComplcntCounts'
  BY <1>1, <1>4, <1>8, TerminateCounts
<1>13. Closing' /\ ClosedIsQuiet'
  BY <1>1, <1>2, <1>4, <1>8, TerminateClosing
<1>14. OnePlace'
  <2>1. /\ Range(pending_Q) \cup started' = (Range(pending_Q) \cup started) \ {r}
        /\ Range(pending_Q) \subseteq Range(pending_Q) /\ started' \subseteq started
        /\ r \notin started' /\ req_list' = req_list
        /\ lock = "initiate" => lock' = "initiate"
    BY <1>2, <1>4
  <2> QED BY <1>1, <1>4, <1>7, <1>8, <2>1, TerminateOnePlace
<1> QED BY <1>5, <1>6, <1>9, <1>10, <1>11, <1>12, <1>13, <1>14 DEF IInv

LEMMA IodoneIInv ==
  ASSUME IInv, NEW c \in Cpu, NEW b \in Req \cup {Other}, iodone(c, b)
  PROVE  IInv'
<1> USE DEF iodone
<1>1. TypeOK /\ FinishedOnce
  BY DEF IInv
<1>2. /\ Append(iodonelist[c], b) \in Seq(Req \cup {Other})
      /\ Range(Append(iodonelist[c], b)) = Range(iodonelist[c]) \cup {b}
      /\ IsInjective(Append(iodonelist[c], b))
  <2>1. iodonelist[c] \in Seq(Req \cup {Other}) /\ IsInjective(iodonelist[c])
        /\ b \notin Range(iodonelist[c])
    BY <1>1 DEF TypeOK, FinishedOnce, OnIodonelist
  <2> QED BY <2>1, RangeAppend
<1> DEFINE s == Append(iodonelist[c], b)
<1>3. iodonelist' = [iodonelist EXCEPT ![c] = s]
      /\ iodonelist \in [Cpu -> Seq(Req \cup {Other})]
  BY <1>1 DEF TypeOK
<1> HIDE DEF s
<1>4. /\ iodonelist'[c] = s
      /\ \A d \in Cpu : d # c => iodonelist'[d] = iodonelist[d]
  BY <1>3
<1>5. TypeOK'
  <2>1. iodonelist' \in [Cpu -> Seq(Req \cup {Other})]
    BY <1>2, <1>3 DEF s
  <2> QED BY <1>1, <2>1 DEF TypeOK, qvars
<1>6. Range(s) = Range(iodonelist[c]) \cup {b} /\ IsInjective(s)
  BY <1>2 DEF s
<1>7. \A d \in Cpu : b \notin Range(iodonelist[d])
  BY DEF OnIodonelist
<1>8. FinishedOnce'
  <2>1. \A d \in Cpu : IsInjective(iodonelist'[d])
    BY <1>1, <1>4, <1>6 DEF FinishedOnce
  <2>2. \A d \in Cpu : Range(iodonelist'[d]) \cap Req \subseteq started'
    BY <1>1, <1>4, <1>6 DEF FinishedOnce
  <2>3. ASSUME NEW d \in Cpu, NEW e \in Cpu, d # e
        PROVE  Range(iodonelist'[d]) \cap Range(iodonelist'[e]) = {}
    <3>1. Range(iodonelist[d]) \cap Range(iodonelist[e]) = {}
      BY <1>1, <2>3 DEF FinishedOnce
    <3>2. CASE d = c
      <4>1. Range(iodonelist'[d]) = Range(iodonelist[d]) \cup {b}
            /\ Range(iodonelist'[e]) = Range(iodonelist[e])
        BY <1>4, <1>6, <2>3, <3>2
      <4> QED BY <4>1, <1>7, <3>1
    <3>3. CASE e = c
      <4>1. Range(iodonelist'[e]) = Range(iodonelist[e]) \cup {b}
            /\ Range(iodonelist'[d]) = Range(iodonelist[d])
        BY <1>4, <1>6, <2>3, <3>3
      <4> QED BY <4>1, <1>7, <3>1
    <3>4. CASE d # c /\ e # c
      BY <1>4, <3>1, <3>4
    <3> QED BY <3>2, <3>3, <3>4
  <2> QED BY <2>1, <2>2, <2>3 DEF FinishedOnce
<1>9. Redriven'
  <2>1. \A d \in Cpu : Range(iodonelist[d]) \subseteq Range(iodonelist'[d])
    BY <1>4, <1>6
  <2> QED BY <2>1 DEF IInv, Redriven
<1>10. OnePlace' /\ PbufsAccounted'
  BY DEF IInv, OnePlace, Blocked, PbufsAccounted, qvars
<1> QED BY <1>5, <1>8, <1>9, <1>10, UnchangedRequests DEF IInv, qvars

LEMMA ConfigIInv == ASSUME IInv, Config PROVE IInv'
<1>1. PICK l \in Lv : hd_open(l) \/ hd_close(l) \/ Drain(l)
  BY DEF Config
<1>2. /\ UNCHANGED <<VG_FORCEDOFF, qvars, pending_Q, hd_freebuf, started,
                     iodonelist, lock, req_list>>
      /\ quiet = Idle /\ (quiet' = Idle \/ quiet'.pc = "enter")
  BY <1>1 DEF hd_open, hd_close, Drain
<1>3. /\ lv_status' \in [Lv -> {"LV_CLOSED", "LV_OPEN", "LV_CLOSING"}]
      /\ quiet' \in QuietState
  BY <1>1 DEF IInv, TypeOK, hd_open, hd_close, Drain, QuietState
<1>4. TypeOK'
  BY <1>2, <1>3 DEF IInv, TypeOK, qvars
<1>5. Closing'
  <2>1. \A k \in Lv : lv_status[k] # "LV_CLOSING"
    BY <1>2 DEF IInv, Closing
  <2>2. \A k \in Lv : lv_status'[k] = "LV_CLOSING"
                     <=> quiet' # Idle /\ quiet'.op = "close" /\ quiet'.lv = k
    BY <1>1, <2>1 DEF IInv, TypeOK, hd_open, hd_close, Drain, Idle
  <2>3. quiet'.pc \notin {"asleep", "awake"}
    BY <1>2 DEF Idle
  <2> QED BY <2>2, <2>3 DEF Closing
<1>6. ClosedIsQuiet'
  <2>1. \A q \in work_Q : lbuf[q].dev \in Lv
    BY HeldHasExtent DEF IInv, OnePlace
  <2>2. \A k \in Lv : lv_status'[k] = "LV_CLOSED" => lv_status[k] = "LV_CLOSED"
    BY <1>1 DEF IInv, TypeOK, hd_open, hd_close, Drain
  <2> QED BY <1>2, <2>1, <2>2 DEF IInv, ClosedIsQuiet, qvars
<1> QED BY <1>2, <1>4, <1>5, <1>6, UnchangedRequests DEF IInv, qvars

(* When no request of the volume is marked, none is linked.                 *)
LEMMA QuietedDone ==
  ASSUME IInv, quiet # Idle, Quieted,
         quiet.op = "close" => \A q \in work_Q : lbuf[q].dev # quiet.lv,
         UNCHANGED <<lbuf, work_Q>>
  PROVE  Closing' /\ ClosedIsQuiet'
<1>1. /\ quiet.op = "close" => quiet.lv \in Lv
      /\ \A q \in work_Q : lbuf[q].dev \in Lv
  BY HeldHasExtent DEF IInv, TypeOK, QuietState, OnePlace
<1>2. \A l \in Lv : lv_status'[l] # "LV_CLOSING"
  BY <1>1 DEF IInv, TypeOK, Closing, Quieted
<1>3. ClosedIsQuiet'
  BY <1>1 DEF IInv, TypeOK, ClosedIsQuiet, Quieted
<1> QED BY <1>2, <1>3 DEF Closing, Quieted, Idle

LEMMA QuietedTypes ==
  ASSUME TypeOK, Quieted
  PROVE  /\ quiet' \in QuietState
         /\ lv_status' \in [Lv -> {"LV_CLOSED", "LV_OPEN", "LV_CLOSING"}]
BY DEF TypeOK, Quieted, QuietState

LEMMA QuietIInv == ASSUME IInv, hd_quiet PROVE IInv'
<1> DEFINE lv == quiet.lv
           busy == {q \in work_Q : lbuf[q].dev = lv}
<1>1. /\ quiet.pc = "enter" /\ complcnt[lv] = 0 /\ lock = "free"
      /\ inflight' = inflight \cup busy
      /\ complcnt' = [complcnt EXCEPT ![lv] = Cardinality(busy)]
      /\ IF busy = {} THEN Quieted
         ELSE quiet' = [quiet EXCEPT !.pc = "asleep"] /\ UNCHANGED lv_status
      /\ UNCHANGED <<VG_FORCEDOFF, lbuf, work_Q, older, b_error, pending_Q,
                     hd_freebuf, started, iodonelist, lock, req_list>>
  BY DEF hd_quiet
<1>2. TypeOK /\ ComplcntCounts /\ Closing /\ ClosedIsQuiet
  BY DEF IInv
<1>3. /\ quiet \in [pc: {"enter", "asleep", "awake"}, op: {"close", "drain"}, lv: Lv]
      /\ quiet # Idle
  BY <1>1, <1>2 DEF TypeOK, QuietState, Idle
<1>4. lv \in Lv
  BY <1>3
<1>5. IsFiniteSet(busy) /\ Cardinality(busy) \in Nat
  BY <1>2, FS_Subset, FS_CardinalityType DEF TypeOK
<1>6. quiet' \in QuietState
      /\ lv_status' \in [Lv -> {"LV_CLOSED", "LV_OPEN", "LV_CLOSING"}]
  <2>1. CASE busy = {}
    BY <1>1, <1>2, <2>1, QuietedTypes
  <2>2. CASE busy # {}
    <3>1. quiet' = [quiet EXCEPT !.pc = "asleep"] /\ lv_status' = lv_status
      BY <1>1, <2>2
    <3> QED BY <1>2, <1>3, <3>1 DEF TypeOK, QuietState
  <2> QED BY <2>1, <2>2
<1>7. complcnt' \in [Lv -> Nat] /\ inflight' \in SUBSET Req
  BY <1>1, <1>2, <1>5 DEF TypeOK
<1>8. TypeOK'
  <2>1. /\ VG_FORCEDOFF' \in BOOLEAN
        /\ lbuf' \in [Req -> Extent \cup {NULL}]
        /\ work_Q' \in SUBSET Req
        /\ older' \in [Req -> SUBSET Req]
        /\ b_error' \in [Req -> {"none", "ELBBLOCKED"}]
        /\ pending_Q' \in Seq(Req)
        /\ hd_freebuf' \in 0..NPbuf
        /\ started' \in SUBSET Req
        /\ iodonelist' \in [Cpu -> Seq(Req \cup {Other})]
        /\ lock' \in {"free", "initiate", "schedule"}
        /\ req_list' \in Seq(Req)
    BY <1>1, <1>2 DEF TypeOK
  <2> QED BY <1>6, <1>7, <2>1 DEF TypeOK
<1>9. ComplcntCounts'
  <2>1. {q \in inflight' : lbuf'[q].dev = lv} = busy
    BY <1>1, <1>2 DEF ComplcntCounts
  <2>2. \A l \in Lv : l # lv =>
          {q \in inflight' : lbuf'[q].dev = l} = {q \in inflight : lbuf[q].dev = l}
    BY <1>1
  <2>3. complcnt'[lv] = Cardinality(busy)
        /\ \A l \in Lv : l # lv => complcnt'[l] = complcnt[l]
    BY <1>1, <1>2, <1>4 DEF TypeOK
  <2>4. inflight' \subseteq work_Q'
    BY <1>1, <1>2 DEF ComplcntCounts
  <2>5. \A l \in Lv : complcnt'[l] = Cardinality({q \in inflight' : lbuf'[q].dev = l})
    <3> TAKE l \in Lv
    <3>1. CASE l = lv
      BY <2>1, <2>3, <3>1
    <3>2. CASE l # lv
      <4>1. complcnt[l] = Cardinality({q \in inflight : lbuf[q].dev = l})
        BY <1>2 DEF ComplcntCounts
      <4> QED BY <2>2, <2>3, <3>2, <4>1
    <3> QED BY <3>1, <3>2
  <2> QED BY <2>4, <2>5 DEF ComplcntCounts
<1>10. Closing' /\ ClosedIsQuiet'
  <2>1. CASE busy = {}
    <3>1. Quieted /\ \A q \in work_Q : lbuf[q].dev # lv
      BY <1>1, <2>1
    <3> QED BY <1>1, <1>3, <3>1, QuietedDone
  <2>2. CASE busy # {}
    <3>1. /\ quiet' = [quiet EXCEPT !.pc = "asleep"] /\ lv_status' = lv_status
          /\ lbuf' = lbuf /\ work_Q' = work_Q
      BY <1>1, <2>2
    <3>2. quiet' # Idle /\ quiet'.op = quiet.op /\ quiet'.lv = lv
      BY <1>3, <3>1 DEF Idle
    <3>3. \A q \in work_Q : lbuf[q].dev = lv => q \in inflight'
      BY <1>1
    <3>4. \A l \in Lv : lv_status'[l] = "LV_CLOSING"
                     <=> quiet' # Idle /\ quiet'.op = "close" /\ quiet'.lv = l
      BY <1>2, <1>3, <3>1, <3>2 DEF Closing
    <3>5. Closing'
      BY <3>1, <3>2, <3>3, <3>4 DEF Closing
    <3> QED BY <1>2, <3>1, <3>5 DEF ClosedIsQuiet
  <2> QED BY <2>1, <2>2
<1>11. Chains' /\ BlockedByOlder'
  BY <1>1 DEF IInv, Chains, Chain, HD_HASH, BlockedByOlder, Blocked, SameData
<1>12. OnePlace' /\ FinishedOnce' /\ PbufsAccounted' /\ Redriven'
  BY <1>1 DEF IInv, OnePlace, Blocked, FinishedOnce, PbufsAccounted, Redriven
<1> QED BY <1>8, <1>9, <1>10, <1>11, <1>12 DEF IInv

(* With complcnt 0 none of the requests of the volume is marked.            *)
LEMMA NoneMarked ==
  ASSUME IInv, NEW l \in Lv, complcnt[l] = 0
  PROVE  \A q \in inflight : lbuf[q].dev # l
<1> DEFINE marked == {q \in inflight : lbuf[q].dev = l}
<1>1. IsFiniteSet(marked)
  BY FS_Subset DEF IInv, TypeOK
<1>2. Cardinality(marked) = 0
  BY DEF IInv, ComplcntCounts
<1>3. marked = {}
  BY <1>1, <1>2, FS_EmptySet
<1> QED BY <1>3

LEMMA WakesIInv == ASSUME IInv, QuietWakes PROVE IInv'
<1>1. /\ quiet.pc = "awake" /\ lock = "free"
      /\ IF complcnt[quiet.lv] = 0 THEN Quieted
         ELSE quiet' = [quiet EXCEPT !.pc = "asleep"] /\ UNCHANGED lv_status
      /\ UNCHANGED <<VG_FORCEDOFF, work_Q, older, b_error, inflight, complcnt, lbuf,
                     pending_Q, hd_freebuf, started, iodonelist, lock, req_list>>
  BY DEF QuietWakes, qvars
<1>2. TypeOK /\ Closing /\ ClosedIsQuiet
  BY DEF IInv
<1>3. /\ quiet \in [pc: {"enter", "asleep", "awake"}, op: {"close", "drain"}, lv: Lv]
      /\ quiet # Idle
  BY <1>1, <1>2 DEF TypeOK, QuietState, Idle
<1>4. quiet' \in QuietState
      /\ lv_status' \in [Lv -> {"LV_CLOSED", "LV_OPEN", "LV_CLOSING"}]
  <2>1. CASE complcnt[quiet.lv] = 0
    BY <1>1, <1>2, <2>1, QuietedTypes
  <2>2. CASE complcnt[quiet.lv] # 0
    <3>1. quiet' = [quiet EXCEPT !.pc = "asleep"] /\ lv_status' = lv_status
      BY <1>1, <2>2
    <3> QED BY <1>2, <1>3, <3>1 DEF TypeOK, QuietState
  <2> QED BY <2>1, <2>2
<1>5. TypeOK'
  BY <1>1, <1>2, <1>4 DEF TypeOK
<1>6. Closing' /\ ClosedIsQuiet'
  <2>1. CASE complcnt[quiet.lv] = 0
    <3>1. \A q \in inflight : lbuf[q].dev # quiet.lv
      BY <1>3, <2>1, NoneMarked
    <3>2. quiet.op = "close" => \A q \in work_Q : lbuf[q].dev # quiet.lv
      BY <1>1, <1>2, <3>1 DEF Closing
    <3> QED BY <1>1, <1>3, <2>1, <3>2, QuietedDone
  <2>2. CASE complcnt[quiet.lv] # 0
    <3>1. quiet' = [quiet EXCEPT !.pc = "asleep"] /\ lv_status' = lv_status
      BY <1>1, <2>2
    <3>2. quiet' # Idle /\ quiet'.op = quiet.op /\ quiet'.lv = quiet.lv
      BY <1>3, <3>1 DEF Idle
    <3>3. \A l \in Lv : lv_status'[l] = "LV_CLOSING"
                     <=> quiet' # Idle /\ quiet'.op = "close" /\ quiet'.lv = l
      BY <1>2, <1>3, <3>1, <3>2 DEF Closing
    <3>4. Closing'
      BY <1>1, <1>2, <3>1, <3>2, <3>3 DEF Closing
    <3> QED BY <1>1, <1>2, <3>1, <3>4 DEF ClosedIsQuiet
  <2> QED BY <2>1, <2>2
<1>7. OnePlace' /\ PbufsAccounted' /\ FinishedOnce' /\ Redriven' /\ Chains'
      /\ BlockedByOlder' /\ ComplcntCounts'
  BY <1>1, UnchangedRequests DEF IInv, OnePlace, Blocked
<1> QED BY <1>5, <1>6, <1>7 DEF IInv

LEMMA StrategyIInv == ASSUME IInv, Strategy PROVE IInv'
<1>1. PICK list \in ReqLists : \E ext \in [Range(list) -> Extent] :
             hd_strategy(list, ext)
  BY DEF Strategy
<1>2. PICK ext \in [Range(list) -> Extent] : hd_strategy(list, ext)
  BY <1>1
<1>3. /\ list \in Seq(Req) /\ IsInjective(list) /\ Range(list) \subseteq Req
  <2>1. PICK n \in 1..MaxList : list \in [1..n -> Req] /\ IsInjective(list)
    BY DEF ReqLists
  <2>2. n \in Nat
    OBVIOUS
  <2>3. list \in Seq(Req)
    BY <2>1, <2>2
  <2>4. Range(list) \subseteq Req
    BY <2>1 DEF Range
  <2> QED BY <2>1, <2>3, <2>4
<1>4. /\ lock = "free"
      /\ \A q \in Range(list) : lbuf[q] = NULL
      /\ lbuf' = [r \in Req |-> IF r \in Range(list) THEN ext[r] ELSE lbuf[r]]
      /\ req_list' = list /\ lock' = "initiate"
      /\ UNCHANGED <<lv_status, VG_FORCEDOFF, work_Q, older, b_error, inflight,
                     complcnt, pending_Q, hd_freebuf, started, iodonelist, quiet>>
  BY <1>2 DEF hd_strategy, Range
<1>5. /\ TypeOK /\ Chains /\ BlockedByOlder /\ OnePlace /\ FinishedOnce
      /\ ComplcntCounts /\ PbufsAccounted /\ Closing /\ ClosedIsQuiet
  BY DEF IInv
<1>6. \A q \in work_Q : q \in Req /\ lbuf[q] # NULL /\ q \notin Range(list)
  BY <1>4, <1>5 DEF TypeOK, OnePlace
<1>7. \A q \in work_Q : lbuf'[q] = lbuf[q]
  BY <1>4, <1>6
<1>8. lbuf' \in [Req -> Extent \cup {NULL}]
  BY <1>3, <1>4, <1>5 DEF TypeOK
<1>9. TypeOK'
  BY <1>3, <1>4, <1>5, <1>8 DEF TypeOK
<1>10. Chains'
  <2>1. \A q \in work_Q : Chain(q)' = Chain(q)
    BY <1>4, <1>7 DEF Chain, HD_HASH
  <2> QED BY <1>4, <1>5, <2>1 DEF Chains
<1>11. BlockedByOlder'
  <2>1. ASSUME NEW q \in work_Q, NEW p \in older[q]
        PROVE  SameData(p, q)' <=> SameData(p, q)
    <3>1. p \in work_Q
      BY <1>5 DEF Chains, Chain
    <3> QED BY <1>7, <3>1 DEF SameData
  <2> QED BY <1>4, <1>5, <2>1 DEF BlockedByOlder, Blocked
<1>12. OnePlace'
  <2>1. \A q \in Req : lbuf'[q] # NULL <=> q \in Range(list) \/ lbuf[q] # NULL
    BY <1>2, <1>3, <1>4
  <2>2. \A q \in Req : lbuf[q] # NULL <=> q \in work_Q \/ q \in Range(req_list)
    <3>1. Range(req_list) \subseteq {q \in Req : lbuf[q] # NULL}
      BY <1>5 DEF OnePlace
    <3> QED BY <1>5, <3>1 DEF OnePlace
  <2>3. Range(req_list) = {}
    BY <1>4, <1>5, EmptyRange DEF OnePlace
  <2>4. {q \in Req : lbuf'[q] # NULL} = work_Q' \cup Range(req_list')
    BY <1>3, <1>4, <1>6, <2>1, <2>2, <2>3
  <2>5. IsInjective(req_list') /\ Range(req_list') \cap work_Q' = {}
    BY <1>3, <1>4, <1>6
  <2> QED BY <1>4, <1>5, <2>4, <2>5 DEF OnePlace, Blocked
<1>13. ComplcntCounts'
  <2>1. \A l \in Lv :
          {q \in inflight' : lbuf'[q].dev = l} = {q \in inflight : lbuf[q].dev = l}
    BY <1>4, <1>5, <1>7 DEF ComplcntCounts
  <2> QED BY <1>4, <1>5, <2>1 DEF ComplcntCounts
<1>14. Closing' /\ ClosedIsQuiet'
  BY <1>4, <1>5, <1>7 DEF Closing, ClosedIsQuiet
<1>15. FinishedOnce' /\ PbufsAccounted' /\ Redriven'
  BY <1>4, <1>5 DEF FinishedOnce, PbufsAccounted, Redriven
<1> QED BY <1>9, <1>10, <1>11, <1>12, <1>13, <1>14, <1>15 DEF IInv

LEMMA InitiateIInv == ASSUME IInv, hd_initiate PROVE IInv'
<1> DEFINE r == Head(req_list)
<1>1. /\ lock = "initiate" /\ req_list # <<>> /\ req_list' = Tail(req_list)
      /\ \/ /\ validate_req(r) /\ serialize_data_access(r)
            /\ pending_Q' = IF b_error'[r] = "ELBBLOCKED" THEN pending_Q
                                                          ELSE Append(pending_Q, r)
            /\ UNCHANGED lbuf
         \/ /\ lbuf' = [lbuf EXCEPT ![r] = NULL]
            /\ UNCHANGED <<work_Q, older, b_error, pending_Q>>
      /\ UNCHANGED <<lv_status, VG_FORCEDOFF, inflight, complcnt, hd_freebuf,
                     started, iodonelist, lock, quiet>>
  BY DEF hd_initiate
<1>2. /\ TypeOK /\ Chains /\ BlockedByOlder /\ OnePlace /\ FinishedOnce
      /\ ComplcntCounts /\ PbufsAccounted /\ Closing /\ ClosedIsQuiet
  BY DEF IInv
<1>3. /\ Tail(req_list) \in Seq(Req) /\ r \in Req
      /\ Range(req_list) = {r} \cup Range(Tail(req_list))
      /\ IsInjective(Tail(req_list)) /\ r \notin Range(Tail(req_list))
  BY <1>1, <1>2, RangeTail DEF TypeOK, OnePlace
<1> HIDE DEF r
<1>4. /\ r \notin work_Q /\ lbuf[r] # NULL /\ r \notin Range(pending_Q)
      /\ r \notin started /\ r \notin inflight
      /\ \A q \in Req : r \notin older[q]
  <2>1. r \notin work_Q /\ lbuf[r] # NULL
    BY <1>2, <1>3 DEF OnePlace
  <2>2. \A q \in Req : older[q] \subseteq work_Q
    BY <1>2 DEF Chains, Chain
  <2> QED BY <2>1, <2>2, <1>2 DEF OnePlace, ComplcntCounts
<1>5. /\ \A q \in Req : lbuf[q] # NULL <=> q \in work_Q \/ q \in Range(req_list)
      /\ \A q \in work_Q : q \in Req /\ q \notin Range(req_list)
  <2>1. Range(req_list) \subseteq {q \in Req : lbuf[q] # NULL}
    BY <1>2 DEF OnePlace
  <2> QED BY <1>2, <2>1 DEF OnePlace, TypeOK
<1>6. FinishedOnce' /\ PbufsAccounted' /\ Redriven'
  BY <1>1, <1>2 DEF FinishedOnce, PbufsAccounted, Redriven
<1>7. CASE /\ lbuf' = [lbuf EXCEPT ![r] = NULL]
           /\ UNCHANGED <<work_Q, older, b_error, pending_Q>>
  <2>1. \A q \in work_Q : lbuf'[q] = lbuf[q]
    BY <1>2, <1>4, <1>7 DEF TypeOK
  <2>2. TypeOK'
    BY <1>1, <1>2, <1>3, <1>7 DEF TypeOK
  <2>3. Chains'
    <3>1. \A q \in work_Q : Chain(q)' = Chain(q)
      BY <1>7, <2>1 DEF Chain, HD_HASH
    <3> QED BY <1>2, <1>7, <3>1 DEF Chains
  <2>4. BlockedByOlder'
    <3>1. ASSUME NEW q \in work_Q, NEW p \in older[q]
          PROVE  SameData(p, q)' <=> SameData(p, q)
      <4>1. p \in work_Q
        BY <1>2 DEF Chains, Chain
      <4> QED BY <2>1, <4>1 DEF SameData
    <3> QED BY <1>2, <1>7, <3>1 DEF BlockedByOlder, Blocked
  <2>5. OnePlace'
    <3>1. \A q \in Req : lbuf'[q] # NULL <=> lbuf[q] # NULL /\ q # r
      BY <1>2, <1>7 DEF TypeOK
    <3>2. {q \in Req : lbuf'[q] # NULL} = work_Q' \cup Range(req_list')
      <4>1. \A q \in Range(req_list') : q \in Req
        BY <1>1, <1>2, <1>3 DEF OnePlace
      <4> QED BY <1>1, <1>3, <1>4, <1>5, <1>7, <3>1, <4>1
    <3>3. IsInjective(req_list') /\ Range(req_list') \cap work_Q' = {}
      BY <1>1, <1>3, <1>5, <1>7
    <3> QED BY <1>1, <1>2, <1>7, <3>2, <3>3 DEF OnePlace, Blocked
  <2>6. ComplcntCounts'
    <3>1. \A l \in Lv :
            {q \in inflight' : lbuf'[q].dev = l} = {q \in inflight : lbuf[q].dev = l}
      BY <1>1, <1>2, <2>1 DEF ComplcntCounts
    <3> QED BY <1>1, <1>2, <1>7, <3>1 DEF ComplcntCounts
  <2>7. Closing' /\ ClosedIsQuiet'
    BY <1>1, <1>2, <1>7, <2>1 DEF Closing, ClosedIsQuiet
  <2> QED BY <1>6, <2>2, <2>3, <2>4, <2>5, <2>6, <2>7 DEF IInv
<1>8. CASE /\ validate_req(r) /\ serialize_data_access(r)
           /\ pending_Q' = IF b_error'[r] = "ELBBLOCKED" THEN pending_Q
                                                         ELSE Append(pending_Q, r)
           /\ UNCHANGED lbuf
  <2>1. /\ work_Q' = work_Q \cup {r} /\ lbuf' = lbuf
        /\ older' = [older EXCEPT ![r] = Chain(r)]
        /\ b_error' = [b_error EXCEPT
             ![r] = IF Overlaps(r, Chain(r)) THEN "ELBBLOCKED" ELSE "none"]
    BY <1>8 DEF serialize_data_access
  <2>2. /\ older'[r] = Chain(r) /\ \A q \in Req : q # r => older'[q] = older[q]
        /\ b_error'[r] = "ELBBLOCKED" <=> Overlaps(r, Chain(r))
        /\ \A q \in Req : q # r => b_error'[q] = b_error[q]
    BY <1>2, <1>3, <2>1 DEF TypeOK
  <2>3. Chain(r) \subseteq work_Q /\ r \notin Chain(r)
    BY <1>4 DEF Chain
  <2>4. /\ Append(pending_Q, r) \in Seq(Req)
        /\ Range(Append(pending_Q, r)) = Range(pending_Q) \cup {r}
        /\ IsInjective(Append(pending_Q, r))
    BY <1>2, <1>3, <1>4, RangeAppend DEF TypeOK, OnePlace
  <2>5. TypeOK'
    <3>1. older' \in [Req -> SUBSET Req]
      BY <1>2, <2>1, <2>3 DEF TypeOK
    <3>2. b_error' \in [Req -> {"none", "ELBBLOCKED"}]
      BY <1>2, <2>1 DEF TypeOK
    <3>3. pending_Q' \in Seq(Req) /\ work_Q' \in SUBSET Req /\ req_list' \in Seq(Req)
      BY <1>1, <1>2, <1>3, <1>8, <2>1, <2>4 DEF TypeOK
    <3> QED BY <1>1, <1>2, <2>1, <3>1, <3>2, <3>3 DEF TypeOK
  <2>6. Chains'
    <3>2. \A q \in work_Q : older'[q] = older[q] /\ q \in Req /\ q # r
      BY <1>4, <1>5, <2>2
    <3>3. \A q \in Req \ work_Q' : older'[q] = {}
      BY <1>2, <2>1, <2>2 DEF Chains
    <3>4. ASSUME NEW q \in work_Q'
          PROVE  older'[q] \subseteq Chain(q)' \ {q}
      <4>1. CASE q = r
        BY <2>1, <2>2, <2>3, <4>1 DEF Chain, HD_HASH
      <4>2. CASE q # r
        <5>1. q \in work_Q /\ q \in Req /\ older'[q] = older[q]
          BY <2>1, <3>2, <4>2
        <5>2. older[q] \subseteq Chain(q) \ {q}
          BY <1>2, <5>1 DEF Chains
        <5>3. \A p \in older[q] : p # r
          BY <1>4, <5>1
        <5>4. \A p \in older[q] : p \in Chain(q)'
          BY <2>1, <5>2 DEF Chain, HD_HASH
        <5> QED BY <5>1, <5>2, <5>4
      <4> QED BY <4>1, <4>2
    <3>5. ASSUME NEW q \in work_Q', NEW p \in older'[q]
          PROVE  older'[p] \subseteq older'[q]
      <4>1. p \in work_Q
        <5>1. CASE q = r
          BY <2>2, <2>3, <5>1
        <5>2. CASE q # r
          BY <1>2, <2>1, <3>2, <5>2 DEF Chains, Chain
        <5> QED BY <5>1, <5>2
      <4>2. CASE q = r
        <5>1. p \in Chain(r)
          BY <2>2, <4>2
        <5>2. Chain(p) \subseteq Chain(r)
          BY <5>1 DEF Chain, HD_HASH
        <5>3. older'[p] \subseteq Chain(p)
          BY <1>2, <3>2, <4>1 DEF Chains
        <5> QED BY <2>2, <4>2, <5>2, <5>3
      <4>3. CASE q # r
        BY <1>2, <2>1, <3>2, <4>1, <4>3 DEF Chains
      <4> QED BY <4>2, <4>3
    <3>6. ASSUME NEW q \in work_Q', NEW p \in Chain(q)'
          PROVE  p = q \/ p \in older'[q] \/ q \in older'[p]
      <4>1. CASE q # r /\ p # r
        <5>1. q \in work_Q /\ p \in Chain(q) /\ p \in work_Q
          BY <2>1, <4>1 DEF Chain, HD_HASH
        <5> QED BY <1>2, <3>2, <5>1 DEF Chains
      <4>2. CASE q = r /\ p # r
        BY <2>1, <2>2, <4>2 DEF Chain, HD_HASH
      <4>3. CASE q # r /\ p = r
        <5>1. q \in Chain(r)
          BY <2>1, <4>3 DEF Chain, HD_HASH
        <5> QED BY <2>2, <4>3, <5>1
      <4> QED BY <4>1, <4>2, <4>3
    <3> QED BY <3>3, <3>4, <3>5, <3>6 DEF Chains
  <2>7. BlockedByOlder'
    <3>1. Overlaps(r, Chain(r)) <=> \E p \in Chain(r) : SameData(p, r)
      <4>1. \A p \in Chain(r) : lbuf[p].dev = lbuf[r].dev
        BY DEF Chain
      <4> QED BY <4>1, OverlapsSameData
    <3>2. \A p, q : SameData(p, q)' <=> SameData(p, q)
      BY <2>1 DEF SameData
    <3>3. ASSUME NEW q \in work_Q'
          PROVE  b_error'[q] = "ELBBLOCKED" <=> \E p \in older'[q] : SameData(p, q)'
      <4>1. CASE q = r
        BY <2>2, <3>1, <3>2, <4>1
      <4>2. CASE q # r
        BY <1>2, <1>5, <2>1, <2>2, <3>2, <4>2 DEF BlockedByOlder, Blocked
      <4> QED BY <4>1, <4>2
    <3> QED BY <3>3 DEF BlockedByOlder, Blocked
  <2>8. OnePlace'
    <3>1. {q \in Req : lbuf'[q] # NULL} = work_Q' \cup Range(req_list')
      <4>1. \A q \in Range(req_list') : q \in Req
        BY <1>1, <1>2, <1>3 DEF OnePlace
      <4> QED BY <1>1, <1>3, <1>5, <2>1, <4>1
    <3>2. /\ lock' = "initiate" /\ IsInjective(req_list')
          /\ Range(req_list') \cap work_Q' = {}
      BY <1>1, <1>3, <1>5, <2>1
    <3>3. Range(pending_Q') = Range(pending_Q)
            \cup (IF b_error'[r] = "ELBBLOCKED" THEN {} ELSE {r})
          /\ IsInjective(pending_Q')
      BY <1>2, <1>8, <2>4 DEF OnePlace
    <3>4. {q \in work_Q' : b_error'[q] # "ELBBLOCKED"} = Range(pending_Q') \cup started'
      <4>1. \A q \in work_Q : b_error'[q] = b_error[q]
        BY <1>4, <1>5, <2>2
      <4>2. \A q \in work_Q : b_error[q] # "ELBBLOCKED"
                                <=> q \in Range(pending_Q) \cup started
        BY <1>2 DEF OnePlace, Blocked
      <4>3. started \subseteq work_Q /\ Range(pending_Q) \subseteq work_Q
        BY <1>2 DEF OnePlace
      <4> QED BY <1>1, <1>4, <2>1, <3>3, <4>1, <4>2, <4>3
    <3>5. /\ Range(pending_Q') \cap started' = {}
          /\ started' \subseteq work_Q' /\ Range(pending_Q') \subseteq work_Q'
      BY <1>1, <1>2, <1>4, <2>1, <3>3 DEF OnePlace
    <3> QED BY <3>1, <3>2, <3>3, <3>4, <3>5 DEF OnePlace, Blocked
  <2>9. ComplcntCounts'
    BY <1>1, <1>2, <2>1 DEF ComplcntCounts
  <2>10. Closing' /\ ClosedIsQuiet'
    <3>1. lv_status[lbuf[r].dev] = "LV_OPEN"
      BY <1>8 DEF validate_req
    <3>2. lbuf[r].dev \in Lv
      BY <1>2, <1>3, <1>4, HeldHasExtent
    <3>3. ASSUME quiet.pc \in {"asleep", "awake"}, quiet.op = "close"
          PROVE  \A q \in work_Q' : lbuf[q].dev = quiet.lv => q \in inflight
      <4>1. lbuf[r].dev # quiet.lv
        BY <1>2, <3>1, <3>2, <3>3 DEF Closing, Idle
      <4> QED BY <1>2, <2>1, <3>3, <4>1 DEF Closing
    <3> QED BY <1>1, <1>2, <2>1, <3>1, <3>3 DEF Closing, ClosedIsQuiet
  <2> QED BY <1>6, <2>5, <2>6, <2>7, <2>8, <2>9, <2>10 DEF IInv
<1> QED BY <1>1, <1>7, <1>8

-----------------------------------------------------------------------------
LEMMA NextIInv == ASSUME IInv, [Next]_vars PROVE IInv'
<1>1. CASE Strategy
  BY <1>1, StrategyIInv
<1>2. CASE hd_initiate
  BY <1>2, InitiateIInv
<1>3. CASE Initiated
  BY <1>3, InitiatedIInv
<1>4. CASE Schedule
  BY <1>4, RefuseIInv, BeginIInv, ScheduledIInv DEF Schedule
<1>5. ASSUME NEW c \in Cpu, Offlevel(c) PROVE IInv'
  BY <1>5, EndIInv, OtherDoneIInv DEF Offlevel
<1>6. ASSUME NEW c \in Cpu, NEW b \in Req \cup {Other}, iodone(c, b) PROVE IInv'
  BY <1>6, IodoneIInv
<1>7. CASE ForceOff
  BY <1>7, ForceOffIInv
<1>8. CASE Config
  BY <1>8, ConfigIInv
<1>9. CASE Quiet
  BY <1>9, QuietIInv, WakesIInv DEF Quiet
<1>10. CASE UNCHANGED vars
  BY <1>10, StutterIInv
<1> QED
  BY <1>1, <1>2, <1>3, <1>4, <1>5, <1>6, <1>7, <1>8, <1>9, <1>10 DEF Next

(* The inductive invariant holds in every state of the strategy layer, for  *)
(* any number of requests, volumes, processors and physical buffers.        *)
THEOREM Invariance == Spec => []IInv
<1>1. Init => IInv
  BY InitIInv
<1>2. IInv /\ [Next]_vars => IInv'
  BY NextIInv
<1> QED BY <1>1, <1>2, PTL DEF Spec

(* Every variable of the driver keeps its type; in particular complcnt and  *)
(* hd_freebuf never underflow in hd_terminate and hd_regular.               *)
THEOREM TypesCorrect == Spec => []TypeOK
<1>1. IInv => TypeOK
  BY DEF IInv
<1> QED BY <1>1, Invariance, PTL

(* Requests with conflicting data are never with the scheduler together:    *)
(* of two of them one is blocked on its chain, so it is not pending and its *)
(* transfer is not started (serialize_data_access, hd_unblock).             *)
THEOREM SerialAccessHolds == Spec => []SerialAccess
<1>1. ASSUME IInv PROVE SerialAccess
  <2> SUFFICES ASSUME NEW p \in Req, NEW q \in Req, p # q, Holding(p), Holding(q),
                      SameData(p, q)
               PROVE  FALSE
    BY DEF SerialAccess
  <2>1. /\ p \in work_Q /\ ~Blocked(p)
        /\ q \in work_Q /\ ~Blocked(q)
    BY <1>1 DEF IInv, OnePlace, Holding
  <2>2. q \in Chain(p)
    BY <2>1 DEF SameData, Chain, HD_HASH
  <2>3. p \in older[q] \/ q \in older[p]
    BY <1>1, <2>1, <2>2 DEF IInv, Chains
  <2>4. SameData(q, p)
    BY DEF SameData
  <2> QED BY <1>1, <2>1, <2>3, <2>4 DEF IInv, BlockedByOlder
<1> QED BY <1>1, Invariance, PTL

(* A request stays blocked exactly as long as an older one for its data is  *)
(* outstanding: hd_terminate neither forgets one nor lets one pass.         *)
THEOREM BlockedByOlderHolds == Spec => []BlockedByOlder
<1>1. IInv => BlockedByOlder
  BY DEF IInv
<1> QED BY <1>1, Invariance, PTL

(* Each outstanding request is in one place: pending_Q, a physical buffer,  *)
(* an iodonelist, or blocked; hd_terminate moves no request to two of them. *)
THEOREM OnePlaceHolds == Spec => []OnePlace
<1>1. IInv => OnePlace
  BY DEF IInv
<1> QED BY <1>1, Invariance, PTL

(* complcnt of a volume counts the requests that hd_quiet has marked and     *)
(* hd_terminate has not yet seen the end of.                                *)
THEOREM ComplcntCountsHolds == Spec => []ComplcntCounts
<1>1. IInv => ComplcntCounts
  BY DEF IInv
<1> QED BY <1>1, Invariance, PTL

(* When hd_close frees the work_Q of a volume, nothing is linked on it.     *)
THEOREM ClosedIsQuietHolds == Spec => []ClosedIsQuiet
<1>1. IInv => ClosedIsQuiet
  BY DEF IInv
<1> QED BY <1>1, Invariance, PTL

(* hd_schedule is run for whatever is pending once a physical buffer comes  *)
(* free, in spite of the hd_end calls that skip it.                         *)
THEOREM RedrivenHolds == Spec => []Redriven
<1>1. IInv => Redriven
  BY DEF IInv
<1> QED BY <1>1, Invariance, PTL

(* hd_quiet returns only when the requests it marked are gone.              *)
THEOREM QuietIsQuietHolds == Spec => QuietIsQuiet
<1>1. ASSUME IInv, [Next]_vars, quiet # Idle, quiet' = Idle
      PROVE  \A r \in work_Q' : lbuf'[r].dev = quiet.lv => r \notin inflight'
  <2>1. quiet.lv \in Lv
    BY <1>1 DEF IInv, TypeOK, QuietState
  <2>2. CASE hd_quiet
    <3>1. {r \in work_Q : lbuf[r].dev = quiet.lv} = {}
      BY <1>1, <2>2 DEF hd_quiet, Idle, IInv, TypeOK, QuietState
    <3> QED BY <2>2, <3>1 DEF hd_quiet
  <2>3. CASE QuietWakes
    <3>1. complcnt[quiet.lv] = 0
      BY <1>1, <2>3 DEF QuietWakes, Idle, IInv, TypeOK, QuietState
    <3>2. \A r \in inflight : lbuf[r].dev # quiet.lv
      BY <1>1, <2>1, <3>1, NoneMarked
    <3> QED BY <2>3, <3>2 DEF QuietWakes, qvars
  <2>4. ASSUME NEW c \in Cpu, hd_end(c) PROVE FALSE
    BY <1>1, <2>4 DEF hd_end, hd_terminate, Idle, IInv, TypeOK, QuietState
  <2>5. CASE Refuse
    BY <1>1, <2>5 DEF Refuse, hd_terminate, Idle, IInv, TypeOK, QuietState
  <2>6. quiet' = quiet \/ hd_quiet \/ QuietWakes \/ Refuse \/ \E c \in Cpu : hd_end(c)
    BY <1>1 DEF Next, Strategy, hd_strategy, hd_initiate, Initiated, Schedule, Begin,
       Scheduled, Offlevel, OtherDone, iodone, ForceOff, Config, hd_open, hd_close,
       Drain, Quiet, vars
  <2> QED BY <1>1, <2>2, <2>3, <2>4, <2>5, <2>6
<1>2. IInv /\ [Next]_vars =>
        [quiet # Idle /\ quiet' = Idle =>
           \A r \in work_Q' : lbuf'[r].dev = quiet.lv => r \notin inflight']_vars
  BY <1>1
<1> QED BY <1>2, Invariance, PTL DEF Spec, QuietIsQuiet

----------------------------------------------------------------------------
(* The strategy layer keeps the promise of LvSerial: every step of HdStrat *)
(* is a step of LvSerial or a stutter.                                     *)

(* The refinement mapping, as operators of the step's two states.           *)
touches == [r \in Req |-> DataOf(r)]
ahead == [r \in Req |-> {p \in older[r] : SameData(p, r)}]

(* Requests touch common data when they work on a common page.              *)
LEMMA TouchCommon ==
  ASSUME IInv, NEW p \in work_Q, NEW q \in Req, lbuf[q] # NULL
  PROVE  DataOf(p) \cap ({lbuf[q].dev} \X {lbuf[q].trk} \X lbuf[q].work) # {}
           <=> SameData(p, q)
<1>1. DataOf(p) = {lbuf[p].dev} \X {lbuf[p].trk} \X lbuf[p].work
  BY DEF DataOf
<1>2. ASSUME NEW x \in lbuf[p].work, x \in lbuf[q].work,
             lbuf[p].dev = lbuf[q].dev, lbuf[p].trk = lbuf[q].trk
      PROVE  <<lbuf[p].dev, lbuf[p].trk, x>> \in
               DataOf(p) \cap ({lbuf[q].dev} \X {lbuf[q].trk} \X lbuf[q].work)
  BY <1>1, <1>2
<1>3. ASSUME NEW d \in DataOf(p) \cap ({lbuf[q].dev} \X {lbuf[q].trk} \X lbuf[q].work)
      PROVE  SameData(p, q)
  BY <1>1, <1>3 DEF SameData
<1> QED BY <1>2, <1>3 DEF SameData

(* A request that nothing blocks has nothing ahead of it.                   *)
LEMMA NothingAhead ==
  ASSUME IInv, NEW r \in work_Q, ~Blocked(r)
  PROVE  ahead[r] = {}
<1>1. r \in Req
  BY DEF IInv, TypeOK
<1>2. \A p \in older[r] : ~SameData(p, r)
  BY DEF IInv, BlockedByOlder
<1> QED BY <1>1, <1>2 DEF ahead

LEMMA InitPromise ==
  ASSUME Init
  PROVE  /\ work_Q = {} /\ started = {} /\ VG_FORCEDOFF = FALSE
         /\ touches = [r \in Req |-> {}] /\ ahead = [r \in Req |-> {}]
BY DEF Init, touches, ahead, DataOf

(* Parameters change only for requests that are not on a chain.             *)
LEMMA SameMapping ==
  ASSUME IInv, UNCHANGED <<work_Q, older>>, \A q \in work_Q : lbuf'[q] = lbuf[q]
  PROVE  touches' = touches /\ ahead' = ahead
<1>1. ASSUME NEW q \in Req
      PROVE  DataOf(q)' = DataOf(q)
  BY DEF DataOf
<1>2. ASSUME NEW q \in Req
      PROVE  {p \in older[q] : SameData(p, q)}' = {p \in older[q] : SameData(p, q)}
  <2>1. CASE q \in work_Q
    <3>1. older[q] \subseteq work_Q
      BY <2>1 DEF IInv, Chains, Chain
    <3> QED BY <2>1, <3>1 DEF SameData
  <2>2. CASE q \notin work_Q
    <3>1. older[q] = {}
      BY <2>2 DEF IInv, Chains
    <3> QED BY <3>1
  <2> QED BY <2>1, <2>2
<1>3. touches' = touches
  BY DEF touches, DataOf
<1>4. ahead' = ahead
  BY <1>2 DEF ahead, SameData
<1> QED BY <1>3, <1>4

(* A valid request is accepted behind those it shares data with.            *)
LEMMA AcceptStep ==
  ASSUME IInv, NEW r \in Req, r \notin work_Q, lbuf[r] # NULL,
         serialize_data_access(r), lbuf' = lbuf
  PROVE  \E D \in (SUBSET (Lv \X Trk \X Page)) \ {{}} :
           /\ touches' = [touches EXCEPT ![r] = D]
           /\ ahead' = [ahead EXCEPT ![r] = {q \in work_Q : touches[q] \cap D # {}}]
<1> DEFINE D == {lbuf[r].dev} \X {lbuf[r].trk} \X lbuf[r].work
<1>1. /\ work_Q' = work_Q \cup {r}
      /\ older' = [older EXCEPT ![r] = Chain(r)]
      /\ older \in [Req -> SUBSET Req] /\ work_Q \subseteq Req
  BY DEF serialize_data_access, IInv, TypeOK
<1>2. D \in (SUBSET (Lv \X Trk \X Page)) \ {{}}
  <2>1. lbuf[r] \in Extent
    BY DEF IInv, TypeOK
  <2>2. lbuf[r].dev \in Lv /\ lbuf[r].trk \in Trk /\ lbuf[r].work \in (SUBSET Page) \ {{}}
    BY <2>1 DEF Extent
  <2>6. lbuf[r].work # {}
    BY <2>2
  <2>3. PICK x : x \in lbuf[r].work
    BY <2>6
  <2>4. <<lbuf[r].dev, lbuf[r].trk, x>> \in D
    BY <2>3
  <2>5. D \subseteq Lv \X Trk \X Page
    BY <2>2
  <2> HIDE DEF D
  <2> QED BY <2>4, <2>5
<1>3. touches' = [touches EXCEPT ![r] = D]
  <2>1. ASSUME NEW q \in Req
        PROVE  DataOf(q)' = IF q = r THEN D ELSE DataOf(q)
    BY <1>1 DEF DataOf
  <2>2. touches' = [q \in Req |-> IF q = r THEN D ELSE DataOf(q)]
    BY <2>1 DEF touches, DataOf
  <2> QED BY <2>2 DEF touches
<1>4. \A q \in work_Q : touches[q] \cap D # {} <=> SameData(q, r)
  <2>1. \A q \in work_Q : touches[q] = DataOf(q)
    BY <1>1 DEF touches
  <2> QED BY <2>1, TouchCommon
<1>5. \A q \in work_Q : SameData(q, r) => q \in Chain(r)
  BY DEF SameData, Chain, HD_HASH
<1> HIDE DEF D
<1>6. {p \in Chain(r) : SameData(p, r)} = {q \in work_Q : touches[q] \cap D # {}}
  BY <1>4, <1>5 DEF Chain
<1>7. ahead' = [q \in Req |-> {p \in older'[q] : SameData(p, q)}]
  BY DEF ahead, SameData
<1>8. older' = [q \in Req |-> IF q = r THEN Chain(r) ELSE older[q]]
  BY <1>1
<1>9. ahead' = [ahead EXCEPT ![r] = {p \in Chain(r) : SameData(p, r)}]
  BY <1>7, <1>8 DEF ahead
<1> QED BY <1>2, <1>3, <1>6, <1>9

(* hd_terminate returns a request and those it refuses.                     *)
LEMMA ReturnStep ==
  ASSUME IInv, NEW r \in work_Q, ~Blocked(r), NEW pq \in Seq(Req),
         hd_terminate(r, pq), started' = started \ {r}
  PROVE  \E R \in SUBSET Req :
           /\ R # {} /\ R \subseteq work_Q
           /\ VG_FORCEDOFF' \in {VG_FORCEDOFF, TRUE}
           /\ VG_FORCEDOFF' \/ \A q \in R : ahead[q] = {}
           /\ work_Q' = work_Q \ R
           /\ started' = started \ R
           /\ touches' = [q \in Req |-> IF q \in R THEN {} ELSE touches[q]]
           /\ ahead' = [q \in Req |-> IF q \in R THEN {} ELSE ahead[q] \ R]
<1>1. TypeOK /\ Chains /\ OnePlace
  BY DEF IInv
<1>2. PICK refused \in SUBSET work_Q, ready \in SUBSET work_Q :
         TerminateEffect(r, pq, refused, ready)
  BY <1>1, TerminateFacts
<1> DEFINE R == {r} \cup refused
<1>3. R \in SUBSET Req /\ R # {} /\ R \subseteq work_Q
  BY <1>1 DEF TypeOK
<1>4. /\ work_Q' = work_Q \ R
      /\ older' = [q \in Req |-> IF q \in R THEN {} ELSE older[q] \ R]
      /\ lbuf' = [q \in Req |-> IF q \in R THEN NULL ELSE lbuf[q]]
      /\ VG_FORCEDOFF' = (VG_FORCEDOFF \/ refused # {})
      /\ \A q \in refused : Blocked(q)
  BY <1>2 DEF TerminateEffect
<1>5. VG_FORCEDOFF' \in {VG_FORCEDOFF, TRUE}
  BY <1>1, <1>4 DEF TypeOK
<1>6. VG_FORCEDOFF' \/ \A q \in R : ahead[q] = {}
  BY <1>4, NothingAhead
<1>7. started' = started \ R
  BY <1>1, <1>4 DEF OnePlace
<1>8. touches' = [q \in Req |-> IF q \in R THEN {} ELSE touches[q]]
  BY <1>3, <1>4 DEF touches, DataOf
<1>9. ahead' = [q \in Req |-> IF q \in R THEN {} ELSE ahead[q] \ R]
  <2>1. ahead' = [q \in Req |-> {p \in older'[q] : SameData(p, q)'}]
    BY DEF ahead, SameData
  <2>2. ASSUME NEW q \in Req
        PROVE  {p \in older'[q] : SameData(p, q)'}
                 = IF q \in R THEN {} ELSE ahead[q] \ R
    <3>1. CASE q \in R
      BY <1>4, <3>1
    <3>2. CASE q \notin R
      <4>1. older'[q] = older[q] \ R /\ lbuf'[q] = lbuf[q]
        BY <1>4, <3>2
      <4>2. \A p \in older[q] \ R : lbuf'[p] = lbuf[p]
        BY <1>1, <1>4 DEF TypeOK
      <4>3. {p \in older'[q] : SameData(p, q)'} = {p \in older[q] \ R : SameData(p, q)}
        BY <4>1, <4>2 DEF SameData
      <4>4. ahead[q] = {p \in older[q] : SameData(p, q)}
        BY DEF ahead
      <4> QED BY <3>2, <4>3, <4>4
    <3> QED BY <3>1, <3>2
  <2> QED BY <2>1, <2>2
<1> QED BY <1>3, <1>4, <1>5, <1>6, <1>7, <1>8, <1>9

(* The steps of the promise, with the mapping substituted.                  *)
LEMMA PromiseAccept ==
  ASSUME NEW r \in Req, NEW D \in (SUBSET (Lv \X Trk \X Page)) \ {{}},
         r \notin work_Q, work_Q' = work_Q \cup {r},
         touches' = [touches EXCEPT ![r] = D],
         ahead' = [ahead EXCEPT ![r] = {q \in work_Q : touches[q] \cap D # {}}],
         UNCHANGED <<started, VG_FORCEDOFF>>
  PROVE  Promise!Next
BY DEF Promise!Next, Promise!Accept, touches, ahead

LEMMA PromiseServe ==
  ASSUME NEW r \in Req, r \in work_Q \ started, ahead[r] = {},
         started' = started \cup {r}, touches' = touches, ahead' = ahead,
         UNCHANGED <<work_Q, VG_FORCEDOFF>>
  PROVE  Promise!Next
BY DEF Promise!Next, Promise!Serve, touches, ahead

LEMMA PromiseReturn ==
  ASSUME NEW R \in SUBSET Req, R # {}, R \subseteq work_Q,
         VG_FORCEDOFF' \in {VG_FORCEDOFF, TRUE},
         VG_FORCEDOFF' \/ \A q \in R : ahead[q] = {},
         work_Q' = work_Q \ R, started' = started \ R,
         touches' = [q \in Req |-> IF q \in R THEN {} ELSE touches[q]],
         ahead' = [q \in Req |-> IF q \in R THEN {} ELSE ahead[q] \ R]
  PROVE  Promise!Next
BY DEF Promise!Next, Promise!Return, touches, ahead

LEMMA PromiseStutter ==
  ASSUME touches' = touches, ahead' = ahead, UNCHANGED <<work_Q, started, VG_FORCEDOFF>>
  PROVE  UNCHANGED Promise!vars
BY DEF Promise!vars, touches, ahead

LEMMA StepPromise ==
  ASSUME IInv, [Next]_vars
  PROVE  [Promise!Next]_(Promise!vars)
<1>1. CASE UNCHANGED <<work_Q, older, started, VG_FORCEDOFF, lbuf>>
  BY <1>1, SameMapping, PromiseStutter
<1>2. CASE Strategy
  <2>1. /\ UNCHANGED <<work_Q, older, started, VG_FORCEDOFF>>
        /\ \A q \in work_Q : lbuf'[q] = lbuf[q]
    <3>1. PICK list \in ReqLists : \E ext \in [Range(list) -> Extent] :
                 hd_strategy(list, ext)
      BY <1>2 DEF Strategy
    <3>2. /\ \A q \in Range(list) : lbuf[q] = NULL
          /\ \A q \in Req : q \notin Range(list) => lbuf'[q] = lbuf[q]
          /\ UNCHANGED <<work_Q, older, started, VG_FORCEDOFF>>
      BY <3>1 DEF hd_strategy, Range
    <3>3. \A q \in work_Q : q \in Req /\ lbuf[q] # NULL
      BY DEF IInv, TypeOK, OnePlace
    <3> QED BY <3>2, <3>3
  <2> QED BY <2>1, SameMapping, PromiseStutter
<1>3. CASE hd_initiate
  <2> DEFINE r == Head(req_list)
  <2>1. r \in Req /\ r \notin work_Q /\ lbuf[r] # NULL
    <3>1. Range(req_list) = {r} \cup Range(Tail(req_list)) /\ r \in Req
      BY <1>3, RangeTail DEF hd_initiate, IInv, TypeOK
    <3> QED BY <3>1 DEF IInv, OnePlace
  <2>2. CASE validate_req(r)
    <3>1. /\ serialize_data_access(r) /\ UNCHANGED <<lbuf, started, VG_FORCEDOFF>>
          /\ work_Q' = work_Q \cup {r}
      BY <1>3, <2>2 DEF hd_initiate, serialize_data_access
    <3> HIDE DEF r
    <3>2. PICK D \in (SUBSET (Lv \X Trk \X Page)) \ {{}} :
            /\ touches' = [touches EXCEPT ![r] = D]
            /\ ahead' = [ahead EXCEPT ![r] = {q \in work_Q : touches[q] \cap D # {}}]
      BY <2>1, <3>1, AcceptStep
    <3> QED BY <2>1, <3>1, <3>2, PromiseAccept
  <2>3. CASE ~validate_req(r)
    <3>1. /\ lbuf' = [lbuf EXCEPT ![r] = NULL]
          /\ UNCHANGED <<work_Q, older, started, VG_FORCEDOFF>>
      BY <1>3, <2>3 DEF hd_initiate
    <3>2. \A q \in work_Q : lbuf'[q] = lbuf[q]
      BY <2>1, <3>1 DEF IInv, TypeOK
    <3> QED BY <3>1, <3>2, SameMapping, PromiseStutter
  <2> QED BY <2>2, <2>3
<1>4. CASE Refuse
  <2> DEFINE r == Head(pending_Q)
             pq == Tail(pending_Q)
  <2>1. /\ hd_terminate(r, pq) /\ started' = started
        /\ pq \in Seq(Req) /\ r \in Range(pending_Q)
    BY <1>4, RangeTail DEF Refuse, IInv, TypeOK
  <2>2. r \in work_Q /\ ~Blocked(r) /\ started' = started \ {r}
    BY <2>1 DEF IInv, OnePlace
  <2> HIDE DEF r, pq
  <2> QED BY <2>1, <2>2, ReturnStep, PromiseReturn
<1>5. CASE Begin
  <2> DEFINE r == Head(pending_Q)
  <2>1. r \in Range(pending_Q) /\ r \in Req
    BY <1>5, RangeTail DEF Begin, IInv, TypeOK
  <2>2. r \in work_Q /\ ~Blocked(r) /\ r \notin started
    BY <2>1 DEF IInv, OnePlace
  <2>3. /\ started' = started \cup {r}
        /\ UNCHANGED <<work_Q, older, lbuf, VG_FORCEDOFF>>
    BY <1>5 DEF Begin, qvars
  <2> HIDE DEF r
  <2>4. touches' = touches /\ ahead' = ahead
    BY <2>3, SameMapping
  <2>5. ahead[r] = {}
    BY <2>2, NothingAhead
  <2> QED BY <2>1, <2>2, <2>3, <2>4, <2>5, PromiseServe
<1>6. ASSUME NEW c \in Cpu, hd_end(c)
      PROVE  Promise!Next
  <2> DEFINE r == Head(iodonelist[c])
  <2>1. /\ hd_terminate(r, pending_Q) /\ started' = started \ {r}
        /\ r \in Req /\ r \in Range(iodonelist[c])
    BY <1>6, RangeTail DEF hd_end, IInv, TypeOK
  <2>2. r \in work_Q /\ ~Blocked(r) /\ pending_Q \in Seq(Req)
    BY <2>1 DEF IInv, OnePlace, FinishedOnce, TypeOK
  <2> HIDE DEF r
  <2> QED BY <2>1, <2>2, ReturnStep, PromiseReturn
<1>7. CASE ForceOff
  <2>1. UNCHANGED <<work_Q, older, lbuf, started>> /\ VG_FORCEDOFF' = TRUE
    BY <1>7 DEF ForceOff, qvars
  <2>2. touches' = touches /\ ahead' = ahead
    BY <2>1, SameMapping
  <2> QED BY <2>1, <2>2 DEF Promise!Next, Promise!GoOff, touches, ahead
<1>8. \/ UNCHANGED <<work_Q, older, started, VG_FORCEDOFF, lbuf>>
      \/ Strategy \/ hd_initiate \/ Refuse \/ Begin \/ ForceOff
      \/ \E c \in Cpu : hd_end(c)
  BY DEF Next, Initiated, Schedule, Scheduled, Offlevel, OtherDone, iodone, Config,
     hd_open, hd_close, Drain, Quiet, hd_quiet, QuietWakes, vars, qvars
<1> QED BY <1>1, <1>2, <1>3, <1>4, <1>5, <1>6, <1>7, <1>8

(* The users of the volumes see their requests served one at a time per     *)
(* page and in arrival order: hd_initiate, hd_schedule, hd_end and the      *)
(* refusals of a volume group that goes down implement LvSerial.            *)
THEOREM KeepsPromise == Spec => ServesInOrder
<1>1. Init => Promise!Init
  BY InitPromise DEF Promise!Init, touches, ahead
<1>2. IInv /\ [Next]_vars => [Promise!Next]_(Promise!vars)
  BY StepPromise
<1> QED BY <1>1, <1>2, Invariance, PTL DEF Spec, ServesInOrder, Promise!Spec
============================================================================
