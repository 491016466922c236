---------------------------- MODULE HdStripeProofs ----------------------------
(***************************************************************************)
(* Striping, for any layout, pool, requests and defects: hd_stripe_xlate     *)
(* is undone by the layout, and counting on from the start of a piece does  *)
(* not leave its stripe; the pieces of a request leave no gap; what is       *)
(* reported of it is true of the disks, but for the errors that b_error &   *)
(* B_ERROR misses; and no buffer is given out twice.                        *)
(***************************************************************************)
EXTENDS HdStripe, DataLemmas

(* Quotient and remainder, and that there is only one of each.              *)
LEMMA DivMod ==
  ASSUME NEW n \in Nat, NEW d \in Nat \ {0}
  PROVE  /\ n \div d \in Nat /\ n % d \in 0..(d - 1)
         /\ n = (n \div d) * d + (n % d)
BY SMT

(* Multiples of d keep a distance of at least d.                            *)
LEMMA MulMono ==
  ASSUME NEW d \in Nat \ {0}, NEW a \in Nat, NEW b \in Nat, a < b
  PROVE  a * d + d <= b * d
<1>1. PICK k \in Nat : b = a + 1 + k
  BY SMT
<1>2. b * d = a * d + d + k * d
  BY <1>1, SMT
<1> QED BY <1>2, SMT

(* A quotient and a remainder that fit are those of the division.           *)
LEMMA DivUnique ==
  ASSUME NEW d \in Nat \ {0}, NEW q \in Nat, NEW r \in 0..(d - 1), NEW n \in Nat, n = q * d + r
  PROVE  n \div d = q /\ n % d = r
<1>2. PICK x \in Nat : x = n \div d
  BY DivMod
<1>3. x \in Nat /\ n % d \in 0..(d - 1) /\ n = x * d + (n % d) 
  BY <1>2, DivMod
<1>4. ~(x < q) BY <1>3, MulMono, SMT
<1>5. ~(q < x) BY <1>3, MulMono, SMT
<1>6. x = q BY <1>4, <1>5, SMT
<1> QED BY <1>2, <1>3, <1>6, SMT

(* Partitions of a set, stripes of a partition: the two ways to count.      *)
LEMMA Regroup ==
  ASSUME NEW y \in Nat, NEW s \in Nat, NEW w \in Nat, NEW t \in Nat
  PROVE  (y * s + t) * w = y * (s * w) + t * w
<1>1. (y * s + t) * w = (y * s) * w + t * w
  BY SMT
<1>2. (y * s) * w = y * (s * w)
  BY SMT
<1> QED BY <1>1, <1>2

(* Dividing by a product is dividing twice: first into rows, then into sets. *)
LEMMA DivDiv ==
  ASSUME NEW n \in Nat, NEW s \in Nat \ {0}, NEW w \in Nat \ {0}
  PROVE  s * w \in Nat \ {0} /\ n \div (s * w) = (n \div w) \div s
<1>1. PICK x \in Nat, r \in 0..(w - 1) : x = n \div w /\ n = x * w + r
  BY DivMod
<1>2. PICK y \in Nat, t \in 0..(s - 1) : y = x \div s /\ x = y * s + t
  BY DivMod
<1>3. s * w \in Nat \ {0}
  BY SMT
<1>4. n = y * (s * w) + (t * w + r)
  <2>1. (y * s + t) * w = y * (s * w) + t * w
    BY Regroup
  <2>2. x * w = y * (s * w) + t * w
    BY <1>2, <2>1, Zenon
  <2>3. y * (s * w) \in Nat /\ t * w \in Nat
    BY <1>3, SMT
  <2>4. n = (y * (s * w) + t * w) + r
    BY <1>1, <2>2, Zenon
  <2> QED BY <2>3, <2>4, SMT
<1>5. t * w + w <= s * w
  BY MulMono
<1>6. t * w + r \in 0..(s * w - 1)
  BY <1>3, <1>5, SMT
<1>7. n \div (s * w) = y
  BY <1>3, <1>4, <1>6, DivUnique
<1> QED BY <1>1, <1>2, <1>3, <1>7

(* The numbers that hd_stripe_xlate puts together can be taken apart.       *)
LEMMA XlateParts ==
  ASSUME NEW l \in Nat
  PROVE  LET n == l \div stripe_blks
             x == hd_stripe_xlate(l)
             row == n \div striping_width
             set == row \div part_stripes
         IN  /\ n \in Nat /\ set \in Nat /\ x.part \in Nat /\ x.blk \in Nat
             /\ x.part \div striping_width = set
             /\ x.part % striping_width = n % striping_width
             /\ x.blk \div stripe_blks = row % part_stripes
             /\ x.blk % stripe_blks = l % stripe_blks
             /\ x.blk = (row % part_stripes) * stripe_blks + (l % stripe_blks)
<1>1. PICK n \in Nat, o \in 0..(stripe_blks - 1) : n = l \div stripe_blks /\ o = l % stripe_blks
  BY DivMod, StripeAssumption
<1>2. PICK row \in Nat, c \in 0..(striping_width - 1) :
        row = n \div striping_width /\ c = n % striping_width
  BY DivMod, StripeAssumption
<1>3. PICK set \in Nat, t \in 0..(part_stripes - 1) :
        set = row \div part_stripes /\ t = row % part_stripes
  BY DivMod, StripeAssumption
<1>4. n \div (part_stripes * striping_width) = set
  <2>1. n \div (part_stripes * striping_width) = (n \div striping_width) \div part_stripes
    BY DivDiv, StripeAssumption
  <2> QED BY <1>2, <1>3, <2>1, Zenon
<1>5. hd_stripe_xlate(l) = [part |-> set * striping_width + c, blk |-> t * stripe_blks + o]
  BY <1>1, <1>2, <1>3, <1>4 DEF hd_stripe_xlate
<1>6. PICK p \in Nat : p = set * striping_width + c
  BY StripeAssumption, SMT
<1>7. PICK b \in Nat : b = t * stripe_blks + o
  BY StripeAssumption, SMT
<1>8. p \div striping_width = set /\ p % striping_width = c
  BY <1>6, DivUnique, StripeAssumption
<1>9. t \in Nat
  BY StripeAssumption
<1>10. b \div stripe_blks = t /\ b % stripe_blks = o
  BY <1>7, <1>9, DivUnique, StripeAssumption
<1>11. hd_stripe_xlate(l).part = p /\ hd_stripe_xlate(l).blk = b
  BY <1>5, <1>6, <1>7
<1> QED BY <1>1, <1>2, <1>3, <1>7, <1>8, <1>10, <1>11

(* hd_stripe_xlate is the layout: the logical block found at the place that  *)
(* it gives for l is l.                                                     *)
THEOREM XlateInPlace ==
  ASSUME NEW l \in Nat
  PROVE  LogicalOf(hd_stripe_xlate(l)) = l
<1> DEFINE n == l \div stripe_blks
           x == hd_stripe_xlate(l)
           row == n \div striping_width
           set == row \div part_stripes
<1>1. /\ n \in Nat /\ set \in Nat
      /\ x.part \div striping_width = set
      /\ x.part % striping_width = n % striping_width
      /\ x.blk \div stripe_blks = row % part_stripes
      /\ x.blk % stripe_blks = l % stripe_blks
  BY XlateParts
<1>2. l = n * stripe_blks + (l % stripe_blks)
  BY DivMod, StripeAssumption
<1>3. row \in Nat /\ n = row * striping_width + (n % striping_width)
  BY <1>1, DivMod, StripeAssumption
<1>4. row = set * part_stripes + (row % part_stripes)
  BY <1>3, DivMod, StripeAssumption
<1>5. LogicalOf(x) = ((set * part_stripes + (row % part_stripes)) * striping_width + (n % striping_width))
                        * stripe_blks + (l % stripe_blks)
  BY <1>1 DEF LogicalOf
<1> QED BY <1>2, <1>3, <1>4, <1>5

(* No two blocks of a striped volume share a place on the disks.            *)
THEOREM OnePlaceEach ==
  ASSUME NEW l \in Nat, NEW k \in Nat, hd_stripe_xlate(l) = hd_stripe_xlate(k)
  PROVE  l = k
BY XlateInPlace

(* The stripe of a logical block, and the block in it.                       *)
LEMMA StripeParts ==
  ASSUME NEW l \in Nat
  PROVE  \E n \in Nat, o \in 0..(stripe_blks - 1) :
           n = l \div stripe_blks /\ o = l % stripe_blks /\ l = n * stripe_blks + o
<1>1. stripe_blks \in Nat \ {0}
  BY StripeAssumption
<1>2. l \div stripe_blks \in Nat /\ l % stripe_blks \in 0..(stripe_blks - 1)
  BY <1>1, DivMod
<1>3. l = (l \div stripe_blks) * stripe_blks + (l % stripe_blks)
  BY <1>1, DivMod
<1> QED BY <1>2, <1>3, Zenon

(* Within a stripe the next logical block is the next block of the disk.    *)
LEMMA CountOn ==
  ASSUME NEW l \in Nat, NEW k \in Nat, (l % stripe_blks) + k < stripe_blks
  PROVE  [hd_stripe_xlate(l) EXCEPT !.blk = @ + k] = hd_stripe_xlate(l + k)
<1>1. PICK n \in Nat, o \in 0..(stripe_blks - 1) :
        n = l \div stripe_blks /\ o = l % stripe_blks /\ l = n * stripe_blks + o
  BY StripeParts
<1>2. PICK j, i \in Nat : j = o + k /\ i = l + k
  BY <1>1, SMT
<1>3. j \in 0..(stripe_blks - 1)
  BY <1>1, <1>2, StripeAssumption, SMT
<1>4. i = n * stripe_blks + j
  BY <1>1, <1>2, StripeAssumption, SMT
<1>5. i \div stripe_blks = n /\ i % stripe_blks = j
  BY <1>3, <1>4, DivUnique, StripeAssumption
<1>6. PICK t \in Nat : t = (n \div striping_width) % part_stripes
  <2>1. n \div striping_width \in Nat
    BY DivMod, StripeAssumption
  <2> QED BY <2>1, DivMod, StripeAssumption
<1>7. hd_stripe_xlate(l).blk = t * stripe_blks + o /\ hd_stripe_xlate(i).blk = t * stripe_blks + j
  BY <1>1, <1>5, <1>6 DEF hd_stripe_xlate
<1>8. hd_stripe_xlate(l).blk + k = hd_stripe_xlate(i).blk
  BY <1>2, <1>7, StripeAssumption, SMT
<1>9. hd_stripe_xlate(l).part = hd_stripe_xlate(i).part
  BY <1>1, <1>5 DEF hd_stripe_xlate
<1> QED BY <1>2, <1>8, <1>9 DEF hd_stripe_xlate

(* Every block of a piece that hd_stripe cuts off a request and hd_end and   *)
(* hd_resume count through is at its place in the layout, however long the   *)
(* request and wherever in the volume: what InPlace says of the runs.        *)
THEOREM PieceInPlace ==
  ASSUME NEW r, r.blk \in Nat, r.n \in Nat, NEW l \in Nat,
         NEW k \in Nat, k < Piece(r, l).n
  PROVE  LogicalOf([hd_stripe_xlate(l) EXCEPT !.blk = @ + k]) = l + k
<1>1. PICK n \in Nat, o \in 0..(stripe_blks - 1) :
        n = l \div stripe_blks /\ o = l % stripe_blks /\ l = n * stripe_blks + o
  BY StripeParts
<1>2. PICK next \in Nat : next = (n + 1) * stripe_blks
  BY StripeAssumption, SMT
<1>3. next = n * stripe_blks + stripe_blks
  BY <1>2, StripeAssumption, SMT
<1>4. Piece(r, l).n = (IF next < r.blk + r.n THEN next ELSE r.blk + r.n) - l
  BY <1>1, <1>2 DEF Piece
<1>5. Piece(r, l).n <= next - l
  BY <1>4, SMT
<1>6. next - l = stripe_blks - o
  BY <1>1, <1>3, StripeAssumption, SMT
<1>7. (l % stripe_blks) + k < stripe_blks
  BY <1>1, <1>4, <1>5, <1>6, StripeAssumption, SMT
<1>8. l + k \in Nat
  BY SMT
<1> QED BY <1>7, <1>8, CountOn, XlateInPlace

-----------------------------------------------------------------------------
LEMMA DivLess ==
  ASSUME NEW n \in Nat, NEW d \in Nat \ {0}, NEW a \in Nat, n < a * d
  PROVE  n \div d \in 0..(a - 1)
<1>1. PICK x \in Nat : x = n \div d /\ x * d <= n
  <2>1. n \div d \in Nat /\ n % d \in 0..(d - 1) /\ n = (n \div d) * d + (n % d)
    BY DivMod
  <2>2. PICK x \in Nat, r \in 0..(d - 1) : x = n \div d /\ n = x * d + r
    BY <2>1
  <2>3. x * d <= n
    BY <2>2, SMT
  <2> QED BY <2>2, <2>3
<1>2. PICK u, v \in Nat : u = x * d /\ v = a * d
  BY SMT
<1>3. ~(a < x)
  <2>1. SUFFICES ASSUME a < x PROVE FALSE
    OBVIOUS
  <2>2. a * d + d <= x * d
    BY <2>1, MulMono
  <2>3. v + d <= u
    BY <2>2, <1>2
  <2> QED BY <2>3, <1>1, <1>2
<1>4. x # a
  BY <1>1, <1>2
<1> QED BY <1>1, <1>3, <1>4

(* A quotient and a remainder below their bounds make a number below the    *)
(* product of the bounds.                                                   *)
LEMMA Within ==
  ASSUME NEW d \in Nat \ {0}, NEW b \in Nat, NEW a \in 0..(b - 1), NEW r \in 0..(d - 1)
  PROVE  a * d + r \in 0..(b * d - 1)
<1>1. a * d + d <= b * d
  BY MulMono
<1>2. PICK u, v \in Nat : u = a * d /\ v = b * d
  BY SMT
<1>3. u + d <= v
  BY <1>1, <1>2
<1> QED BY <1>2, <1>3

(* Every logical block has a place on the disks of the volume.              *)
LEMMA XlateInRange ==
  ASSUME NEW l \in Logical
  PROVE  hd_stripe_xlate(l) \in Place
<1>1. /\ striping_width \in Nat \ {0} /\ part_stripes \in Nat \ {0}
      /\ stripe_blks \in Nat \ {0} /\ NSets \in Nat \ {0}
  BY StripeAssumption
<1>2. PICK sw \in Nat : sw = NSets * striping_width
  BY <1>1, SMT
<1>3. PICK swp \in Nat : swp = sw * part_stripes
  BY <1>1, SMT
<1>4. PICK sp \in Nat : sp = NSets * part_stripes
  BY <1>1, SMT
<1>5. swp = sp * striping_width
  <2>1. (NSets * striping_width) * part_stripes = (NSets * part_stripes) * striping_width
    BY <1>1, SMT
  <2> QED BY <2>1, <1>2, <1>3, <1>4
<1>6. l \in Nat /\ l < swp * stripe_blks
  <2>1. l \in 0..(swp * stripe_blks - 1)
    BY <1>2, <1>3 DEF Logical
  <2>2. PICK u \in Nat : u = swp * stripe_blks
    BY <1>1, SMT
  <2> QED BY <2>1, <2>2
<1> DEFINE n == l \div stripe_blks
           row == n \div striping_width
           set == row \div part_stripes
           x == hd_stripe_xlate(l)
<1>7. n \in Nat /\ n < sp * striping_width
  <2>1. n \in 0..(swp - 1)
    BY <1>1, <1>6, DivLess
  <2> QED BY <2>1, <1>5
<1>8. row \in Nat /\ row < NSets * part_stripes
  <2>1. row \in 0..(sp - 1)
    BY <1>1, <1>7, DivLess
  <2> QED BY <2>1, <1>4
<1>9. set \in 0..(NSets - 1)
  BY <1>1, <1>8, DivLess
<1>10. n % striping_width \in 0..(striping_width - 1) /\ row % part_stripes \in 0..(part_stripes - 1)
       /\ l % stripe_blks \in 0..(stripe_blks - 1)
  BY <1>1, <1>6, <1>7, <1>8, DivMod
<1>11. /\ n \div (part_stripes * striping_width) = set
  <2>1. n \div (part_stripes * striping_width) = (n \div striping_width) \div part_stripes
    BY <1>1, <1>7, DivDiv
  <2> QED BY <2>1
<1>12. x = [part |-> set * striping_width + (n % striping_width),
           blk |-> (row % part_stripes) * stripe_blks + (l % stripe_blks)]
  BY <1>11 DEF hd_stripe_xlate
<1> HIDE DEF n, row, set, x
<1>13. set * striping_width + (n % striping_width) \in 0..(NSets * striping_width - 1)
  BY <1>1, <1>9, <1>10, Within
<1>14. (row % part_stripes) * stripe_blks + (l % stripe_blks) \in 0..(part_stripes * stripe_blks - 1)
  BY <1>1, <1>10, Within
<1>15. x \in Place
  BY <1>12, <1>13, <1>14 DEF Place
<1> QED BY <1>15 DEF x

(* Counting on from the start of a piece reaches the place of each block.   *)
LEMMA PiecePlace ==
  ASSUME NEW r, r.blk \in Nat, r.n \in Nat, NEW l \in Nat,
         NEW k \in Nat, k < Piece(r, l).n, r.n # 0, r.blk + r.n - 1 \in Logical
  PROVE  LET x == [hd_stripe_xlate(l) EXCEPT !.blk = @ + k]
         IN  x \in Place /\ LogicalOf(x) = l + k
<1>1. PICK n \in Nat, o \in 0..(stripe_blks - 1) :
        n = l \div stripe_blks /\ o = l % stripe_blks /\ l = n * stripe_blks + o
  BY StripeParts
<1>2. PICK next \in Nat : next = (n + 1) * stripe_blks
  BY StripeAssumption, SMT
<1>3. next = n * stripe_blks + stripe_blks
  BY <1>2, StripeAssumption, SMT
<1>4. Piece(r, l).n = (IF next < r.blk + r.n THEN next ELSE r.blk + r.n) - l
  BY <1>1, <1>2 DEF Piece
<1>5. Piece(r, l).n <= next - l /\ Piece(r, l).n <= r.blk + r.n - l
  BY <1>4, SMT
<1>6. next - l = stripe_blks - o
  BY <1>1, <1>3, StripeAssumption, SMT
<1>7. (l % stripe_blks) + k < stripe_blks
  BY <1>1, <1>4, <1>5, <1>6, StripeAssumption, SMT
<1>8. l + k \in Logical
  <2>1. PICK u \in Int : u = NSets * striping_width * part_stripes * stripe_blks - 1
    BY StripeAssumption, SMT
  <2>2. r.blk + r.n - 1 \in 0..u
    BY <2>1 DEF Logical
  <2>3. l + k < r.blk + r.n
    BY <1>4, <1>5
  <2>4. l + k \in 0..u
    BY <2>2, <2>3
  <2> QED BY <2>1, <2>4 DEF Logical
<1>9. l + k \in Nat
  OBVIOUS
<1>10. [hd_stripe_xlate(l) EXCEPT !.blk = @ + k] = hd_stripe_xlate(l + k)
  BY <1>7, CountOn
<1>11. hd_stripe_xlate(l + k) \in Place
  BY <1>8, XlateInRange
<1>12. LogicalOf(hd_stripe_xlate(l + k)) = l + k
  BY <1>9, XlateInPlace
<1> QED BY <1>10, <1>11, <1>12

-----------------------------------------------------------------------------
(* The driver's memory: requests and their pieces.                          *)
PieceType == [addr : Nat, n : Nat, at : Nat, bcount : Nat,
              status : {"STRIPE_NOTDONE", "STRIPE_DONE"}, b_error : Nat, busy : BOOLEAN]
ReqType == [st : {"idle", "active", "returned"}, blk : Nat, n : Nat, serial : BOOLEAN, resid : Nat,
            err : BOOLEAN, partial : BOOLEAN, list : Seq(PieceType), moved : SUBSET (Nat \X Place),
            lost : SUBSET Nat]
MemType == [req : [Req -> ReqType], pending_Q : Seq(Req), free : 0..NPbuf, bad : Defects,
            nobbrel : BOOLEAN]

(* The blocks that have been moved or left behind unnoticed, and the first  *)
(* of those still asked for.                                                *)
Settled(r) == {x[1] : x \in r.moved} \cup r.lost
From(r) == r.blk + r.n - r.resid

(* A piece ends at the end of its stripe or of the request; what it has     *)
(* counted through is settled; the disk works on it, or it is done: with an *)
(* error that is seen, or with the rest of it settled too.                  *)
PieceOK(r, p) ==
  /\ p.n # 0 /\ p.n = Piece(r, p.addr).n /\ r.blk <= p.addr /\ p.addr + p.n <= r.blk + r.n
  /\ p.addr <= p.at /\ p.at <= p.addr + p.n /\ p.bcount <= p.n
  /\ p.addr..(p.at - 1) \subseteq Settled(r)
  /\ IF p.busy
     THEN p.status = "STRIPE_NOTDONE" /\ p.b_error = 0 /\ p.bcount # 0 /\ p.bcount <= p.addr + p.n - p.at
     ELSE p.status = "STRIPE_DONE" /\ (Seen(p.b_error) \/ p.at..(p.addr + p.n - 1) \subseteq Settled(r))

(* Where piece i of the list ends.                                          *)
EndOf(r, i) == IF i = 0 THEN From(r) ELSE r.list[i].addr + r.list[i].n

(* The pieces follow each other from the first block still asked for, and   *)
(* reach the end of the request unless the buffers have run out.            *)
Chained(r) ==
  /\ r.list # <<>> /\ \A i \in 1..Len(r.list) : r.list[i].addr = EndOf(r, i - 1)
  /\ r.partial => EndOf(r, Len(r.list)) < r.blk + r.n
  /\ ~r.partial => EndOf(r, Len(r.list)) = r.blk + r.n

(* What holds of a request at any moment ...                                *)
Sound(r) ==
  /\ r.resid <= r.n
  /\ r.n # 0 => r.blk + r.n - 1 \in Logical
  /\ \A x \in r.moved : LogicalOf(x[2]) = x[1]
  /\ \A i \in 1..Len(r.list) : PieceOK(r, r.list[i])
  /\ r.st = "active" => r.resid # 0
  /\ r.st # "idle" => r.blk..(From(r) - 1) \subseteq Settled(r)
  /\ r.lost # {} => \E e \in Errno : ~Seen(e)

(* ... and between the handlers.                                            *)
ReqOK(r) ==
  /\ Sound(r)
  /\ ~Complete(r.list) => r.st = "active" /\ Chained(r)
  /\ r.st = "returned" => r.err \/ r.resid = 0
-----------------------------------------------------------------------------
(* Pieces that are settled to their ends leave no gap.                      *)
LEMMA PrefixSettled ==
  ASSUME NEW r \in ReqType, Sound(r), Chained(r), NEW k \in 0..Len(r.list),
         \A j \in 1..k : r.list[j].addr..(r.list[j].addr + r.list[j].n - 1) \subseteq Settled(r)
  PROVE  /\ From(r) <= EndOf(r, k) /\ EndOf(r, k) \in Nat
         /\ From(r)..(EndOf(r, k) - 1) \subseteq Settled(r)
<1>1. /\ r.blk \in Nat /\ r.n \in Nat /\ r.resid \in Nat /\ r.resid <= r.n
      /\ r.list \in Seq(PieceType) /\ \A i \in 1..Len(r.list) : PieceOK(r, r.list[i]) /\ r.list[i] \in PieceType
  BY DEF ReqType, Sound
<1>2. \A i \in 1..Len(r.list) : r.list[i].addr = EndOf(r, i - 1)
  BY DEF Chained
<1> DEFINE P(i) == /\ From(r) <= EndOf(r, i) /\ EndOf(r, i) \in Nat
                   /\ From(r)..(EndOf(r, i) - 1) \subseteq Settled(r)
           K == {i \in 0..k : P(i)}
<1>3. From(r) \in Nat
  BY <1>1 DEF From
<1>4. 0 \in K
  BY <1>3 DEF EndOf
<1>5. ASSUME NEW i \in 1..k, i - 1 \in K PROVE i \in K
  <2> DEFINE p == r.list[i]
  <2>1. i \in 1..Len(r.list) /\ i # 0
    OBVIOUS
  <2>2. p \in PieceType /\ PieceOK(r, p) /\ p.addr = EndOf(r, i - 1)
          /\ p.addr..(p.addr + p.n - 1) \subseteq Settled(r)
    BY <1>1, <1>2, <2>1
  <2>3. EndOf(r, i) = p.addr + p.n
    BY <2>1 DEF EndOf
  <2>4. P(i - 1)
    BY <1>5
  <2> HIDE DEF p
  <2>5. p.addr \in Nat /\ p.n \in Nat /\ p.addr..(p.addr + p.n - 1) \subseteq Settled(r)
    BY <2>2 DEF PieceType, PieceOK
  <2>6. P(i)
    BY <1>3, <2>2, <2>3, <2>4, <2>5
  <2> QED BY <2>6
<1>6. K = 0..k
  <2>1. K \in SUBSET (0..k) /\ k \in Nat
    OBVIOUS
  <2> HIDE DEF K
  <2> QED BY <1>4, <1>5, <2>1, IntervalInduction
<1>7. k \in K
  <2> HIDE DEF K
  <2> QED BY <1>6
<1> QED BY <1>7

(* The bytes that hd_stripe_done takes off are at most those of the pieces. *)
LEMMA RestBounds ==
  ASSUME NEW r \in ReqType, Sound(r), Chained(r)
  PROVE  Rest(r) \in Int /\ r.resid - Rest(r) \in 0..(EndOf(r, Len(r.list)) - From(r))
<1> DEFINE n == Len(r.list)
           IsSum(g, k) == g = [i \in 0..k |-> IF i = 0 THEN 0 ELSE g[i - 1] + r.list[i].bcount]
           T == {k \in 0..n : \E g : IsSum(g, k)}
           f == CHOOSE g : IsSum(g, n)
<1>1. /\ r.blk \in Nat /\ r.n \in Nat /\ r.resid \in Nat /\ r.resid <= r.n
      /\ r.list \in Seq(PieceType) /\ \A i \in 1..n : PieceOK(r, r.list[i]) /\ r.list[i] \in PieceType
  BY DEF ReqType, Sound
<1>2. n \in Nat /\ From(r) \in Nat
  BY <1>1 DEF From
<1>3. Rest(r) = r.resid - f[n]
  BY Zenon DEF Rest
<1>4. \A i \in 1..n : r.list[i].addr = EndOf(r, i - 1)
  BY DEF Chained
<1> HIDE DEF n
<1>5. T = 0..n
  <2>1. 0 \in T
    <3>1. IsSum([i \in 0..0 |-> 0], 0)
      OBVIOUS
    <3>2. 0 \in 0..n /\ \E g : IsSum(g, 0)
      <4> HIDE DEF IsSum
      <4> QED BY <1>2, <3>1
    <3> QED BY <3>2, Zenon
  <2>2. ASSUME NEW k \in 1..n, k - 1 \in T PROVE k \in T
    <3>1. PICK g : IsSum(g, k - 1)
      BY <2>2, Zenon
    <3>2. k - 1 \in Nat /\ k \in 0..n
      BY <1>2
    <3> DEFINE h == [i \in 0..k |-> IF i = 0 THEN 0 ELSE g[i - 1] + r.list[i].bcount]
    <3>3. ASSUME NEW i \in 0..(k - 1) PROVE h[i] = g[i]
      <4>1. g[i] = IF i = 0 THEN 0 ELSE g[i - 1] + r.list[i].bcount
        BY <3>1
      <4>2. h[i] = IF i = 0 THEN 0 ELSE g[i - 1] + r.list[i].bcount
        BY <3>2
      <4> QED BY <4>1, <4>2
    <3>4. ASSUME NEW i \in 0..k, i # 0 PROVE g[i - 1] = h[i - 1]
      <4>1. i - 1 \in 0..(k - 1)
        BY <3>4
      <4> HIDE DEF h
      <4> QED BY <3>3, <4>1
    <3>5. IsSum(h, k)
      BY <3>4
    <3> HIDE DEF h, IsSum
    <3> QED BY <3>2, <3>5
  <2> HIDE DEF T
  <2>3. T \in SUBSET (0..n)
    BY DEF T
  <2> QED BY <1>2, <2>1, <2>2, <2>3, IntervalInduction
<1>6. IsSum(f, n)
  <2>1. n \in T
    <3> HIDE DEF T
    <3> QED BY <1>2, <1>5
  <2>2. \E g : IsSum(g, n)
    BY <2>1, Zenon
  <2> QED BY <2>2, Zenon
<1> HIDE DEF f
<1> DEFINE P(i) == f[i] \in Nat /\ EndOf(r, i) \in Nat /\ f[i] <= EndOf(r, i) - From(r)
           K == {i \in 0..n : P(i)}
<1>7. 0 \in K
  <2>1. 0 \in 0..n /\ f[0] = 0
    BY <1>2, <1>6
  <2> QED BY <1>2, <2>1 DEF EndOf
<1>8. ASSUME NEW i \in 1..n, i - 1 \in K PROVE i \in K
  <2> DEFINE p == r.list[i]
  <2>1. i \in 0..n /\ i # 0
    BY <1>2
  <2>2. f[i] = f[i - 1] + p.bcount
    BY <1>6, <2>1
  <2>3. p \in PieceType /\ PieceOK(r, p) /\ p.addr = EndOf(r, i - 1) /\ EndOf(r, i) = p.addr + p.n
    BY <1>1, <1>4, <2>1 DEF EndOf
  <2>4. P(i - 1)
    BY <1>8
  <2> HIDE DEF p
  <2>5. p.addr \in Nat /\ p.n \in Nat /\ p.bcount \in Nat /\ p.bcount <= p.n
    BY <2>3 DEF PieceType, PieceOK
  <2>6. P(i)
    BY <1>2, <2>2, <2>3, <2>4, <2>5
  <2> QED BY <2>1, <2>6
<1>9. K = 0..n
  <2>1. K \in SUBSET (0..n)
    OBVIOUS
  <2> HIDE DEF K
  <2> QED BY <1>2, <1>7, <1>8, <2>1, IntervalInduction
<1>10. P(n)
  <2>1. n \in K
    <3> HIDE DEF K
    <3> QED BY <1>2, <1>9
  <2> QED BY <2>1
<1> QED BY <1>1, <1>2, <1>3, <1>10 DEF n

(* The first piece with an error that is seen: none before it has one.      *)
LEMMA FirstErrorIs ==
  ASSUME NEW s \in Seq(PieceType)
  PROVE  /\ FirstError(s) \in 0..Len(s)
         /\ FirstError(s) = 0 => \A i \in 1..Len(s) : ~Seen(s[i].b_error)
         /\ FirstError(s) # 0 => Seen(s[FirstError(s)].b_error) /\ \A i \in 1..(FirstError(s) - 1) : ~Seen(s[i].b_error)
<1> DEFINE I == {i \in 1..Len(s) : Seen(s[i].b_error)}
<1>1. FirstError(s) = IF I # {} THEN Min(I) ELSE 0
  BY Zenon DEF FirstError, SelectInSeq
<1>2. I \in SUBSET Nat /\ I \subseteq 1..Len(s) /\ Len(s) \in Nat
  OBVIOUS
<1>3. CASE I = {}
  BY <1>1, <1>2, <1>3
<1>4. CASE I # {}
  <2>1. Min(I) \in I /\ \A y \in I : Min(I) <= y
    <3> HIDE DEF I
    <3> QED BY <1>2, <1>4, MinIn
  <2>2. FirstError(s) = Min(I)
    BY <1>1, <1>4
  <2> DEFINE e == FirstError(s)
  <2>3. e \in I /\ \A y \in I : e <= y
    BY <2>1, <2>2
  <2> HIDE DEF e
  <2>4. e \in 1..Len(s) /\ Seen(s[e].b_error)
    BY <2>3
  <2>5. ASSUME NEW i \in 1..(e - 1) PROVE ~Seen(s[i].b_error)
    <3>1. i \in 1..Len(s) /\ ~(e <= i)
      BY <2>4
    <3> QED BY <2>3, <3>1
  <2> QED BY <1>2, <2>4, <2>5 DEF e
<1> QED BY <1>3, <1>4

(* A piece that is done without an error that is seen is settled.           *)
LEMMA DoneSettled ==
  ASSUME NEW r, NEW p \in PieceType, PieceOK(r, p), p.status = "STRIPE_DONE", ~Seen(p.b_error)
  PROVE  p.addr..(p.addr + p.n - 1) \subseteq Settled(r)
<1>1. p.addr \in Nat /\ p.n \in Nat /\ p.at \in Nat
  BY DEF PieceType
<1>2. p.addr..(p.at - 1) \subseteq Settled(r) /\ p.at..(p.addr + p.n - 1) \subseteq Settled(r)
  BY DEF PieceOK
<1> QED BY <1>1, <1>2

(* What becomes of the request when its pieces are done: the error of the   *)
(* first with one that is seen is reported with the blocks up to it settled *)
(* ...                                                                      *)
LEMMA DoneError ==
  ASSUME NEW r \in ReqType, ReqOK(r), r.st = "active", Chained(r), Complete(r.list),
         FirstError(r.list) # 0
  PROVE  LET d == [r EXCEPT !.st = "returned", !.err = TRUE,
                            !.resid = r.n - (r.list[FirstError(r.list)].at - r.blk)]
         IN  d \in ReqType /\ ReqOK(d)
<1> DEFINE e == FirstError(r.list)
           p == r.list[e]
           resid == r.n - (p.at - r.blk)
           d == [r EXCEPT !.st = "returned", !.err = TRUE, !.resid = resid]
<1>1. /\ r.blk \in Nat /\ r.n \in Nat /\ r.resid \in Nat /\ r.resid <= r.n
      /\ r.list \in Seq(PieceType) /\ \A i \in 1..Len(r.list) : PieceOK(r, r.list[i]) /\ r.list[i] \in PieceType
      /\ Sound(r)
  BY DEF ReqType, ReqOK, Sound
<1>2. e \in 1..Len(r.list) /\ Seen(p.b_error) /\ \A i \in 1..(e - 1) : ~Seen(r.list[i].b_error)
  BY <1>1, FirstErrorIs
<1>3. p \in PieceType /\ PieceOK(r, p) /\ p.addr = EndOf(r, e - 1)
  BY <1>1, <1>2 DEF Chained
<1> HIDE DEF e
<1>4. \A i \in 1..(e - 1) : r.list[i].addr..(r.list[i].addr + r.list[i].n - 1) \subseteq Settled(r)
  <2> SUFFICES ASSUME NEW i \in 1..(e - 1)
               PROVE  r.list[i].addr..(r.list[i].addr + r.list[i].n - 1) \subseteq Settled(r)
    OBVIOUS
  <2>1. i \in 1..Len(r.list)
    BY <1>2
  <2>2. r.list[i].status = "STRIPE_DONE" /\ ~Seen(r.list[i].b_error)
    BY <1>1, <1>2, <2>1 DEF Complete
  <2> QED BY <1>1, <2>1, <2>2, DoneSettled
<1>5. /\ From(r) <= EndOf(r, e - 1) /\ EndOf(r, e - 1) \in Nat
      /\ From(r)..(EndOf(r, e - 1) - 1) \subseteq Settled(r)
  <2>1. e - 1 \in 0..Len(r.list)
    BY <1>2
  <2> QED BY <1>1, <1>4, <2>1, PrefixSettled
<1> HIDE DEF p
<1>6. /\ p.addr \in Nat /\ p.n \in Nat /\ p.at \in Nat /\ p.addr <= p.at /\ r.blk <= p.addr
      /\ p.at <= r.blk + r.n /\ p.addr..(p.at - 1) \subseteq Settled(r)
  BY <1>1, <1>3 DEF PieceType, PieceOK
<1>7. From(r) \in Nat /\ r.blk..(From(r) - 1) \subseteq Settled(r)
  BY <1>1 DEF From, Sound
<1>8. r.blk..(p.at - 1) \subseteq Settled(r)
  BY <1>1, <1>3, <1>5, <1>6, <1>7
<1>9. resid \in 0..r.n /\ r.blk + r.n - resid = p.at
  BY <1>1, <1>6
<1> HIDE DEF resid
<1>15. resid \in Nat
  BY <1>1, <1>9
<1>10. d \in ReqType /\ d.resid = resid /\ d.st = "returned" /\ d.err /\ d.blk = r.blk /\ d.n = r.n
       /\ d.list = r.list /\ d.moved = r.moved /\ d.lost = r.lost
  BY <1>15 DEF ReqType
<1> HIDE DEF d
<1>11. From(d) = p.at /\ Settled(d) = Settled(r)
  BY <1>9, <1>10 DEF From, Settled
<1>12. \A i \in 1..Len(d.list) : PieceOK(d, d.list[i])
  BY <1>1, <1>10, <1>11 DEF PieceOK, Piece
<1>13. Sound(d)
  BY <1>1, <1>8, <1>9, <1>10, <1>11, <1>12 DEF Sound
<1>14. ReqOK(d)
  BY <1>10, <1>13 DEF ReqOK
<1> QED BY <1>10, <1>14 DEF d, resid, p, e

(* ... or the rest is still to be moved, if there is one.                   *)
LEMMA DonePart ==
  ASSUME NEW r \in ReqType, ReqOK(r), r.st = "active", Chained(r), Complete(r.list),
         FirstError(r.list) = 0, NEW resid,
         \/ r.partial /\ resid = Rest(r)
         \/ ~r.partial /\ resid = 0
  PROVE  /\ [r EXCEPT !.resid = resid] \in ReqType
         /\ r.partial => ReqOK([r EXCEPT !.resid = resid])
         /\ ~r.partial => /\ [r EXCEPT !.resid = resid, !.st = "returned"] \in ReqType
                          /\ ReqOK([r EXCEPT !.resid = resid, !.st = "returned"])
<1> DEFINE n == Len(r.list)
<1>1. /\ r.blk \in Nat /\ r.n \in Nat /\ r.resid \in Nat /\ r.resid <= r.n
      /\ r.list \in Seq(PieceType) /\ \A i \in 1..n : PieceOK(r, r.list[i]) /\ r.list[i] \in PieceType
      /\ Sound(r) /\ n \in Nat /\ r.partial \in BOOLEAN
  BY DEF ReqType, ReqOK, Sound
<1>2. \A i \in 1..n : ~Seen(r.list[i].b_error)
  BY <1>1, FirstErrorIs
<1>3. \A i \in 1..n : r.list[i].addr..(r.list[i].addr + r.list[i].n - 1) \subseteq Settled(r)
  <2> SUFFICES ASSUME NEW i \in 1..n
               PROVE  r.list[i].addr..(r.list[i].addr + r.list[i].n - 1) \subseteq Settled(r)
    OBVIOUS
  <2>1. r.list[i].status = "STRIPE_DONE" /\ ~Seen(r.list[i].b_error)
    BY <1>1, <1>2 DEF Complete
  <2> QED BY <1>1, <2>1, DoneSettled
<1>4. /\ From(r) <= EndOf(r, n) /\ EndOf(r, n) \in Nat
      /\ From(r)..(EndOf(r, n) - 1) \subseteq Settled(r)
  <2>1. n \in 0..Len(r.list)
    BY <1>1
  <2> QED BY <1>1, <1>3, <2>1, PrefixSettled
<1>5. From(r) = r.blk + r.n - r.resid /\ r.blk..(From(r) - 1) \subseteq Settled(r)
  BY <1>1 DEF From, Sound
<1>6. Rest(r) \in Int /\ r.resid - Rest(r) \in 0..(EndOf(r, n) - From(r))
  BY <1>1, RestBounds
<1>7. /\ r.partial => EndOf(r, n) < r.blk + r.n
      /\ ~r.partial => EndOf(r, n) = r.blk + r.n
  BY DEF Chained
<1> HIDE DEF n
<1>8. resid \in 0..r.n /\ r.blk + r.n - resid <= EndOf(r, n) /\ (r.partial => resid # 0)
  <2>1. CASE r.partial
    <3>1. PICK s \in Int : s = r.resid - Rest(r) /\ 0 <= s /\ s <= EndOf(r, n) - From(r)
      BY <1>1, <1>6
    <3>2. resid = r.resid - s
      BY <1>1, <1>6, <2>1, <3>1
    <3>3. EndOf(r, n) < r.blk + r.n
      BY <1>7, <2>1
    <3>4. PICK e, f \in Int : e = EndOf(r, n) /\ f = From(r)
      BY <1>1, <1>4, <1>5
    <3>5. s <= e - f /\ e < r.blk + r.n /\ f = r.blk + r.n - r.resid
      BY <1>5, <3>1, <3>3, <3>4
    <3>6. resid \in 0..r.n /\ r.blk + r.n - resid <= e /\ resid # 0
      <4>1. r.blk \in Nat /\ r.n \in Nat /\ r.resid \in Nat /\ r.resid <= r.n
        BY <1>1
      <4>2. r.resid - s >= r.blk + r.n - e
        BY <4>1, <3>1, <3>4, <3>5
      <4> QED BY <4>1, <4>2, <3>1, <3>2, <3>4, <3>5
    <3> QED BY <3>4, <3>6
  <2>2. CASE ~r.partial
    BY <1>1, <1>7, <2>2
  <2> QED BY <2>1, <2>2
<1>9. r.blk..(r.blk + r.n - resid - 1) \subseteq Settled(r)
  <2> SUFFICES ASSUME NEW l \in r.blk..(r.blk + r.n - resid - 1) PROVE l \in Settled(r)
    OBVIOUS
  <2>1. l \in Nat /\ r.blk <= l /\ l <= EndOf(r, n) - 1 /\ From(r) \in Int
    BY <1>1, <1>4, <1>5, <1>8
  <2>2. l \in r.blk..(From(r) - 1) \/ l \in From(r)..(EndOf(r, n) - 1)
    BY <1>1, <1>4, <2>1
  <2> QED BY <1>4, <1>5, <2>2
<1>10. ASSUME NEW d \in ReqType, d.resid = resid, d.blk = r.blk, d.n = r.n, d.list = r.list,
              d.moved = r.moved, d.lost = r.lost, d.st = IF r.partial THEN "active" ELSE "returned"
       PROVE  ReqOK(d)
  <2>1. From(d) = r.blk + r.n - resid /\ Settled(d) = Settled(r)
    BY <1>10 DEF From, Settled
  <2>2. \A i \in 1..Len(d.list) : PieceOK(d, d.list[i])
    BY <1>1, <1>10, <2>1 DEF PieceOK, Piece, n
  <2>3. /\ d.resid <= d.n /\ (d.n # 0 => d.blk + d.n - 1 \in Logical)
        /\ \A x \in d.moved : LogicalOf(x[2]) = x[1]
        /\ d.st = "active" => d.resid # 0
        /\ d.lost # {} => \E e \in Errno : ~Seen(e)
    BY <1>1, <1>8, <1>10 DEF Sound
  <2>4. d.blk..(From(d) - 1) \subseteq Settled(d)
    <3>1. d.blk = r.blk
      BY <1>10
    <3>2. From(d) = r.blk + r.n - resid
      BY <2>1
    <3>3. Settled(d) = Settled(r)
      BY <2>1
    <3>4. d.blk..(From(d) - 1) = r.blk..(r.blk + r.n - resid - 1)
      <4>1. r.blk \in Int /\ r.n \in Int /\ resid \in Int
        BY <1>1, <1>8
      <4> QED BY <3>1, <3>2, <4>1
    <3> QED BY <1>9, <3>3, <3>4
  <2>5. Sound(d)
    BY <2>2, <2>3, <2>4 DEF Sound
  <2> QED BY <1>10, <2>5 DEF ReqOK
<1>14. resid \in Nat
  BY <1>1, <1>8
<1>11. [r EXCEPT !.resid = resid] \in ReqType /\ [r EXCEPT !.resid = resid, !.st = "returned"] \in ReqType
  BY <1>14 DEF ReqType
<1>12. r.partial => ReqOK([r EXCEPT !.resid = resid])
  <2> DEFINE d == [r EXCEPT !.resid = resid]
  <2>1. d \in ReqType /\ d.resid = resid /\ d.blk = r.blk /\ d.n = r.n /\ d.list = r.list
        /\ d.moved = r.moved /\ d.lost = r.lost /\ d.st = "active"
    BY <1>11 DEF ReqType
  <2> HIDE DEF d
  <2>2. r.partial => ReqOK(d)
    BY <1>10, <2>1
  <2> QED BY <2>2 DEF d
<1>13. ~r.partial => ReqOK([r EXCEPT !.resid = resid, !.st = "returned"])
  <2> DEFINE d == [r EXCEPT !.resid = resid, !.st = "returned"]
  <2>1. d \in ReqType /\ d.resid = resid /\ d.blk = r.blk /\ d.n = r.n /\ d.list = r.list
        /\ d.moved = r.moved /\ d.lost = r.lost /\ d.st = "returned"
    BY <1>11 DEF ReqType
  <2> HIDE DEF d
  <2>2. ~r.partial => ReqOK(d)
    BY <1>10, <2>1
  <2> QED BY <2>2 DEF d
<1> QED BY <1>11, <1>12, <1>13

-----------------------------------------------------------------------------
(* hd_chkblk lets no transfer go past the end of the piece.                 *)
LEMMA ChkblkWithin ==
  ASSUME NEW c, NEW p \in PieceType, p.at <= p.addr + p.n
  PROVE  hd_chkblk(c, p) \in 0..(p.addr + p.n - p.at)
<1> DEFINE a == At(p)
           left == p.addr + p.n - p.at
           B == {k \in 0..(left - 1) : [a EXCEPT !.blk = @ + k] \in c.bad}
           first == CHOOSE k \in B : \A j \in B : k <= j
<1>1. left \in Nat
  BY DEF PieceType
<1>2. hd_chkblk(c, p) = IF B = {} THEN left ELSE IF c.nobbrel THEN 0 ELSE IF first = 0 THEN 1 ELSE first
  BY Zenon DEF hd_chkblk
<1>3. B \in SUBSET Nat /\ \A k \in B : k \in 0..(left - 1)
  OBVIOUS
<1>4. B # {} => first \in B
  <2> SUFFICES ASSUME B # {} PROVE first \in B
    OBVIOUS
  <2> HIDE DEF B
  <2>1. \E k \in B : \A j \in B : k <= j
    BY <1>3, MinIn
  <2> QED BY <2>1
<1> HIDE DEF B, first, left, a
<1>5. hd_chkblk(c, p) \in 0..left
  <2>1. CASE B = {}
    BY <1>1, <1>2, <2>1
  <2>2. CASE B # {}
    <3>1. first \in 0..(left - 1)
      BY <1>3, <1>4, <2>2
    <3> QED BY <1>1, <1>2, <2>2, <3>1
  <2> QED BY <2>1, <2>2
<1> QED BY <1>5 DEF left

(* A piece that is started is busy, or done with an error that is seen.     *)
LEMMA StartOK ==
  ASSUME NEW c, NEW r, NEW p \in PieceType,
         p.n # 0, p.n = Piece(r, p.addr).n, r.blk <= p.addr, p.addr + p.n <= r.blk + r.n,
         p.addr <= p.at, p.at <= p.addr + p.n, p.bcount <= p.n,
         p.addr..(p.at - 1) \subseteq Settled(r),
         p.status = "STRIPE_NOTDONE", p.b_error = 0, ~p.busy
  PROVE  /\ Start(c, p) \in PieceType /\ PieceOK(r, Start(c, p))
         /\ Start(c, p).addr = p.addr /\ Start(c, p).n = p.n /\ Start(c, p).at = p.at
         /\ Start(c, p).status = "STRIPE_DONE" => Seen(Start(c, p).b_error)
<1> DEFINE k == hd_chkblk(c, p)
<1>1. k \in 0..(p.addr + p.n - p.at)
  BY ChkblkWithin
<1>2. Start(c, p) = IF k = 0 THEN [p EXCEPT !.status = "STRIPE_DONE", !.b_error = EMEDIA]
                    ELSE [p EXCEPT !.bcount = k, !.busy = TRUE]
  BY DEF Start
<1> HIDE DEF k
<1>3. /\ p.addr \in Nat /\ p.n \in Nat /\ p.at \in Nat /\ p.bcount \in Nat
      /\ p = [addr |-> p.addr, n |-> p.n, at |-> p.at, bcount |-> p.bcount, status |-> p.status,
              b_error |-> p.b_error, busy |-> p.busy]
  BY DEF PieceType
<1>4. CASE k = 0
  <2> DEFINE s == [p EXCEPT !.status = "STRIPE_DONE", !.b_error = EMEDIA]
  <2>1. /\ s \in PieceType /\ s.addr = p.addr /\ s.n = p.n /\ s.at = p.at /\ s.bcount = p.bcount
        /\ s.status = "STRIPE_DONE" /\ s.b_error = EMEDIA /\ ~s.busy
    BY DEF PieceType, EMEDIA
  <2>4. Seen(EMEDIA)
    BY DEF Seen, EMEDIA, B_ERROR
  <2> HIDE DEF s
  <2>2. PieceOK(r, s)
    BY <2>1, <2>4 DEF PieceOK
  <2>3. Start(c, p) = s
    BY <1>2, <1>4 DEF s
  <2> QED BY <2>1, <2>2, <2>3, <2>4
<1>5. CASE k # 0
  <2> DEFINE s == [p EXCEPT !.bcount = k, !.busy = TRUE]
  <2>1. k \in Nat /\ k <= p.n /\ k <= p.addr + p.n - p.at
    BY <1>1, <1>3
  <2>2. /\ s \in PieceType /\ s.addr = p.addr /\ s.n = p.n /\ s.at = p.at /\ s.bcount = k
        /\ s.status = "STRIPE_NOTDONE" /\ s.b_error = 0 /\ s.busy
    BY <2>1 DEF PieceType
  <2> HIDE DEF s
  <2>3. PieceOK(r, s)
    BY <1>5, <2>1, <2>2 DEF PieceOK
  <2>4. Start(c, p) = s
    BY <1>2, <1>5 DEF s
  <2> QED BY <2>2, <2>3, <2>4
<1> QED BY <1>4, <1>5

(* Multiples of a number are in the order of the factors.                   *)
LEMMA MulLe ==
  ASSUME NEW d \in Nat \ {0}, NEW a \in Nat, NEW b \in Nat, a <= b
  PROVE  a * d \in Nat /\ b * d \in Nat /\ a * d <= b * d
<1>1. a * d \in Nat /\ b * d \in Nat
  BY SMT
<1>2. CASE a = b
  BY <1>1, <1>2
<1>3. CASE a < b
  BY <1>1, <1>3, MulMono
<1> QED BY <1>1, <1>2, <1>3

(* The pieces that hd_stripe cuts what is left of a request into follow     *)
(* each other up to its end.                                                *)
LEMMA CutOK ==
  ASSUME NEW r \in ReqType, r.resid # 0, r.resid <= r.n
  PROVE  LET cut == Cut(r)
         IN  /\ cut \in Seq(Nat) /\ Len(cut) # 0 /\ cut[1] = From(r)
             /\ \A i \in 1..Len(cut) :
                  /\ r.blk <= cut[i] /\ Piece(r, cut[i]).n \in Nat \ {0}
                  /\ cut[i] + Piece(r, cut[i]).n = IF i = Len(cut) THEN r.blk + r.n ELSE cut[i + 1]
                  /\ cut[i] + Piece(r, cut[i]).n <= r.blk + r.n
                  /\ i # Len(cut) => cut[i] + Piece(r, cut[i]).n < r.blk + r.n
<1>1. PICK b, n, resid \in Nat : b = r.blk /\ n = r.n /\ resid = r.resid
  BY DEF ReqType
<1>2. PICK end \in Nat : end = r.blk + r.n /\ end # 0
  BY <1>1
<1>3. PICK from \in Nat : from = From(r) /\ from < end /\ b <= from
  BY <1>1, <1>2 DEF From
<1> DEFINE w == stripe_blks
<1>4. w \in Nat \ {0}
  BY StripeAssumption
<1>5. PICK first \in Nat, o \in 0..(w - 1) : first = from \div w /\ from = first * w + o
  BY <1>4, DivMod
<1>6. end - 1 \in Nat
  BY <1>2
<1>7. PICK last \in Nat, q \in 0..(w - 1) : last = (end - 1) \div w /\ end - 1 = last * w + q
  BY <1>4, <1>6, DivMod
<1> HIDE DEF w
<1>8. PICK lw, fw \in Nat : lw = last * w /\ fw = first * w
  BY <1>4, MulLe
<1>9. first <= last
  <2>1. SUFFICES ASSUME last < first PROVE FALSE
    BY <1>5, <1>7
  <2>2. last * w + w <= first * w
    BY <1>4, <2>1, MulMono
  <2>3. lw + w <= fw /\ end - 1 = lw + q /\ from = fw + o
    BY <2>2, <1>5, <1>7, <1>8
  <2> QED BY <2>3, <1>2, <1>3, <1>4, <1>5, <1>7, <1>8
<1>10. PICK L \in Nat : L = last - first + 1 /\ L # 0
  BY <1>9
<1> DEFINE cut == [i \in 1..L |-> IF i = 1 THEN from ELSE (first + i - 1) * w]
<1>11. Cut(r) = cut
  <2>1. r.blk + r.n - r.resid = from
    BY <1>3 DEF From
  <2>2. r.blk + r.n - 1 = end - 1
    BY <1>1, <1>2
  <2> QED BY <1>5, <1>7, <1>10, <2>1, <2>2 DEF Cut, w
<1>12. ASSUME NEW i \in 1..L
       PROVE  /\ cut[i] \in Nat /\ b <= cut[i] /\ cut[i] < end
              /\ cut[i] \div w = first + i - 1
              /\ (first + i) * w \in Nat /\ cut[i] < (first + i) * w
              /\ i = L => end <= (first + i) * w
              /\ i # L => (first + i) * w < end
  <2>1. PICK k \in Nat : k = first + i - 1 /\ first <= k /\ k <= last /\ k + 1 = first + i
    BY <1>10
  <2>2. PICK kw \in Nat : kw = k * w /\ (k + 1) * w = kw + w
    <3>1. k * w \in Nat /\ (k + 1) * w = k * w + w
      BY <1>4, SMT
    <3> QED BY <3>1
  <2>3. fw <= kw /\ kw <= lw
    <3>1. first * w <= k * w /\ k * w <= last * w
      BY <1>4, <2>1, MulLe
    <3> QED BY <3>1, <2>2, <1>8
  <2>4. end - 1 = lw + q /\ from = fw + o
    BY <1>5, <1>7, <1>8
  <2>5. cut[i] = IF i = 1 THEN fw + o ELSE kw
    BY <2>1, <2>2, <2>4
  <2>6. i = 1 => k = first /\ kw = fw
    BY <2>1, <2>2, <1>8
  <2>7. i # 1 => first < k
    BY <2>1
  <2>8. i # 1 => fw + w <= kw
    <3>1. i # 1 => first * w + w <= k * w
      BY <1>4, <2>1, <2>7, MulMono
    <3> QED BY <3>1, <2>2, <1>8
  <2> HIDE DEF cut
  <2>9. PICK x \in 0..(w - 1) : cut[i] = kw + x
    BY <1>4, <2>5, <2>6
  <2>10. cut[i] \in Nat /\ cut[i] < kw + w
    BY <1>4, <2>2, <2>9
  <2>11. cut[i] \div w = k
    <3>1. cut[i] = k * w + x
      BY <2>2, <2>9
    <3> QED BY <1>4, <2>10, <3>1, DivUnique
  <2>12. b <= cut[i] /\ cut[i] < end
    BY <1>1, <1>2, <1>3, <1>4, <2>3, <2>4, <2>5, <2>8, <1>7, <1>8
  <2>13. i = L => end <= kw + w
    <3> SUFFICES ASSUME i = L PROVE end <= kw + w
      OBVIOUS
    <3>1. k = last
      BY <1>10, <2>1
    <3>2. kw = lw
      BY <3>1, <2>2, <1>8
    <3> QED BY <1>2, <1>4, <1>7, <1>8, <2>4, <3>2
  <2>14. i # L => kw + w < end
    <3> SUFFICES ASSUME i # L PROVE kw + w < end
      OBVIOUS
    <3>1. k < last
      BY <1>10, <2>1
    <3>2. k * w + w <= last * w
      BY <1>4, <3>1, MulMono
    <3>3. kw + w <= lw
      BY <3>2, <2>2, <1>8
    <3> QED BY <1>2, <1>4, <1>7, <1>8, <2>2, <2>4, <3>3
  <2>15. (first + i) * w = kw + w
    BY <2>1, <2>2
  <2> QED BY <1>4, <2>1, <2>2, <2>10, <2>11, <2>12, <2>13, <2>14, <2>15
<1>13. ASSUME NEW i \in 1..L
       PROVE  Piece(r, cut[i]).n = (IF (first + i) * w < end THEN (first + i) * w ELSE end) - cut[i]
  <2>1. cut[i] \div w = first + i - 1
    BY <1>12
  <2>2. (cut[i] \div w) + 1 = first + i
    BY <2>1
  <2> HIDE DEF cut
  <2> QED BY <1>2, <2>2 DEF Piece, w
<1>14. cut \in Seq(Nat) /\ Len(cut) = L /\ cut[1] = from
  <2>1. \A i \in 1..L : cut[i] \in Nat
    BY <1>12
  <2> QED BY <1>10, <2>1
<1>15. ASSUME NEW i \in 1..L, i # L PROVE cut[i + 1] = (first + i) * w
  <2>1. i + 1 \in 1..L /\ i + 1 # 1 /\ first + (i + 1) - 1 = first + i
    BY <1>15
  <2> QED BY <2>1
<1> HIDE DEF cut
<1>16. ASSUME NEW i \in 1..L
       PROVE  /\ r.blk <= cut[i] /\ Piece(r, cut[i]).n \in Nat \ {0}
              /\ cut[i] + Piece(r, cut[i]).n = IF i = L THEN r.blk + r.n ELSE cut[i + 1]
              /\ cut[i] + Piece(r, cut[i]).n <= r.blk + r.n
              /\ i # L => cut[i] + Piece(r, cut[i]).n < r.blk + r.n
  <2> DEFINE p == Piece(r, cut[i]).n
             u == (first + i) * w
  <2>1. p = (IF u < end THEN u ELSE end) - cut[i]
    BY <1>13
  <2>2. /\ cut[i] \in Nat /\ b <= cut[i] /\ cut[i] < end
        /\ u \in Nat /\ cut[i] < u /\ (i = L => end <= u) /\ (i # L => u < end)
    BY <1>12
  <2>3. i # L => cut[i + 1] = u
    BY <1>15
  <2> HIDE DEF p, u
  <2>4. /\ p \in Nat \ {0} /\ cut[i] + p = (IF i = L THEN end ELSE u) /\ cut[i] + p <= end
        /\ i # L => cut[i] + p < end
    BY <1>2, <2>1, <2>2
  <2> QED BY <1>1, <1>2, <2>2, <2>3, <2>4 DEF p
<1> QED BY <1>3, <1>10, <1>11, <1>14, <1>16

-----------------------------------------------------------------------------
(* The buffers that are out: those of requests with pieces to be done.      *)
Held(c) == {x \in Req \X Nat : ~Complete(c.req[x[1]].list) /\ x[2] \in 1..Len(c.req[x[1]].list)}
HeldByOthers(c, q) == {x \in Held(c) : x[1] # q}

(* They are not more than the pool lacks; with k for the pieces of q.       *)
Buffers(c) == IsFiniteSet(Held(c)) /\ Cardinality(Held(c)) <= NPbuf - c.free
Room(c, q, k) ==
  IsFiniteSet(HeldByOthers(c, q)) /\ Cardinality(HeldByOthers(c, q)) + k <= NPbuf - c.free

Same(c, d, q) == \A o \in Req : o # q => d.req[o] = c.req[o]
Pieces(c, q) == IF Complete(c.req[q].list) THEN 0 ELSE Len(c.req[q].list)

(* What the driver's memory is between the handlers.                        *)
MemOK(c) ==
  /\ c \in MemType
  /\ \A q \in Req : ReqOK(c.req[q])
  /\ IsInjective(c.pending_Q)
  /\ \A q \in Range(c.pending_Q) : c.req[q].st = "active" /\ Complete(c.req[q].list)
  /\ Buffers(c)

LEMMA MemFields ==
  ASSUME NEW c \in MemType
  PROVE  /\ c.free \in 0..NPbuf /\ c.free \in Nat /\ NPbuf \in Nat /\ c.pending_Q \in Seq(Req)
         /\ c.req \in [Req -> ReqType]
         /\ \A q \in Req : c.req[q] \in ReqType /\ c.req[q].list \in Seq(PieceType) /\ Len(c.req[q].list) \in Nat
BY PbufAssumption DEF MemType, ReqType

LEMMA HeldSplit ==
  ASSUME NEW c \in MemType, NEW q \in Req
  PROVE  /\ IsFiniteSet(Held(c)) <=> IsFiniteSet(HeldByOthers(c, q))
         /\ IsFiniteSet(Held(c)) =>
              Cardinality(Held(c)) = Cardinality(HeldByOthers(c, q)) + Pieces(c, q)
<1> DEFINE k == Pieces(c, q)
           Mine == {q} \X (1..k)
           O == HeldByOthers(c, q)
<1>1. k \in Nat
  BY MemFields DEF Pieces
<1>2. IsFiniteSet(Mine) /\ Cardinality(Mine) = k
  <2>1. IsFiniteSet({q}) /\ Cardinality({q}) = 1
    BY FS_Singleton
  <2>2. IsFiniteSet(1..k) /\ Cardinality(1..k) = k
    <3> HIDE DEF k
    <3>1. 1 \in Int /\ k \in Int
      BY <1>1
    <3>2. IsFiniteSet(1..k) /\ Cardinality(1..k) = IF 1 > k THEN 0 ELSE k - 1 + 1
      BY <3>1, FS_Interval
    <3> QED BY <1>1, <3>2
  <2> HIDE DEF k
  <2>3. IsFiniteSet(Mine) /\ Cardinality(Mine) = Cardinality({q}) * Cardinality(1..k)
    BY <2>1, <2>2, FS_Product
  <2> QED BY <1>1, <2>1, <2>2, <2>3
<1>3. Held(c) = O \cup Mine /\ O \cap Mine = {}
  BY MemFields DEF Held, HeldByOthers, Pieces
<1>4. O \subseteq Held(c)
  BY <1>3
<1> HIDE DEF O, Mine, k
<1>5. IsFiniteSet(Held(c)) => IsFiniteSet(O)
  BY <1>4, FS_Subset
<1>6. IsFiniteSet(O) => IsFiniteSet(Held(c)) /\ Cardinality(Held(c)) = Cardinality(O) + k
  <2> SUFFICES ASSUME IsFiniteSet(O) PROVE IsFiniteSet(Held(c)) /\ Cardinality(Held(c)) = Cardinality(O) + k
    OBVIOUS
  <2>1. IsFiniteSet(Held(c)) /\ Cardinality(Held(c)) = Cardinality(O) + k - Cardinality({})
    BY <1>2, <1>3, FS_Union
  <2>2. Cardinality({}) = 0 /\ Cardinality(O) \in Nat
    BY FS_EmptySet, FS_CardinalityType
  <2> QED BY <1>1, <2>1, <2>2
<1> QED BY <1>5, <1>6 DEF O, k

LEMMA RoomOf ==
  ASSUME NEW c \in MemType, NEW q \in Req
  PROVE  Buffers(c) <=> Room(c, q, Pieces(c, q))
BY HeldSplit DEF Buffers, Room

LEMMA RoomSame ==
  ASSUME NEW c \in MemType, NEW d \in MemType, NEW q \in Req, NEW k \in Nat, NEW j \in Nat,
         Same(c, d, q), Room(c, q, k), d.free + j <= c.free + k
  PROVE  Room(d, q, j)
<1>1. HeldByOthers(d, q) = HeldByOthers(c, q)
  BY DEF HeldByOthers, Held, Same
<1>2. Cardinality(HeldByOthers(c, q)) \in Nat
  BY FS_CardinalityType DEF Room
<1> QED BY <1>1, <1>2, MemFields DEF Room

(* The end of pieces: their buffers are free again, and the request returns  *)
(* or goes on to wait for the rest.                                         *)
LEMMA StripeDone ==
  ASSUME NEW c \in MemType, NEW q \in Req, ReqOK(c.req[q]), c.req[q].st = "active",
         Chained(c.req[q]), Room(c, q, Len(c.req[q].list))
  PROVE  LET d == hd_stripe_done(c, q)
         IN  /\ d \in MemType /\ Same(c, d, q) /\ ReqOK(d.req[q]) /\ Buffers(d)
             /\ \/ d.pending_Q = c.pending_Q
                \/ /\ d.pending_Q = Append(c.pending_Q, q)
                   /\ Complete(c.req[q].list) /\ FirstError(c.req[q].list) = 0
                   /\ d.req[q].st = "active" /\ Complete(d.req[q].list)
<1> DEFINE r == c.req[q]
           e == FirstError(r.list)
           d == hd_stripe_done(c, q)
           err == [r EXCEPT !.st = "returned", !.err = TRUE, !.resid = r.n - (r.list[e].at - r.blk)]
           more == [r EXCEPT !.resid = Rest(r)]
           done == [r EXCEPT !.resid = 0, !.st = "returned"]
           Ret(x, Q) == [c EXCEPT !.free = @ + Len(r.list), !.req[q] = x, !.pending_Q = Q]
           Post(x) == /\ x \in MemType /\ Same(c, x, q) /\ ReqOK(x.req[q]) /\ Buffers(x)
                      /\ \/ x.pending_Q = c.pending_Q
                         \/ /\ x.pending_Q = Append(c.pending_Q, q)
                            /\ Complete(c.req[q].list) /\ FirstError(c.req[q].list) = 0
                            /\ x.req[q].st = "active" /\ Complete(x.req[q].list)
<1>1. /\ r \in ReqType /\ ReqOK(r) /\ r.st = "active" /\ Chained(r) /\ Len(r.list) \in Nat
      /\ c.free \in Nat /\ NPbuf \in Nat /\ c.pending_Q \in Seq(Req) /\ c.req \in [Req -> ReqType]
  BY MemFields
<1>2. CASE ~Complete(r.list)
  <2>1. d = c
    BY <1>2, Zenon DEF hd_stripe_done
  <2>2. Pieces(c, q) = Len(r.list)
    BY <1>2 DEF Pieces
  <2>3. Buffers(c)
    BY <2>2, RoomOf
  <2> QED BY <2>1, <2>3 DEF Same
<1>3. CASE Complete(r.list)
  <2>1. Cardinality(HeldByOthers(c, q)) \in Nat /\ Cardinality(HeldByOthers(c, q)) + Len(r.list) <= NPbuf - c.free
    BY FS_CardinalityType DEF Room
  <2>2. c.free + Len(r.list) \in 0..NPbuf
    BY <1>1, <2>1
  <2>3. ASSUME NEW x \in ReqType, NEW Q \in Seq(Req), ReqOK(x), x.list = r.list,
               \/ Q = c.pending_Q
               \/ Q = Append(c.pending_Q, q) /\ x.st = "active" /\ e = 0
        PROVE  Post(Ret(x, Q))
    <3> DEFINE y == Ret(x, Q)
    <3>1. y \in MemType
      BY <2>2 DEF MemType
    <3>2. /\ y.req = [c.req EXCEPT ![q] = x] /\ y.free = c.free + Len(r.list) /\ y.pending_Q = Q
          /\ y.req[q] = x
      BY <1>1 DEF MemType
    <3> HIDE DEF y
    <3>3. Same(c, y, q)
      BY <1>1, <3>2 DEF Same
    <3>4. Pieces(y, q) = 0
      BY <1>3, <2>3, <3>2 DEF Pieces
    <3>5. Room(y, q, 0)
      BY <1>1, <3>1, <3>2, <3>3, RoomSame
    <3>6. Buffers(y)
      BY <3>1, <3>4, <3>5, RoomOf
    <3>7. Post(y)
      BY <1>3, <2>3, <3>1, <3>2, <3>3, <3>6
    <3> QED BY <3>7 DEF y
  <2>4. CASE e # 0
    <3>1. d = Ret(err, c.pending_Q)
      BY <1>1, <1>3, <2>4 DEF hd_stripe_done, MemType
    <3>2. err \in ReqType /\ ReqOK(err) /\ err.list = r.list
      <4>1. err \in ReqType /\ ReqOK(err)
        BY <1>1, <1>3, <2>4, DoneError
      <4>2. err.list = r.list
        BY <1>1 DEF ReqType
      <4> QED BY <4>1, <4>2
    <3> HIDE DEF err, Ret, Post, d
    <3>3. Post(Ret(err, c.pending_Q))
      BY <1>1, <2>3, <3>2
    <3> QED BY <3>1, <3>3 DEF Post, d
  <2>5. CASE e = 0 /\ r.partial
    <3>1. d = Ret(more, Append(c.pending_Q, q))
      BY <1>1, <1>3, <2>5 DEF hd_stripe_done, MemType
    <3>2. more \in ReqType /\ ReqOK(more)
      BY <1>1, <1>3, <2>5, DonePart
    <3>3. more.list = r.list /\ more.st = "active"
      BY <1>1 DEF ReqType
    <3>4. Append(c.pending_Q, q) \in Seq(Req)
      BY <1>1
    <3> HIDE DEF more, Ret, Post, d
    <3>5. Post(Ret(more, Append(c.pending_Q, q)))
      BY <2>3, <2>5, <3>2, <3>3, <3>4
    <3> QED BY <3>1, <3>5 DEF Post, d
  <2>6. CASE e = 0 /\ ~r.partial
    <3>1. d = Ret(done, c.pending_Q)
      BY <1>1, <1>3, <2>6 DEF hd_stripe_done, MemType, ReqType
    <3>2. done \in ReqType /\ ReqOK(done)
      BY <1>1, <1>3, <2>6, DonePart
    <3>3. done.list = r.list
      BY <1>1 DEF ReqType
    <3> HIDE DEF done, Ret, Post, d
    <3>4. Post(Ret(done, c.pending_Q))
      BY <1>1, <2>3, <3>2, <3>3
    <3> QED BY <3>1, <3>4 DEF Post, d
  <2> QED BY <2>4, <2>5, <2>6
<1> QED BY <1>2, <1>3

(* The cut of a request that has its turn, with a buffer at least: it does  *)
(* not go back to the queue before a transfer has ended.                    *)
LEMMA StripeKeeps ==
  ASSUME NEW c \in MemType, NEW q \in Req, ReqOK(c.req[q]), c.req[q].st = "active",
         Complete(c.req[q].list), Buffers(c), c.free # 0
  PROVE  LET d == hd_stripe(c, q)
         IN  /\ d \in MemType /\ Same(c, d, q) /\ ReqOK(d.req[q]) /\ Buffers(d)
             /\ d.pending_Q = c.pending_Q
<1> DEFINE r == c.req[q]
           cut == Cut(r)
           most == IF r.serial THEN 1 ELSE c.free
           k == IF Len(cut) < most THEN Len(cut) ELSE most
           fail == SelectInSeq(SubSeq(cut, 1, k), LAMBDA l : pvol(hd_stripe_xlate(l).part) \in missing)
           list == [i \in 1..k |-> Start(c, Piece(r, cut[i]))]
           part == k < Len(cut)
           d == [c EXCEPT !.free = @ - k, !.req[q].list = list, !.req[q].partial = part]
           f == [c EXCEPT !.free = @ - fail, !.req[q].st = "returned", !.req[q].err = TRUE,
                          !.req[q].resid = r.n, !.req[q].list = <<>>]
           Post(x) == /\ x \in MemType /\ Same(c, x, q) /\ ReqOK(x.req[q]) /\ Buffers(x)
                      /\ x.pending_Q = c.pending_Q
<1>1. /\ r \in ReqType /\ ReqOK(r) /\ Sound(r) /\ r.st = "active"
      /\ c.free \in Nat \ {0} /\ NPbuf \in Nat /\ c.free <= NPbuf /\ c.pending_Q \in Seq(Req) /\ c.req \in [Req -> ReqType]
  BY MemFields DEF ReqOK
<1>2. /\ r.blk \in Nat /\ r.n \in Nat /\ r.resid \in Nat /\ r.resid <= r.n /\ r.resid # 0
      /\ r.serial \in BOOLEAN /\ r.moved \in SUBSET (Nat \X Place)
  BY <1>1 DEF ReqType, Sound
<1>3. /\ cut \in Seq(Nat) /\ Len(cut) # 0 /\ cut[1] = From(r)
      /\ \A i \in 1..Len(cut) :
           /\ r.blk <= cut[i] /\ Piece(r, cut[i]).n \in Nat \ {0}
           /\ cut[i] + Piece(r, cut[i]).n = IF i = Len(cut) THEN r.blk + r.n ELSE cut[i + 1]
           /\ cut[i] + Piece(r, cut[i]).n <= r.blk + r.n
           /\ i # Len(cut) => cut[i] + Piece(r, cut[i]).n < r.blk + r.n
  BY <1>1, <1>2, CutOK
<1>4. hd_stripe(c, q) = IF fail # 0 THEN f ELSE hd_stripe_done(d, q)
  BY Zenon DEF hd_stripe
<1> HIDE DEF cut
<1>5. k \in 1..Len(cut) /\ k <= c.free /\ Len(cut) \in Nat
  BY <1>1, <1>2, <1>3
<1> HIDE DEF most
<1>6. fail \in 0..k
  <2> DEFINE s == SubSeq(cut, 1, k)
             I == {i \in 1..Len(s) : pvol(hd_stripe_xlate(s[i]).part) \in missing}
  <2>1. Len(s) = k
    BY <1>3, <1>5
  <2>2. fail = IF I # {} THEN Min(I) ELSE 0
    BY Zenon DEF SelectInSeq
  <2>5. k \in Nat
    BY <1>5
  <2> HIDE DEF s, k
  <2>3. I \in SUBSET Nat /\ I \subseteq 1..k
    BY <2>1, <2>5
  <2>4. I # {} => Min(I) \in I
    <3> HIDE DEF I
    <3> QED BY <2>3, MinIn
  <2> HIDE DEF I, fail
  <2>6. CASE I = {}
    BY <2>2, <2>5, <2>6
  <2>7. CASE I # {}
    <3>1. fail = Min(I) /\ Min(I) \in 1..k
      BY <2>2, <2>3, <2>4, <2>7
    <3> QED BY <2>5, <3>1
  <2> QED BY <2>6, <2>7
<1>7. CASE fail # 0
  <2> DEFINE x == [r EXCEPT !.st = "returned", !.err = TRUE, !.resid = r.n, !.list = <<>>]
  <2>0. <<>> \in Seq(PieceType)
    OBVIOUS
  <2>1. x \in ReqType /\ x.st = "returned" /\ x.err /\ x.resid = x.n /\ x.list = <<>> /\ x.n = r.n
        /\ x.blk = r.blk /\ x.moved = r.moved /\ x.lost = r.lost
    <3> HIDE DEF r
    <3>1. x \in ReqType
      BY <1>1, <1>2, <2>0 DEF ReqType
    <3>2. x.st = "returned" /\ x.err /\ x.resid = x.n /\ x.list = <<>> /\ x.n = r.n
        /\ x.blk = r.blk /\ x.moved = r.moved /\ x.lost = r.lost
      BY <1>1 DEF ReqType
    <3> QED BY <3>1, <3>2
  <2> HIDE DEF x
  <2>2. From(x) = r.blk
    BY <1>2, <2>1 DEF From
  <2>3. ReqOK(x)
    <3>1. x.blk..(From(x) - 1) = {}
      BY <1>2, <2>1, <2>2
    <3>2. Complete(x.list)
      BY <2>1 DEF Complete
    <3>3. Sound(x)
      BY <1>1, <1>2, <2>1, <3>1 DEF Sound
    <3> QED BY <2>1, <3>2, <3>3 DEF ReqOK
  <2> HIDE DEF fail, k
  <2>4. c.free - fail \in 0..NPbuf
    BY <1>1, <1>5, <1>6
  <2>5. f = [c EXCEPT !.free = c.free - fail, !.req = [c.req EXCEPT ![q] = x]]
    <3> DEFINE R == [c.req EXCEPT ![q].st = "returned", ![q].err = TRUE, ![q].resid = r.n, ![q].list = <<>>]
    <3>1. R = [c.req EXCEPT ![q] = x]
      BY <1>1 DEF x
    <3>2. f = [c EXCEPT !.free = c.free - fail, !.req = R]
      BY DEF MemType
    <3> HIDE DEF R, f
    <3> QED BY <3>1, <3>2
  <2>6. f \in MemType /\ f.req = [c.req EXCEPT ![q] = x] /\ f.free = c.free - fail /\ f.pending_Q = c.pending_Q
    <3> DEFINE R == [c.req EXCEPT ![q] = x]
               u == c.free - fail
    <3>1. R \in [Req -> ReqType]
      BY <1>1, <2>1
    <3> HIDE DEF R, u, f, r
    <3>2. u \in 0..NPbuf /\ f = [c EXCEPT !.free = u, !.req = R]
      BY <2>4, <2>5 DEF u, R
    <3>3. f \in MemType /\ f.req = R /\ f.free = u /\ f.pending_Q = c.pending_Q
      BY <3>1, <3>2 DEF MemType
    <3> QED BY <3>3 DEF R, u
  <2> HIDE DEF f
  <2>7. Same(c, f, q) /\ f.req[q] = x
    BY <1>1, <2>6 DEF Same
  <2>8. Pieces(c, q) = 0 /\ Pieces(f, q) = 0
    BY <2>1, <2>7 DEF Pieces, Complete
  <2>9. Room(c, q, 0)
    BY <2>8, RoomOf
  <2>10. Room(f, q, 0)
    BY <1>1, <1>5, <1>6, <2>6, <2>7, <2>9, RoomSame
  <2>11. Buffers(f)
    BY <2>6, <2>8, <2>10, RoomOf
  <2> QED BY <1>4, <1>7, <2>3, <2>6, <2>7, <2>11
<1>8. CASE fail = 0
  <2> DEFINE x == [r EXCEPT !.list = list, !.partial = part]
  <2> HIDE DEF fail, k, part
  <2>0. part \in BOOLEAN /\ k \in Nat
    BY <1>5 DEF part
  <2>1. ASSUME NEW i \in 1..k
        PROVE  /\ Start(c, Piece(r, cut[i])) \in PieceType /\ PieceOK(r, Start(c, Piece(r, cut[i])))
               /\ Start(c, Piece(r, cut[i])).addr = cut[i] /\ Start(c, Piece(r, cut[i])).n = Piece(r, cut[i]).n
               /\ Start(c, Piece(r, cut[i])).at = cut[i]
               /\ Start(c, Piece(r, cut[i])).status = "STRIPE_DONE" => Seen(Start(c, Piece(r, cut[i])).b_error)
    <3> DEFINE l == cut[i]
               p == Piece(r, l)
    <3>1. i \in 1..Len(cut)
      BY <1>5
    <3>2. l \in Nat /\ r.blk <= l /\ p.n \in Nat \ {0} /\ l + p.n <= r.blk + r.n
      BY <1>3, <3>1
    <3>3. p \in PieceType /\ p.addr = l /\ p.at = l /\ p.bcount = 0 /\ p.status = "STRIPE_NOTDONE"
          /\ p.b_error = 0 /\ ~p.busy
      <4>1. PICK n \in Nat : p = [addr |-> l, n |-> n, at |-> l, bcount |-> 0, status |-> "STRIPE_NOTDONE",
                                  b_error |-> 0, busy |-> FALSE]
        <5>1. p.n \in Nat
          BY <3>2
        <5>2. p = [addr |-> l, n |-> p.n, at |-> l, bcount |-> 0, status |-> "STRIPE_NOTDONE",
                   b_error |-> 0, busy |-> FALSE]
          BY DEF Piece
        <5> HIDE DEF p
        <5> QED BY <5>1, <5>2
      <4> HIDE DEF p
      <4> QED BY <3>2, <4>1 DEF PieceType
    <3>4. p.addr..(p.at - 1) = {}
      BY <3>2, <3>3
    <3>5. p.n = Piece(r, p.addr).n
      BY <3>3
    <3> HIDE DEF p, l
    <3>6. /\ Start(c, p) \in PieceType /\ PieceOK(r, Start(c, p))
          /\ Start(c, p).addr = p.addr /\ Start(c, p).n = p.n /\ Start(c, p).at = p.at
          /\ Start(c, p).status = "STRIPE_DONE" => Seen(Start(c, p).b_error)
      <4>1. /\ p.n # 0 /\ r.blk <= p.addr /\ p.addr + p.n <= r.blk + r.n
            /\ p.addr <= p.at /\ p.at <= p.addr + p.n /\ p.bcount <= p.n
            /\ p.addr..(p.at - 1) \subseteq Settled(r)
        BY <3>2, <3>3, <3>4
      <4> HIDE DEF r
      <4> QED BY <3>3, <3>5, <4>1, StartOK
    <3> QED BY <3>3, <3>6 DEF p, l
  <2>2. list \in Seq(PieceType) /\ Len(list) = k /\ \A i \in 1..k : list[i] = Start(c, Piece(r, cut[i]))
    BY <2>0, <2>1
  <2> HIDE DEF list
  <2>3. /\ x \in ReqType /\ x.list = list /\ x.partial = part /\ x.st = "active" /\ x.blk = r.blk
        /\ x.n = r.n /\ x.resid = r.resid /\ x.moved = r.moved /\ x.lost = r.lost
    BY <1>1, <2>0, <2>2 DEF ReqType
  <2> HIDE DEF x
  <2>4. From(x) = From(r) /\ Settled(x) = Settled(r)
    BY <2>3 DEF From, Settled
  <2>5. \A i \in 1..Len(x.list) : PieceOK(x, x.list[i])
    <3> SUFFICES ASSUME NEW i \in 1..k PROVE PieceOK(x, list[i])
      BY <2>2, <2>3
    <3>1. PieceOK(r, list[i])
      BY <2>1, <2>2
    <3> QED BY <3>1, <2>3, <2>4 DEF PieceOK, Piece
  <2>6. Sound(x)
    BY <1>1, <2>3, <2>4, <2>5 DEF Sound
  <2>7. Chained(x)
    <3>1. x.list # <<>> /\ Len(x.list) = k
      BY <1>5, <2>2, <2>3
    <3>2. ASSUME NEW i \in 1..k PROVE x.list[i].addr = cut[i] /\ x.list[i].n = Piece(r, cut[i]).n
      BY <2>1, <2>2, <2>3
    <3>3. ASSUME NEW i \in 1..k PROVE x.list[i].addr = EndOf(x, i - 1)
      <4>1. CASE i = 1
        BY <1>3, <2>4, <3>2, <4>1 DEF EndOf
      <4>2. CASE i # 1
        <5>1. i - 1 \in 1..k /\ i - 1 \in 1..Len(cut) /\ i - 1 # Len(cut) /\ (i - 1) + 1 = i /\ i - 1 # 0
          BY <1>5, <4>2
        <5>2. EndOf(x, i - 1) = cut[i - 1] + Piece(r, cut[i - 1]).n
          BY <3>2, <5>1 DEF EndOf
        <5>3. cut[i - 1] + Piece(r, cut[i - 1]).n = cut[i]
          BY <1>3, <5>1
        <5> QED BY <3>2, <5>2, <5>3
      <4> QED BY <4>1, <4>2
    <3>4. EndOf(x, k) = cut[k] + Piece(r, cut[k]).n
      <4>1. k \in 1..k /\ k # 0
        BY <1>5
      <4> QED BY <3>2, <4>1 DEF EndOf
    <3>5. part => EndOf(x, k) < x.blk + x.n
      <4>1. part => k # Len(cut)
        BY <1>5 DEF part
      <4> QED BY <1>3, <1>5, <2>3, <3>4, <4>1
    <3>6. ~part => EndOf(x, k) = x.blk + x.n
      <4>1. ~part => k = Len(cut)
        BY <1>5 DEF part
      <4> QED BY <1>3, <1>5, <2>3, <3>4, <4>1
    <3> QED BY <2>3, <3>1, <3>3, <3>5, <3>6 DEF Chained
  <2>8. ReqOK(x)
    BY <2>3, <2>6, <2>7 DEF ReqOK
  <2>9. c.free - k \in 0..NPbuf /\ c.free - k + k = c.free
    BY <1>1, <1>5
  <2>10. d = [c EXCEPT !.free = c.free - k, !.req = [c.req EXCEPT ![q] = x]]
    BY <1>1 DEF MemType, ReqType, x
  <2>11. d \in MemType /\ d.req = [c.req EXCEPT ![q] = x] /\ d.free = c.free - k /\ d.pending_Q = c.pending_Q
    <3> DEFINE R == [c.req EXCEPT ![q] = x]
               u == c.free - k
    <3>1. R \in [Req -> ReqType]
      BY <1>1, <2>3
    <3> HIDE DEF R, u, d, r
    <3>2. u \in 0..NPbuf /\ d = [c EXCEPT !.free = u, !.req = R]
      BY <2>9, <2>10 DEF u, R
    <3>3. d \in MemType /\ d.req = R /\ d.free = u /\ d.pending_Q = c.pending_Q
      BY <3>1, <3>2 DEF MemType
    <3> QED BY <3>3 DEF R, u
  <2> HIDE DEF d
  <2>12. Same(c, d, q) /\ d.req[q] = x
    BY <1>1, <2>11 DEF Same
  <2>13. Room(c, q, 0)
    <3>1. Pieces(c, q) = 0
      BY DEF Pieces
    <3> QED BY <3>1, RoomOf
  <2>14. Room(d, q, k)
    <3>1. d.free + k <= c.free + 0
      BY <1>1, <2>0, <2>9, <2>11
    <3> QED BY <2>0, <2>11, <2>12, <2>13, <3>1, RoomSame
  <2> DEFINE y == hd_stripe_done(d, q)
  <2>15. /\ y \in MemType /\ Same(d, y, q) /\ ReqOK(y.req[q]) /\ Buffers(y)
         /\ \/ y.pending_Q = d.pending_Q
            \/ /\ y.pending_Q = Append(d.pending_Q, q)
               /\ Complete(d.req[q].list) /\ FirstError(d.req[q].list) = 0
               /\ y.req[q].st = "active" /\ Complete(y.req[q].list)
    <3>1. Len(d.req[q].list) = k
      BY <2>2, <2>3, <2>12
    <3> QED BY <2>3, <2>7, <2>8, <2>11, <2>12, <2>14, <3>1, StripeDone
  <2>16. ~(Complete(list) /\ FirstError(list) = 0)
    <3> SUFFICES ASSUME Complete(list), FirstError(list) = 0 PROVE FALSE
      OBVIOUS
    <3>1. 1 \in 1..k
      BY <1>5
    <3>2. list[1].status = "STRIPE_DONE" /\ ~Seen(list[1].b_error)
      BY <2>2, <3>1, FirstErrorIs DEF Complete
    <3> QED BY <2>1, <2>2, <3>1, <3>2
  <2> HIDE DEF y
  <2>17. Same(c, y, q)
    BY <2>12, <2>15 DEF Same
  <2>18. y.pending_Q = c.pending_Q
    BY <2>3, <2>11, <2>12, <2>15, <2>16
  <2>19. hd_stripe(c, q) = y
    BY <1>4, <1>8 DEF y
  <2> QED BY <2>15, <2>17, <2>18, <2>19
<1> QED BY <1>7, <1>8

(* The turn of the request at the head of the queue.                        *)
LEMMA TurnKeeps ==
  ASSUME NEW d, MemOK(d), d.free # 0, d.pending_Q # <<>>
  PROVE  LET x == hd_stripe([d EXCEPT !.pending_Q = Tail(@)], Head(d.pending_Q))
         IN  MemOK(x) /\ x.pending_Q = Tail(d.pending_Q)
<1> DEFINE q == Head(d.pending_Q)
           e == [d EXCEPT !.pending_Q = Tail(@)]
           x == hd_stripe(e, q)
<1>1. d \in MemType /\ d.pending_Q \in Seq(Req)
  BY MemFields DEF MemOK
<1>2. /\ Tail(d.pending_Q) \in Seq(Req) /\ q \in Req
      /\ Range(d.pending_Q) = {q} \cup Range(Tail(d.pending_Q))
      /\ IsInjective(Tail(d.pending_Q)) /\ q \notin Range(Tail(d.pending_Q))
  BY <1>1, RangeTail DEF MemOK
<1>3. e \in MemType /\ e.pending_Q = Tail(d.pending_Q) /\ e.req = d.req /\ e.free = d.free
  BY <1>1, <1>2 DEF MemType
<1> HIDE DEF e, q
<1>4. Buffers(e)
  BY <1>3 DEF MemOK, Buffers, Held
<1>5. ReqOK(e.req[q]) /\ e.req[q].st = "active" /\ Complete(e.req[q].list)
  BY <1>2, <1>3 DEF MemOK
<1>6. x \in MemType /\ Same(e, x, q) /\ ReqOK(x.req[q]) /\ Buffers(x) /\ x.pending_Q = e.pending_Q
  BY <1>2, <1>3, <1>4, <1>5, StripeKeeps
<1> HIDE DEF x
<1>7. \A o \in Req : ReqOK(x.req[o])
  BY <1>3, <1>6 DEF MemOK, Same
<1>8. ASSUME NEW o \in Range(x.pending_Q) PROVE x.req[o].st = "active" /\ Complete(x.req[o].list)
  <2>1. o \in Range(d.pending_Q) /\ o # q
    BY <1>2, <1>3, <1>6
  <2>2. o \in Req
    BY <1>1, <2>1 DEF Range
  <2>3. x.req[o] = d.req[o]
    BY <1>3, <1>6, <2>1, <2>2 DEF Same
  <2> QED BY <2>1, <2>3 DEF MemOK
<1>9. MemOK(x) /\ x.pending_Q = Tail(d.pending_Q)
  BY <1>2, <1>3, <1>6, <1>7, <1>8 DEF MemOK
<1> QED BY <1>9 DEF x, e, q

(* One turn after the other, as long as there are buffers.                  *)
LEMMA ScheduleKeeps ==
  ASSUME NEW c, MemOK(c)
  PROVE  \A d \in hd_schedule(c) : MemOK(d)
<1> DEFINE Q == c.pending_Q
           A == Len(Q)
           turn(d, i) == IF d.free = 0 THEN d ELSE hd_stripe([d EXCEPT !.pending_Q = Tail(@)], Q[i])
           step(S, i) == {turn(d, i) : d \in S}
           IsAfter(g, n) == g = [i \in 0..n |-> IF i = 0 THEN {c} ELSE step(g[i - 1], i)]
           T == {n \in 0..A : \E g : IsAfter(g, n)}
           f == CHOOSE g : IsAfter(g, A)
           P(d, i) == /\ MemOK(d)
                      /\ d.free # 0 => /\ Len(d.pending_Q) = A - i
                                       /\ \A j \in 1..(A - i) : d.pending_Q[j] = Q[i + j]
<1>1. Q \in Seq(Req) /\ A \in Nat
  BY MemFields DEF MemOK
<1>2. hd_schedule(c) = f[A]
  BY Zenon DEF hd_schedule
<1>3. ASSUME NEW i \in 1..A, NEW d, P(d, i - 1) PROVE P(turn(d, i), i)
  <2>1. CASE d.free = 0
    BY <1>3, <2>1
  <2>2. CASE d.free # 0
    <3>1. MemOK(d) /\ Len(d.pending_Q) = A - (i - 1) /\ \A j \in 1..(A - (i - 1)) : d.pending_Q[j] = Q[(i - 1) + j]
      BY <1>3, <2>2
    <3>2. d.pending_Q \in Seq(Req)
      BY <3>1, MemFields DEF MemOK
    <3> HIDE DEF A, Q
    <3>3. Len(d.pending_Q) = A - i + 1 /\ d.pending_Q # <<>> /\ 1 \in 1..(A - (i - 1)) /\ (i - 1) + 1 = i
      BY <1>1, <3>1, <3>2
    <3>4. Head(d.pending_Q) = Q[i]
      BY <3>1, <3>2, <3>3
    <3> DEFINE x == hd_stripe([d EXCEPT !.pending_Q = Tail(@)], Q[i])
    <3>5. MemOK(x) /\ x.pending_Q = Tail(d.pending_Q)
      BY <2>2, <3>1, <3>3, <3>4, TurnKeeps
    <3> HIDE DEF x
    <3>6. Len(x.pending_Q) = A - i /\ \A j \in 1..(A - i) : x.pending_Q[j] = d.pending_Q[j + 1]
      BY <1>1, <3>2, <3>3, <3>5
    <3>7. ASSUME NEW j \in 1..(A - i) PROVE x.pending_Q[j] = Q[i + j]
      <4>1. j + 1 \in 1..(A - (i - 1)) /\ (i - 1) + (j + 1) = i + j
        BY <1>1
      <4> QED BY <3>1, <3>6, <4>1
    <3>8. P(x, i)
      BY <3>5, <3>6, <3>7
    <3> QED BY <2>2, <3>8 DEF x
  <2> QED BY <2>1, <2>2
<1>4. P(c, 0)
  BY <1>1
<1> HIDE DEF A, Q, turn, P
<1>5. T = 0..A
  <2>1. 0 \in T
    <3>1. IsAfter([i \in 0..0 |-> {c}], 0)
      OBVIOUS
    <3>2. 0 \in 0..A /\ \E g : IsAfter(g, 0)
      <4> HIDE DEF IsAfter
      <4> QED BY <1>1, <3>1
    <3> QED BY <3>2, Zenon
  <2>2. ASSUME NEW n \in 1..A, n - 1 \in T PROVE n \in T
    <3>1. PICK g : IsAfter(g, n - 1)
      BY <2>2, Zenon
    <3>2. n - 1 \in Nat /\ n \in 0..A
      BY <1>1
    <3> HIDE DEF step
    <3> DEFINE h == [i \in 0..n |-> IF i = 0 THEN {c} ELSE step(g[i - 1], i)]
    <3>3. ASSUME NEW i \in 0..(n - 1) PROVE h[i] = g[i]
      <4>1. g[i] = IF i = 0 THEN {c} ELSE step(g[i - 1], i)
        BY <3>1
      <4>2. h[i] = IF i = 0 THEN {c} ELSE step(g[i - 1], i)
        BY <3>2
      <4> QED BY <4>1, <4>2
    <3>4. ASSUME NEW i \in 0..n, i # 0 PROVE g[i - 1] = h[i - 1]
      <4>1. i - 1 \in 0..(n - 1)
        BY <3>4
      <4> HIDE DEF h
      <4> QED BY <3>3, <4>1
    <3>5. IsAfter(h, n)
      BY <3>4
    <3> HIDE DEF h, IsAfter
    <3> QED BY <3>2, <3>5
  <2> HIDE DEF T
  <2>3. T \in SUBSET (0..A)
    BY DEF T
  <2> QED BY <1>1, <2>1, <2>2, <2>3, IntervalInduction
<1>6. IsAfter(f, A)
  <2>1. A \in T
    <3> HIDE DEF T
    <3> QED BY <1>1, <1>5
  <2>2. \E g : IsAfter(g, A)
    BY <2>1, Zenon
  <2> QED BY <2>2, Zenon
<1> HIDE DEF f
<1> DEFINE K == {i \in 0..A : \A d \in f[i] : P(d, i)}
<1>7. K = 0..A
  <2>1. 0 \in K
    <3>1. 0 \in 0..A /\ f[0] = {c}
      BY <1>1, <1>6
    <3> QED BY <1>4, <3>1
  <2>2. ASSUME NEW i \in 1..A, i - 1 \in K PROVE i \in K
    <3>1. i \in 0..A /\ i # 0
      BY <1>1
    <3>2. f[i] = step(f[i - 1], i)
      BY <1>6, <3>1
    <3>3. \A d \in f[i] : P(d, i)
      BY <1>3, <2>2, <3>2
    <3> QED BY <3>1, <3>3
  <2>3. K \in SUBSET (0..A)
    OBVIOUS
  <2> HIDE DEF K
  <2> QED BY <1>1, <2>1, <2>2, <2>3, IntervalInduction
<1>8. \A d \in f[A] : P(d, A)
  <2>1. A \in K
    <3> HIDE DEF K
    <3> QED BY <1>1, <1>7
  <2> QED BY <2>1
<1> QED BY <1>2, <1>8 DEF P

-----------------------------------------------------------------------------
(* The steps.                                                               *)
LEMMA StrategyKeeps ==
  ASSUME MemOK(m), NEW q \in Req, NEW e \in Extent, NEW serial \in BOOLEAN, hd_strategy(q, e, serial)
  PROVE  MemOK(m')
<1> DEFINE r == [NoReq EXCEPT !.st = "active", !.blk = e[1], !.n = e[2], !.resid = e[2], !.serial = serial]
           d == [m EXCEPT !.req[q] = r, !.pending_Q = Append(@, q)]
<1>1. m' \in hd_schedule(d) /\ m.req[q].st # "active"
  BY Zenon DEF hd_strategy, Active
<1>2. m \in MemType /\ m.pending_Q \in Seq(Req) /\ m.req \in [Req -> ReqType] /\ m.free \in Nat
  BY MemFields DEF MemOK
<1>3. PICK b, n \in Nat : b = e[1] /\ n = e[2] /\ n # 0 /\ b + n - 1 \in Logical
  <2>1. e[1] \in Logical /\ e[2] \in Nat \ {0} /\ e[1] + e[2] - 1 \in Logical
    BY ExtentAssumption
  <2>2. Logical \subseteq Nat
    BY DEF Logical
  <2> QED BY <2>1, <2>2
<1>4. /\ r.st = "active" /\ r.blk = b /\ r.n = n /\ r.resid = n /\ r.list = <<>> /\ r.moved = {}
      /\ r.lost = {}
  BY <1>3 DEF NoReq
<1>5. r \in ReqType
  <2>1. <<>> \in Seq(PieceType)
    OBVIOUS
  <2>2. e[1] \in Nat /\ e[2] \in Nat
    BY <1>3
  <2> QED BY <2>1, <2>2 DEF NoReq, ReqType
<1> HIDE DEF r
<1>6. Complete(r.list) /\ ReqOK(r)
  <2>1. Complete(r.list)
    BY <1>4 DEF Complete
  <2>2. From(r) = b
    BY <1>3, <1>4 DEF From
  <2>3. r.blk..(From(r) - 1) = {}
    BY <1>3, <1>4, <2>2
  <2>4. Sound(r)
    <3>1. 1..Len(r.list) = {}
      BY <1>4
    <3>2. r.resid <= r.n /\ r.resid # 0 /\ r.moved = {} /\ r.lost = {} /\ r.blk + r.n - 1 \in Logical
      BY <1>3, <1>4
    <3> QED BY <2>3, <3>1, <3>2 DEF Sound
  <2> QED BY <1>4, <2>1, <2>4 DEF ReqOK
<1>7. ~(q \in Range(m.pending_Q))
  BY <1>1 DEF MemOK
<1>8. /\ Append(m.pending_Q, q) \in Seq(Req) /\ IsInjective(Append(m.pending_Q, q))
      /\ Range(Append(m.pending_Q, q)) = Range(m.pending_Q) \cup {q}
  BY <1>2, <1>7, RangeAppend DEF MemOK
<1>9. /\ d \in MemType /\ d.req = [m.req EXCEPT ![q] = r] /\ d.free = m.free
      /\ d.pending_Q = Append(m.pending_Q, q)
  <2> DEFINE R == [m.req EXCEPT ![q] = r]
             Q == Append(m.pending_Q, q)
  <2>1. R \in [Req -> ReqType] /\ Q \in Seq(Req)
    BY <1>2, <1>5, <1>8
  <2>2. d = [m EXCEPT !.req = R, !.pending_Q = Q]
    OBVIOUS
  <2> HIDE DEF R, Q, d
  <2>3. d \in MemType /\ d.req = R /\ d.free = m.free /\ d.pending_Q = Q
    BY <1>2, <2>1, <2>2 DEF MemType
  <2> QED BY <2>3 DEF R, Q
<1> HIDE DEF d
<1>10. d.req[q] = r /\ Same(m, d, q)
  BY <1>2, <1>9 DEF Same
<1>11. Buffers(d)
  <2>1. Complete(m.req[q].list)
    BY <1>1 DEF MemOK, ReqOK
  <2>2. Pieces(m, q) = 0 /\ Pieces(d, q) = 0
    BY <1>6, <1>10, <2>1 DEF Pieces
  <2>3. Room(m, q, 0)
    BY <1>2, <2>2, RoomOf DEF MemOK
  <2>4. Room(d, q, 0)
    BY <1>2, <1>9, <1>10, <2>3, RoomSame
  <2> QED BY <1>9, <2>2, <2>4, RoomOf
<1>12. \A o \in Req : ReqOK(d.req[o])
  BY <1>6, <1>10 DEF MemOK, Same
<1>13. ASSUME NEW o \in Range(d.pending_Q) PROVE d.req[o].st = "active" /\ Complete(d.req[o].list)
  <2>1. CASE o = q
    BY <1>4, <1>6, <1>10, <2>1
  <2>2. CASE o # q
    <3>1. o \in Range(m.pending_Q)
      BY <1>8, <1>9, <2>2
    <3>2. o \in Req
      BY <1>2, <3>1 DEF Range
    <3> QED BY <1>10, <2>2, <3>1, <3>2 DEF MemOK, Same
  <2> QED BY <2>1, <2>2
<1>14. MemOK(d)
  BY <1>8, <1>9, <1>11, <1>12, <1>13 DEF MemOK
<1> QED BY <1>1, <1>14, ScheduleKeeps

(* The places that a transfer has moved its blocks to or from.              *)
LEMMA TransferPlaces ==
  ASSUME NEW r \in ReqType, Sound(r), NEW p \in PieceType, PieceOK(r, p), NEW j \in Nat,
         p.at + j < p.addr + p.n
  PROVE  LET x == [At(p) EXCEPT !.blk = @ + j]
         IN  x \in Place /\ LogicalOf(x) = p.at + j
<1>1. /\ p.addr \in Nat /\ p.n \in Nat /\ p.at \in Nat /\ p.addr <= p.at /\ p.n = Piece(r, p.addr).n
      /\ r.blk \in Nat /\ r.n \in Nat
  BY DEF PieceType, PieceOK, ReqType
<1>2. r.n # 0 /\ r.blk + r.n - 1 \in Logical
  <2>1. p.n # 0 /\ r.blk <= p.addr /\ p.addr + p.n <= r.blk + r.n
    BY DEF PieceOK
  <2>2. r.n # 0
    BY <1>1, <2>1
  <2> QED BY <2>2 DEF Sound
<1>3. PICK k \in Nat : k = p.at - p.addr + j /\ p.addr + k = p.at + j /\ k < p.n
  BY <1>1
<1>4. hd_stripe_xlate(p.addr) = [part |-> hd_stripe_xlate(p.addr).part, blk |-> hd_stripe_xlate(p.addr).blk]
      /\ hd_stripe_xlate(p.addr).blk \in Nat
  BY <1>1, XlateParts DEF hd_stripe_xlate
<1> DEFINE y == hd_stripe_xlate(p.addr)
           x == [At(p) EXCEPT !.blk = @ + j]
<1>5. At(p) = [y EXCEPT !.blk = @ + p.at - p.addr]
  BY DEF At
<1> HIDE DEF y
<1>6. x = [y EXCEPT !.blk = @ + k]
  <2>1. PICK b \in Nat : b = y.blk /\ y = [part |-> y.part, blk |-> b]
    BY <1>4 DEF y
  <2>2. At(p) = [part |-> y.part, blk |-> b + (p.at - p.addr)]
    BY <1>5, <2>1
  <2>3. x = [part |-> y.part, blk |-> (b + (p.at - p.addr)) + j]
    BY <2>2
  <2>4. (b + (p.at - p.addr)) + j = b + k
    BY <1>1, <1>3, <2>1
  <2>5. [y EXCEPT !.blk = @ + k] = [part |-> y.part, blk |-> b + k]
    BY <2>1
  <2> QED BY <2>3, <2>4, <2>5
<1> HIDE DEF x
<1>7. x \in Place /\ LogicalOf(x) = p.addr + k
  BY <1>1, <1>2, <1>3, <1>6, PiecePlace DEF y
<1> QED BY <1>3, <1>7 DEF x

(* A piece of which a transfer has ended: done, or started again behind the *)
(* blocks that have been moved.                                             *)
After(c, p, k, e) ==
  LET ended == [p EXCEPT !.at = @ + k, !.busy = FALSE]
  IN  IF k < p.bcount THEN [ended EXCEPT !.status = "STRIPE_DONE", !.b_error = e]
      ELSE IF ended.at = p.addr + p.n THEN [ended EXCEPT !.status = "STRIPE_DONE"]
      ELSE Start(c, ended)

(* What it leaves behind unnoticed.                                         *)
Left(p, k, e) == IF k < p.bcount /\ ~Seen(e) THEN (p.at + k)..(p.addr + p.n - 1) ELSE {}

LEMMA EndPiece ==
  ASSUME NEW c, NEW r, NEW x, NEW p \in PieceType, PieceOK(r, p), p.busy, NEW k \in 0..p.bcount,
         NEW e \in Errno, x.blk = r.blk, x.n = r.n,
         Settled(x) = Settled(r) \cup (p.at..(p.at + k - 1)) \cup Left(p, k, e)
  PROVE  /\ After(c, p, k, e) \in PieceType /\ PieceOK(x, After(c, p, k, e))
         /\ After(c, p, k, e).addr = p.addr /\ After(c, p, k, e).n = p.n
<1> DEFINE ended == [p EXCEPT !.at = @ + k, !.busy = FALSE]
           next == After(c, p, k, e)
<1>0. next = IF k < p.bcount THEN [ended EXCEPT !.status = "STRIPE_DONE", !.b_error = e]
             ELSE IF ended.at = p.addr + p.n THEN [ended EXCEPT !.status = "STRIPE_DONE"]
             ELSE Start(c, ended)
  BY DEF After
<1> HIDE DEF next
<1> DEFINE a == p.at + k
           failed == [ended EXCEPT !.status = "STRIPE_DONE", !.b_error = e]
           done == [ended EXCEPT !.status = "STRIPE_DONE"]
<1>1. /\ p.addr \in Nat /\ p.n \in Nat /\ p.at \in Nat /\ p.bcount \in Nat /\ k \in Nat
      /\ p.n # 0 /\ p.n = Piece(r, p.addr).n /\ r.blk <= p.addr /\ p.addr + p.n <= r.blk + r.n
      /\ p.addr <= p.at /\ p.bcount <= p.n /\ p.addr..(p.at - 1) \subseteq Settled(r)
      /\ p.status = "STRIPE_NOTDONE" /\ p.b_error = 0 /\ p.bcount <= p.addr + p.n - p.at /\ k <= p.bcount
  BY DEF PieceType, PieceOK
<1>2. a \in Nat /\ p.addr <= a /\ a <= p.addr + p.n /\ p.addr..(a - 1) \subseteq Settled(x)
  BY <1>1
<1>3. Piece(x, p.addr).n = p.n
  BY <1>1 DEF Piece
<1> HIDE DEF a
<1>4. /\ ended \in PieceType /\ ended.addr = p.addr /\ ended.n = p.n /\ ended.at = a
      /\ ended.bcount = p.bcount /\ ended.status = "STRIPE_NOTDONE" /\ ended.b_error = 0 /\ ~ended.busy
  <2>1. ended = [p EXCEPT !.at = a, !.busy = FALSE]
    BY DEF a
  <2> HIDE DEF ended
  <2> QED BY <1>1, <1>2, <2>1 DEF PieceType
<1> HIDE DEF ended
<1>5. CASE k < p.bcount
  <2>1. /\ failed \in PieceType /\ failed.addr = p.addr /\ failed.n = p.n /\ failed.at = a
        /\ failed.bcount = p.bcount /\ failed.status = "STRIPE_DONE" /\ failed.b_error = e /\ ~failed.busy
    <3>1. e \in Nat
      BY ErrnoAssumption
    <3> QED BY <1>4, <3>1 DEF PieceType
  <2> HIDE DEF failed
  <2>3. Seen(e) \/ a..(p.addr + p.n - 1) \subseteq Settled(x)
    BY <1>5 DEF Left, a
  <2>2. PieceOK(x, failed)
    BY <1>1, <1>2, <1>3, <2>1, <2>3 DEF PieceOK
  <2> QED BY <1>0, <1>5, <2>1, <2>2 DEF failed, next
<1>6. CASE ~(k < p.bcount) /\ ended.at = p.addr + p.n
  <2>1. /\ done \in PieceType /\ done.addr = p.addr /\ done.n = p.n /\ done.at = a
        /\ done.bcount = p.bcount /\ done.status = "STRIPE_DONE" /\ ~done.busy
    BY <1>4 DEF PieceType
  <2> HIDE DEF done
  <2>3. a..(p.addr + p.n - 1) = {}
    BY <1>1, <1>4, <1>6
  <2>2. PieceOK(x, done)
    BY <1>1, <1>2, <1>3, <1>4, <1>6, <2>1, <2>3 DEF PieceOK
  <2> QED BY <1>0, <1>6, <2>1, <2>2 DEF done, next
<1>7. CASE ~(k < p.bcount) /\ ~(ended.at = p.addr + p.n)
  <2>1. /\ ended.n # 0 /\ ended.n = Piece(x, ended.addr).n /\ x.blk <= ended.addr
        /\ ended.addr + ended.n <= x.blk + x.n /\ ended.addr <= ended.at /\ ended.at <= ended.addr + ended.n
        /\ ended.bcount <= ended.n /\ ended.addr..(ended.at - 1) \subseteq Settled(x)
    BY <1>1, <1>2, <1>3, <1>4
  <2>2. /\ Start(c, ended) \in PieceType /\ PieceOK(x, Start(c, ended))
        /\ Start(c, ended).addr = ended.addr /\ Start(c, ended).n = ended.n
    BY <1>4, <2>1, StartOK
  <2> QED BY <1>0, <1>4, <1>7, <2>2 DEF next
<1> QED BY <1>5, <1>6, <1>7 DEF next

(* The request with the piece put back and the blocks counted as moved.     *)
LEMMA EndRequest ==
  ASSUME NEW r \in ReqType, ReqOK(r), NEW i \in 1..Len(r.list), r.list[i].busy,
         NEW next \in PieceType, NEW x \in ReqType,
         x.list = [r.list EXCEPT ![i] = next], NEW mv, x.moved = r.moved \cup mv,
         NEW lo, x.lost = r.lost \cup lo, lo # {} => \E e \in Errno : ~Seen(e),
         x.st = r.st, x.blk = r.blk, x.n = r.n, x.resid = r.resid, x.partial = r.partial,
         \A y \in mv : LogicalOf(y[2]) = y[1],
         PieceOK(x, next), next.addr = r.list[i].addr, next.n = r.list[i].n
  PROVE  x.st = "active" /\ Chained(x) /\ ReqOK(x) /\ ~Complete(r.list)
<1>1. r.list \in Seq(PieceType) /\ Len(r.list) \in Nat /\ Len(x.list) = Len(r.list)
  BY DEF ReqType
<1>2. ~Complete(r.list)
  <2>1. PieceOK(r, r.list[i])
    BY DEF ReqOK, Sound
  <2>2. r.list[i].status # "STRIPE_DONE"
    BY <2>1 DEF PieceOK
  <2> QED BY <1>1, <2>2 DEF Complete
<1>3. r.st = "active" /\ Chained(r) /\ Sound(r)
  BY <1>2 DEF ReqOK
<1>4. \A j \in 1..Len(r.list) : /\ x.list[j] = IF j = i THEN next ELSE r.list[j]
                                /\ x.list[j].addr = r.list[j].addr /\ x.list[j].n = r.list[j].n
  BY <1>1
<1>5. From(x) = From(r) /\ Settled(r) \subseteq Settled(x)
  BY DEF From, Settled
<1>6. \A j \in 0..Len(r.list) : EndOf(x, j) = EndOf(r, j)
  BY <1>4, <1>5 DEF EndOf
<1>7. Chained(x)
  <2>1. x.list # <<>>
    BY <1>1, <1>3 DEF Chained
  <2>2. ASSUME NEW j \in 1..Len(r.list) PROVE x.list[j].addr = EndOf(x, j - 1)
    <3>1. j - 1 \in 0..Len(r.list)
      BY <1>1
    <3> QED BY <1>3, <1>4, <1>6, <3>1 DEF Chained
  <2>3. Len(r.list) \in 0..Len(r.list)
    BY <1>1
  <2>4. EndOf(x, Len(x.list)) = EndOf(r, Len(r.list))
    BY <1>1, <1>6, <2>3
  <2> QED BY <1>1, <1>3, <2>1, <2>2, <2>4 DEF Chained
<1>8. ASSUME NEW j \in 1..Len(r.list) PROVE PieceOK(x, x.list[j])
  <2>1. CASE j = i
    BY <1>4, <2>1
  <2>2. CASE j # i
    <3>1. PieceOK(r, r.list[j]) /\ x.list[j] = r.list[j]
      BY <1>3, <1>4, <2>2 DEF Sound
    <3> QED BY <3>1, <1>5 DEF PieceOK, Piece
  <2> QED BY <2>1, <2>2
<1>9. Sound(x)
  <2>1. \A y \in x.moved : LogicalOf(y[2]) = y[1]
    BY <1>3 DEF Sound
  <2>2. x.blk..(From(x) - 1) \subseteq Settled(x)
    BY <1>3, <1>5 DEF Sound
  <2>3. /\ x.resid <= x.n /\ (x.n # 0 => x.blk + x.n - 1 \in Logical) /\ (x.st = "active" => x.resid # 0)
        /\ x.lost # {} => \E e \in Errno : ~Seen(e)
    BY <1>3 DEF Sound
  <2> QED BY <1>1, <1>8, <2>1, <2>2, <2>3 DEF Sound
<1> QED BY <1>2, <1>3, <1>7, <1>9 DEF ReqOK

(* The end of a transfer, with what it starts.                              *)
LEMMA EndKeeps ==
  ASSUME MemOK(m), NEW q \in Req, NEW i \in DOMAIN m.req[q].list, NEW k \in 0..m.req[q].list[i].bcount,
         NEW e \in Errno, hd_end(q, i, k, e)
  PROVE  MemOK(m')
<1> DEFINE r == m.req[q]
           p == r.list[i]
           a == At(p)
           mv == {<<p.at + j, [a EXCEPT !.blk = @ + j]>> : j \in 0..(k - 1)}
           ended == [p EXCEPT !.at = @ + k, !.busy = FALSE]
           lo == IF k < p.bcount /\ ~Seen(e) THEN ended.at..(p.addr + p.n - 1) ELSE {}
           next == IF k < p.bcount THEN [ended EXCEPT !.status = "STRIPE_DONE", !.b_error = e]
                   ELSE IF ended.at = p.addr + p.n THEN [ended EXCEPT !.status = "STRIPE_DONE"]
                   ELSE Start(m, ended)
           d == [m EXCEPT !.req[q].list[i] = next, !.req[q].moved = @ \cup mv, !.req[q].lost = @ \cup lo]
           x == [r EXCEPT !.list = [r.list EXCEPT ![i] = next], !.moved = r.moved \cup mv, !.lost = r.lost \cup lo]
           y == IF next.status = "STRIPE_DONE" THEN hd_stripe_done(d, q) ELSE d
<1>1. p.busy /\ m' \in hd_schedule(y)
  BY Zenon DEF hd_end
<1>2. /\ m \in MemType /\ m.pending_Q \in Seq(Req) /\ m.req \in [Req -> ReqType] /\ m.free \in Nat
      /\ r \in ReqType /\ r.list \in Seq(PieceType) /\ Len(r.list) \in Nat /\ i \in 1..Len(r.list)
      /\ ReqOK(r) /\ p \in PieceType
  BY MemFields DEF MemOK
<1>3. Sound(r) /\ PieceOK(r, p)
  BY <1>2 DEF ReqOK, Sound
<1>4. p.at \in Nat /\ k \in Nat /\ p.at + k <= p.addr + p.n
  <2>1. p.bcount <= p.addr + p.n - p.at /\ p.bcount \in Nat /\ p.at \in Nat /\ p.addr \in Nat /\ p.n \in Nat
    BY <1>1, <1>2, <1>3 DEF PieceOK, PieceType
  <2> QED BY <2>1
<1> HIDE DEF r, p
<1>5. ASSUME NEW j \in 0..(k - 1)
      PROVE  /\ p.at + j \in Nat /\ [a EXCEPT !.blk = @ + j] \in Place
             /\ LogicalOf([a EXCEPT !.blk = @ + j]) = p.at + j
  <2>1. j \in Nat /\ p.at + j < p.addr + p.n
    <3>1. p.addr \in Nat /\ p.n \in Nat
      BY <1>2 DEF PieceType
    <3> QED BY <1>4, <3>1
  <2> QED BY <1>2, <1>3, <1>4, <2>1, TransferPlaces
<1>6. mv \in SUBSET (Nat \X Place) /\ \A z \in mv : LogicalOf(z[2]) = z[1]
  <2>1. ASSUME NEW z \in mv PROVE z \in Nat \X Place /\ LogicalOf(z[2]) = z[1]
    <3>1. PICK j \in 0..(k - 1) : z = <<p.at + j, [a EXCEPT !.blk = @ + j]>>
      BY <2>1
    <3> HIDE DEF a
    <3> QED BY <1>5, <3>1
  <2> HIDE DEF mv
  <2> QED BY <2>1
<1>7. {z[1] : z \in mv} = p.at..(p.at + k - 1)
  <2>1. ASSUME NEW z \in mv PROVE z[1] \in p.at..(p.at + k - 1)
    <3>1. PICK j \in 0..(k - 1) : z = <<p.at + j, [a EXCEPT !.blk = @ + j]>>
      BY <2>1
    <3> QED BY <1>4, <3>1
  <2>2. ASSUME NEW l \in p.at..(p.at + k - 1) PROVE l \in {z[1] : z \in mv}
    <3>1. PICK j \in 0..(k - 1) : l = p.at + j
      <4>1. l - p.at \in 0..(k - 1) /\ l = p.at + (l - p.at)
        BY <1>4
      <4> QED BY <4>1
    <3>2. <<p.at + j, [a EXCEPT !.blk = @ + j]>> \in mv
      OBVIOUS
    <3> HIDE DEF mv, a
    <3> QED BY <3>1, <3>2
  <2> HIDE DEF mv
  <2> QED BY <2>1, <2>2
<1>21. lo = Left(p, k, e) /\ lo \in SUBSET Nat /\ (lo # {} => \E z \in Errno : ~Seen(z))
  <2>1. ended.at = p.at + k
    BY <1>2 DEF PieceType
  <2> HIDE DEF ended
  <2>2. lo = Left(p, k, e)
    BY <2>1 DEF Left
  <2>3. p.addr \in Nat /\ p.n \in Nat
    BY <1>2 DEF PieceType
  <2>4. lo \in SUBSET Nat
    BY <1>4, <2>1, <2>3
  <2> QED BY <2>2, <2>4
<1> HIDE DEF mv, lo
<1> HIDE DEF next
<1>8. ASSUME next \in PieceType
      PROVE  /\ x \in ReqType /\ x.list = [r.list EXCEPT ![i] = next] /\ x.moved = r.moved \cup mv
             /\ x.lost = r.lost \cup lo
             /\ x.st = r.st /\ x.blk = r.blk /\ x.n = r.n /\ x.resid = r.resid /\ x.partial = r.partial
  <2> DEFINE L == [r.list EXCEPT ![i] = next]
             M == r.moved \cup mv
             K == r.lost \cup lo
  <2>1. L \in Seq(PieceType)
    BY <1>2, <1>8
  <2>2. M \in SUBSET (Nat \X Place)
    BY <1>2, <1>6 DEF ReqType
  <2>5. K \in SUBSET Nat
    BY <1>2, <1>21 DEF ReqType
  <2>3. x = [r EXCEPT !.list = L, !.moved = M, !.lost = K]
    OBVIOUS
  <2> HIDE DEF L, M, K, x
  <2>4. /\ x \in ReqType /\ x.list = L /\ x.moved = M /\ x.lost = K
        /\ x.st = r.st /\ x.blk = r.blk /\ x.n = r.n /\ x.resid = r.resid /\ x.partial = r.partial
    BY <1>2, <2>1, <2>2, <2>3, <2>5 DEF ReqType
  <2> QED BY <2>4 DEF L, M, K
<1>9. x.blk = r.blk /\ x.n = r.n /\ x.moved = r.moved \cup mv /\ x.lost = r.lost \cup lo
  BY <1>2 DEF ReqType
<1>10. Settled(x) = Settled(r) \cup (p.at..(p.at + k - 1)) \cup Left(p, k, e)
  <2> HIDE DEF x
  <2> QED BY <1>7, <1>9, <1>21 DEF Settled
<1>11. next \in PieceType /\ PieceOK(x, next) /\ next.addr = p.addr /\ next.n = p.n
  <2> HIDE DEF x
  <2>1. PieceOK(r, p) /\ p.busy /\ p \in PieceType /\ x.blk = r.blk /\ x.n = r.n
    BY <1>1, <1>2, <1>3, <1>9
  <2>2. next = After(m, p, k, e)
    BY Zenon DEF next, After
  <2>3. k \in 0..p.bcount
    BY DEF p, r
  <2>4. PieceOK(x, After(m, p, k, e))
    BY <1>10, <2>1, <2>3, EndPiece
  <2>5. /\ After(m, p, k, e) \in PieceType
        /\ After(m, p, k, e).addr = p.addr /\ After(m, p, k, e).n = p.n
    <3> HIDE DEF p, r, x, a, ended
    <3> QED BY <1>10, <2>1, <2>3, <2>4, EndPiece
  <2> QED BY <2>2, <2>4, <2>5
<1>12. x.st = "active" /\ Chained(x) /\ ReqOK(x) /\ ~Complete(r.list)
  <2>1. /\ x \in ReqType /\ x.list = [r.list EXCEPT ![i] = next]
        /\ x.st = r.st /\ x.blk = r.blk /\ x.n = r.n /\ x.resid = r.resid /\ x.partial = r.partial
    BY <1>8, <1>11
  <2>2. next.addr = r.list[i].addr /\ next.n = r.list[i].n /\ r.list[i].busy
    BY <1>1, <1>11 DEF p
  <2> HIDE DEF x
  <2> QED BY <1>2, <1>6, <1>9, <1>11, <1>21, <2>1, <2>2, EndRequest
<1>13. d = [m EXCEPT !.req = [m.req EXCEPT ![q] = x]]
  BY <1>2 DEF MemType, ReqType, r
<1>14. d \in MemType /\ d.req = [m.req EXCEPT ![q] = x] /\ d.free = m.free /\ d.pending_Q = m.pending_Q
  <2> DEFINE R == [m.req EXCEPT ![q] = x]
  <2>1. R \in [Req -> ReqType]
    BY <1>2, <1>8, <1>11
  <2> HIDE DEF R, d
  <2>2. d = [m EXCEPT !.req = R]
    BY <1>13 DEF R
  <2> QED BY <1>2, <2>1, <2>2 DEF MemType, R
<1>15. x.list \in Seq(PieceType) /\ Len(x.list) = Len(r.list)
  BY <1>2, <1>8, <1>11
<1> HIDE DEF d, x
<1>16. d.req[q] = x /\ Same(m, d, q)
  BY <1>2, <1>14 DEF Same
<1>17. Room(d, q, Len(x.list))
  <2>1. Pieces(m, q) = Len(r.list)
    BY <1>12 DEF Pieces, r
  <2>2. Room(m, q, Len(r.list))
    BY <1>2, <2>1, RoomOf DEF MemOK
  <2> QED BY <1>2, <1>14, <1>15, <1>16, <2>2, RoomSame
<1>18. ~(q \in Range(m.pending_Q))
  BY <1>12 DEF MemOK, r
<1>19. ASSUME NEW z \in MemType, Same(m, z, q), ReqOK(z.req[q]), Buffers(z),
              \/ z.pending_Q = m.pending_Q
              \/ z.pending_Q = Append(m.pending_Q, q) /\ z.req[q].st = "active" /\ Complete(z.req[q].list)
       PROVE  MemOK(z)
  <2>1. /\ IsInjective(z.pending_Q)
        /\ \/ Range(z.pending_Q) = Range(m.pending_Q)
           \/ /\ Range(z.pending_Q) = Range(m.pending_Q) \cup {q}
              /\ z.req[q].st = "active" /\ Complete(z.req[q].list)
    <3>1. IsInjective(m.pending_Q)
      BY DEF MemOK
    <3>2. /\ Range(Append(m.pending_Q, q)) = Range(m.pending_Q) \cup {q}
          /\ IsInjective(Append(m.pending_Q, q))
      BY <1>2, <1>18, <3>1, RangeAppend
    <3> QED BY <1>19, <3>1, <3>2, Zenon
  <2>2. \A o \in Req : ReqOK(z.req[o])
    BY <1>19 DEF MemOK, Same
  <2>3. ASSUME NEW o \in Range(z.pending_Q) PROVE z.req[o].st = "active" /\ Complete(z.req[o].list)
    <3>1. CASE o = q
      BY <1>18, <2>1, <3>1
    <3>2. CASE o # q
      <4>1. o \in Range(m.pending_Q)
        BY <2>1, <3>2
      <4>2. o \in Req
        BY <1>2, <4>1 DEF Range
      <4> QED BY <1>19, <3>2, <4>1, <4>2 DEF MemOK, Same
    <3> QED BY <3>1, <3>2
  <2> QED BY <1>19, <2>1, <2>2, <2>3 DEF MemOK
<1>20. MemOK(y)
  <2>1. CASE next.status = "STRIPE_DONE"
    <3> DEFINE z == hd_stripe_done(d, q)
    <3>1. /\ z \in MemType /\ Same(d, z, q) /\ ReqOK(z.req[q]) /\ Buffers(z)
          /\ \/ z.pending_Q = d.pending_Q
             \/ /\ z.pending_Q = Append(d.pending_Q, q)
                /\ z.req[q].st = "active" /\ Complete(z.req[q].list)
      BY <1>12, <1>14, <1>16, <1>17, StripeDone
    <3> HIDE DEF z
    <3>2. Same(m, z, q)
      BY <1>16, <3>1 DEF Same
    <3>3. MemOK(z)
      BY <1>14, <1>19, <3>1, <3>2
    <3> QED BY <2>1, <3>3 DEF z
  <2>2. CASE next.status # "STRIPE_DONE"
    <3>1. ~Complete(x.list)
      <4>1. x.list[i] = next /\ i \in DOMAIN x.list
        BY <1>2, <1>8, <1>11
      <4> QED BY <2>2, <4>1 DEF Complete
    <3>2. Pieces(d, q) = Len(x.list)
      BY <1>16, <3>1 DEF Pieces
    <3>3. Buffers(d)
      BY <1>14, <1>17, <3>2, RoomOf
    <3>4. MemOK(d)
      BY <1>12, <1>14, <1>16, <1>19, <3>3
    <3> QED BY <2>2, <3>4
  <2> QED BY <2>1, <2>2
<1> QED BY <1>1, <1>20, ScheduleKeeps

-----------------------------------------------------------------------------
(* What HdStripeMemOK says of every state.                                  *)
IInv == MemOK(m)

(* The invariant: in every state that hd_strategy, the ends of transfers and *)
(* the loss of disks lead to, whatever the numbers of buffers, requests,     *)
(* blocks and disks, the pieces of a request follow each other from the      *)
(* first block that hd_stripe_done has not accounted for, every block that a  *)
(* piece has counted through, or that is left of one that is done without an *)
(* error that is seen, is moved or behind an error that is missed, only a    *)
(* request with nothing in the hands of the disks waits in pending_Q, and    *)
(* only once, and the buffers of unfinished pieces are not more than         *)
(* hd_freebuf lacks.                                                        *)
THEOREM HdStripeMemOK == Spec => []IInv
<1>1. ASSUME Init PROVE MemOK(m)
  <2>1. /\ m.req = [q \in Req |-> NoReq] /\ m.pending_Q = <<>> /\ m.free = NPbuf
        /\ m.bad \in Defects /\ m.nobbrel \in BOOLEAN
        /\ m = [req |-> m.req, pending_Q |-> m.pending_Q, free |-> m.free, bad |-> m.bad, nobbrel |-> m.nobbrel]
    BY <1>1 DEF Init
  <2>2. NoReq \in ReqType
    <3>1. <<>> \in Seq(PieceType)
      OBVIOUS
    <3> QED BY <3>1 DEF NoReq, ReqType
  <2>3. m \in MemType
    <3>1. <<>> \in Seq(Req) /\ NPbuf \in 0..NPbuf /\ [q \in Req |-> NoReq] \in [Req -> ReqType]
      BY <2>2, PbufAssumption
    <3> QED BY <2>1, <3>1 DEF MemType
  <2>4. \A q \in Req : m.req[q] = NoReq
    BY <2>1
  <2>5. NoReq.list = <<>> /\ NoReq.st = "idle" /\ NoReq.moved = {} /\ NoReq.lost = {} /\ NoReq.n = 0 /\ NoReq.resid = 0
    BY DEF NoReq
  <2>6. Complete(NoReq.list)
    BY <2>5 DEF Complete
  <2>7. ReqOK(NoReq)
    <3>1. 1..Len(NoReq.list) = {}
      BY <2>5
    <3> QED BY <2>5, <2>6, <3>1 DEF ReqOK, Sound
  <2>8. IsInjective(m.pending_Q) /\ Range(m.pending_Q) = {}
    BY <2>1 DEF IsInjective, Range
  <2>9. Held(m) = {}
    BY <2>4, <2>6 DEF Held
  <2>10. Buffers(m)
    BY <2>1, <2>9, PbufAssumption, FS_EmptySet DEF Buffers
  <2> QED BY <2>3, <2>4, <2>7, <2>8, <2>10 DEF MemOK
<1>2. ASSUME MemOK(m), [Next]_vars PROVE MemOK(m')
  <2>1. CASE \E q \in Req, e \in Extent, serial \in BOOLEAN : hd_strategy(q, e, serial)
    BY <1>2, <2>1, StrategyKeeps
  <2>2. CASE \E q \in Req : TransferEnds(q)
    BY <1>2, <2>2, EndKeeps DEF TransferEnds
  <2>3. CASE \E pv \in 0..(striping_width - 1) : SETSA_PVMISS(pv)
    BY <1>2, <2>3 DEF SETSA_PVMISS
  <2>4. CASE UNCHANGED vars
    BY <1>2, <2>4 DEF vars
  <2> QED BY <1>2, <2>1, <2>2, <2>3, <2>4 DEF Next
<1>3. Init => IInv
  BY <1>1 DEF IInv
<1>4. IInv /\ [Next]_vars => IInv'
  BY <1>2 DEF IInv
<1> QED BY <1>3, <1>4, PTL DEF Spec

(* The pieces that the disks work on: those of unfinished requests.         *)
LEMMA BusyHeld ==
  ASSUME MemOK(m), NEW q \in Req, Busy(q) # {}
  PROVE  ~Complete(m.req[q].list) /\ m.req[q].st = "active"
<1>1. PICK i \in DOMAIN m.req[q].list : m.req[q].list[i].busy
  BY DEF Busy
<1>2. m.req[q].list \in Seq(PieceType) /\ i \in 1..Len(m.req[q].list) /\ ReqOK(m.req[q])
  BY MemFields DEF MemOK
<1>3. m.req[q].list[i].status # "STRIPE_DONE"
  <2>1. PieceOK(m.req[q], m.req[q].list[i])
    BY <1>2 DEF ReqOK, Sound
  <2> QED BY <1>1, <2>1 DEF PieceOK
<1>4. ~Complete(m.req[q].list)
  BY <1>3 DEF Complete
<1> QED BY <1>2, <1>4 DEF ReqOK

(* hd_stripe takes no more buffers than hd_freebuf has, hd_stripe_done gives *)
(* back no more than were taken, and no more transfers are with the disks    *)
(* than buffers are out; b_resid stays within the request.                   *)
THEOREM HdStripeTypeOK == Spec => []TypeOK
<1>1. ASSUME MemOK(m) PROVE TypeOK
  <2>1. m.free \in 0..NPbuf /\ \A q \in Req : m.req[q] \in ReqType /\ Sound(m.req[q])
    BY <1>1, MemFields DEF MemOK, ReqOK
  <2>2. UNION {{q} \X Busy(q) : q \in Req} \subseteq Held(m)
    <3> SUFFICES ASSUME NEW q \in Req, NEW i \in Busy(q) PROVE <<q, i>> \in Held(m)
      OBVIOUS
    <3>1. ~Complete(m.req[q].list)
      BY <1>1, BusyHeld
    <3>2. i \in 1..Len(m.req[q].list) /\ i \in Nat
      BY <1>1, MemFields DEF Busy, MemOK
    <3> QED BY <3>1, <3>2 DEF Held
  <2>3. IsFiniteSet(Held(m)) /\ Cardinality(Held(m)) <= NPbuf - m.free
    BY <1>1 DEF MemOK, Buffers
  <2> DEFINE B == UNION {{q} \X Busy(q) : q \in Req}
  <2>4. Cardinality(B) <= NPbuf - m.free
    <3> HIDE DEF B
    <3>1. IsFiniteSet(B) /\ Cardinality(B) <= Cardinality(Held(m))
      BY <2>2, <2>3, FS_Subset DEF B
    <3>2. Cardinality(B) \in Nat /\ Cardinality(Held(m)) \in Nat
      BY <2>3, <3>1, FS_CardinalityType
    <3> QED BY <2>1, <2>3, <3>1, <3>2, PbufAssumption
  <2>5. ASSUME NEW q \in Req
        PROVE  m.req[q].st \in {"idle", "active", "returned"} /\ m.req[q].resid \in 0..m.req[q].n
    <3>1. m.req[q] \in ReqType /\ m.req[q].resid <= m.req[q].n
      BY <2>1 DEF Sound
    <3> QED BY <3>1 DEF ReqType
  <2> QED BY <2>1, <2>4, <2>5 DEF TypeOK
<1>2. IInv => TypeOK
  BY <1>1 DEF IInv
<1> QED BY <1>2, HdStripeMemOK, PTL

(* Every block that a transfer has moved, however the request was cut at the *)
(* stripes, the bad blocks and the end of the buffers, was moved to or from   *)
(* the place that the layout of the striped volume has for it.               *)
THEOREM HdStripeInPlace == Spec => []InPlace
<1>1. ASSUME MemOK(m) PROVE InPlace
  <2>1. \A q \in Req : m.req[q] \in ReqType /\ Sound(m.req[q])
    BY <1>1, MemFields DEF MemOK, ReqOK
  <2>2. ASSUME NEW q \in Req, NEW x \in m.req[q].moved PROVE x[2] \in Place /\ LogicalOf(x[2]) = x[1]
    <3>1. m.req[q].moved \in SUBSET (Nat \X Place)
      BY <2>1 DEF ReqType
    <3> QED BY <2>1, <3>1 DEF Sound
  <2> QED BY <2>2 DEF InPlace
<1>2. IInv => InPlace
  BY <1>1 DEF IInv
<1> QED BY <1>2, HdStripeMemOK, PTL

(* What MemOK says of a request that has been returned.                     *)
LEMMA ReturnedSettled ==
  ASSUME MemOK(m), NEW q \in Req, m.req[q].st = "returned"
  PROVE  /\ Busy(q) = {} /\ ReturnedBut(m.req[q], m.req[q].lost)
         /\ m.req[q].lost # {} => \E e \in Errno : ~Seen(e)
<1> DEFINE r == m.req[q]
<1>1. r \in ReqType /\ ReqOK(r)
  BY MemFields DEF MemOK
<1>2. Busy(q) = {}
  BY BusyHeld
<1> HIDE DEF r
<1>3. r.st = "returned"
  BY DEF r
<1>4. (r.err \/ r.resid = 0) /\ (r.lost # {} => \E e \in Errno : ~Seen(e))
  BY <1>1, <1>3 DEF ReqOK, Sound
<1>5. r.blk..(From(r) - 1) \subseteq Settled(r)
  BY <1>1, <1>3 DEF ReqOK, Sound
<1>6. r.blk..(r.blk + r.n - r.resid - 1) = r.blk..(From(r) - 1)
  <2>1. r.blk \in Int /\ r.n \in Int /\ r.resid \in Int
    BY <1>1 DEF ReqType
  <2> QED BY <2>1 DEF From
<1>7. ReturnedBut(r, r.lost)
  BY <1>4, <1>5, <1>6 DEF ReturnedBut, Settled
<1> QED BY <1>2, <1>4, <1>7 DEF r

(* When hd_stripe_done returns a request no transfer of it is under way,     *)
(* without an error nothing is left over, and the blocks before those that   *)
(* b_resid counts back from the end are moved, but for those behind an error  *)
(* that b_error & B_ERROR does not see: whatever errors there are.           *)
THEOREM HdStripeReturnedUpToMissed == Spec => []ReturnedUpToMissed
<1>1. IInv => ReturnedUpToMissed
  BY ReturnedSettled DEF IInv, ReturnedUpToMissed
<1> QED BY <1>1, HdStripeMemOK, PTL

(* With disk drivers all of whose errors have the bit of B_ERROR (EIO and    *)
(* EMEDIA have) the comment of hd_stripe_done holds: what it reports as       *)
(* moved has been.  Otherwise it does not.                                  *)
THEOREM HdStripeReturnedIsTrue ==
  ASSUME \A e \in Errno : Seen(e)
  PROVE  Spec => []ReturnedIsTrue
<1>1. IInv => ReturnedIsTrue
  <2>1. SUFFICES ASSUME MemOK(m), NEW q \in Req, m.req[q].st = "returned"
                 PROVE  Busy(q) = {} /\ ReturnedBut(m.req[q], {})
    BY DEF IInv, ReturnedIsTrue
  <2>2. Busy(q) = {} /\ ReturnedBut(m.req[q], m.req[q].lost) /\ m.req[q].lost = {}
    BY <2>1, ReturnedSettled
  <2> QED BY <2>2
<1> QED BY <1>1, HdStripeMemOK, PTL
=============================================================================
