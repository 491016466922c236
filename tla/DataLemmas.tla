---------------------------- MODULE DataLemmas ----------------------------
(* What the range and the injectivity of a sequence become under Tail, \o
   and Append; least and greatest elements; induction over an interval. *)
EXTENDS Integers, Sequences, Functions, FiniteSetsExt, FiniteSetTheorems, TLAPS

LEMMA RangeTail ==
  ASSUME NEW T, NEW s \in Seq(T), s # <<>>
  PROVE  /\ Tail(s) \in Seq(T) /\ Head(s) \in T
         /\ Range(s) = {Head(s)} \cup Range(Tail(s))
         /\ IsInjective(s) => IsInjective(Tail(s)) /\ Head(s) \notin Range(Tail(s))
<1>1. Tail(s) \in Seq(T) /\ Head(s) \in T
  OBVIOUS
<1>2. Len(Tail(s)) = Len(s) - 1 /\ \A i \in 1..Len(Tail(s)) : Tail(s)[i] = s[i+1]
  OBVIOUS
<1>3. Range(s) = {Head(s)} \cup Range(Tail(s))
  <2>1. ASSUME NEW i \in 1..Len(s) PROVE s[i] \in {Head(s)} \cup Range(Tail(s))
    <3>1. CASE i = 1
      BY <3>1
    <3>2. CASE i # 1
      <4>1. i - 1 \in 1..Len(Tail(s)) /\ s[i] = Tail(s)[i-1]
        BY <1>2, <3>2
      <4>2. DOMAIN Tail(s) = 1..Len(Tail(s))
        BY <1>1
      <4> QED BY <4>1, <4>2 DEF Range
    <3> QED BY <3>1, <3>2
  <2>2. ASSUME NEW i \in 1..Len(Tail(s)) PROVE Tail(s)[i] \in Range(s)
    <3>1. i+1 \in 1..Len(s) /\ Tail(s)[i] = s[i+1]
      BY <1>2
    <3> QED BY <3>1 DEF Range
  <2>3. Head(s) \in Range(s)
    BY DEF Range
  <2> QED BY <2>1, <2>2, <2>3, <1>1 DEF Range
<1>4. ASSUME IsInjective(s)
      PROVE IsInjective(Tail(s)) /\ Head(s) \notin Range(Tail(s))
  <2>1. \A i, j \in 1..Len(s) : s[i] = s[j] => i = j
    BY <1>4 DEF IsInjective
  <2>2. \A i, j \in 1..Len(Tail(s)) : Tail(s)[i] = Tail(s)[j] => i = j
    BY <2>1, <1>2
  <2>3. \A j \in 1..Len(Tail(s)) : Tail(s)[j] # s[1]
    BY <2>1, <1>2
  <2> QED BY <2>2, <2>3, <1>1 DEF IsInjective, Range
<1> QED BY <1>1, <1>3, <1>4

LEMMA RangeConcat ==
  ASSUME NEW T, NEW s \in Seq(T), NEW n \in Nat, NEW t \in [1..n -> T]
  PROVE  /\ s \o t \in Seq(T)
         /\ Range(s \o t) = Range(s) \cup Range(t)
         /\ IsInjective(s) /\ IsInjective(t) /\ Range(s) \cap Range(t) = {}
              => IsInjective(s \o t)
<1>1. t \in Seq(T) /\ Len(t) = n
  OBVIOUS
<1>2. /\ s \o t \in Seq(T) /\ Len(s \o t) = Len(s) + n
      /\ \A i \in 1..(Len(s) + n) :
           (s \o t)[i] = IF i <= Len(s) THEN s[i] ELSE t[i - Len(s)]
  BY <1>1
<1>3. Range(s \o t) = Range(s) \cup Range(t)
  <2>1. ASSUME NEW i \in 1..Len(s \o t) PROVE (s \o t)[i] \in Range(s) \cup Range(t)
    BY <1>1, <1>2 DEF Range
  <2>2. ASSUME NEW i \in 1..Len(s) PROVE s[i] \in Range(s \o t)
    <3>1. i \in 1..Len(s \o t) /\ (s \o t)[i] = s[i]
      BY <1>2
    <3> QED BY <3>1, <1>2 DEF Range
  <2>3. ASSUME NEW i \in 1..n PROVE t[i] \in Range(s \o t)
    <3>1. i + Len(s) \in 1..Len(s \o t) /\ (s \o t)[i + Len(s)] = t[i]
      BY <1>2
    <3> QED BY <3>1, <1>2 DEF Range
  <2>4. DOMAIN s = 1..Len(s) /\ DOMAIN t = 1..n /\ DOMAIN (s \o t) = 1..Len(s \o t)
    BY <1>1, <1>2
  <2>5. Range(s \o t) \subseteq Range(s) \cup Range(t)
    BY <2>1, <2>4 DEF Range
  <2>6. Range(s) \subseteq Range(s \o t) /\ Range(t) \subseteq Range(s \o t)
    BY <2>2, <2>3, <2>4 DEF Range
  <2> QED BY <2>5, <2>6
<1>4. ASSUME IsInjective(s), IsInjective(t), Range(s) \cap Range(t) = {}
      PROVE  IsInjective(s \o t)
  <2>1. \A i, j \in 1..Len(s) : s[i] = s[j] => i = j
    BY <1>4 DEF IsInjective
  <2>2. \A i, j \in 1..n : t[i] = t[j] => i = j
    BY <1>4, <1>1 DEF IsInjective
  <2>3. \A i \in 1..Len(s), j \in 1..n : s[i] # t[j]
    BY <1>4, <1>1 DEF Range
  <2>4. \A i, j \in 1..Len(s \o t) : (s \o t)[i] = (s \o t)[j] => i = j
    BY <2>1, <2>2, <2>3, <1>2
  <2> QED BY <2>4, <1>2 DEF IsInjective
<1> QED BY <1>2, <1>3, <1>4

LEMMA RangeAppend ==
  ASSUME NEW T, NEW s \in Seq(T), NEW x \in T
  PROVE  /\ Append(s, x) \in Seq(T)
         /\ Range(Append(s, x)) = Range(s) \cup {x}
         /\ IsInjective(s) /\ x \notin Range(s) => IsInjective(Append(s, x))
<1> DEFINE t == Append(s, x)
<1>1. /\ t \in Seq(T) /\ Len(t) = Len(s) + 1 /\ t[Len(s) + 1] = x
      /\ \A i \in 1..Len(s) : t[i] = s[i]
  OBVIOUS
<1>2. DOMAIN s = 1..Len(s) /\ DOMAIN t = 1..Len(t)
  BY <1>1
<1> HIDE DEF t
<1>3. Range(t) \subseteq Range(s) \cup {x}
  <2>1. ASSUME NEW i \in 1..Len(t) PROVE t[i] \in Range(s) \cup {x}
    BY <1>1, <1>2 DEF Range
  <2> QED BY <2>1, <1>2 DEF Range
<1>4. Range(s) \cup {x} \subseteq Range(t)
  <2>1. x \in Range(t)
    BY <1>1, <1>2 DEF Range
  <2>2. ASSUME NEW i \in 1..Len(s) PROVE s[i] \in Range(t)
    BY <1>1, <1>2 DEF Range
  <2> QED BY <2>1, <2>2, <1>2 DEF Range
<1>5. ASSUME IsInjective(s), x \notin Range(s)
      PROVE  IsInjective(t)
  <2>1. \A i, j \in 1..Len(s) : s[i] = s[j] => i = j
    BY <1>5, <1>2 DEF IsInjective
  <2>2. \A i \in 1..Len(s) : s[i] # x
    BY <1>5, <1>2 DEF Range
  <2>3. \A i, j \in 1..Len(t) : t[i] = t[j] => i = j
    BY <2>1, <2>2, <1>1
  <2> QED BY <2>3, <1>2 DEF IsInjective
<1> QED BY <1>1, <1>3, <1>4, <1>5 DEF t
-----------------------------------------------------------------------------
(* A set of natural numbers has a least element, since the intervals below  *)
(* its elements cannot shrink for ever.                                     *)
LEMMA MinIn ==
  ASSUME NEW S \in SUBSET Nat, S # {}
  PROVE  Min(S) \in S /\ \A y \in S : Min(S) <= y
<1> DEFINE T == {0..(x - 1) : x \in S}
           R == StrictSubsetOrdering(Nat)
           F == FiniteSubsetsOf(Nat)
<1>1. T \subseteq F /\ T # {}
  <2>1. ASSUME NEW x \in S PROVE 0..(x - 1) \in F
    <3>1. x \in Nat OBVIOUS
    <3>2. 0 \in Int /\ x - 1 \in Int BY <3>1
    <3>3. IsFiniteSet(0..(x - 1)) BY ONLY <3>2, FS_Interval
    <3>4. 0..(x - 1) \subseteq Nat BY <3>1
    <3> QED BY <3>3, <3>4 DEF FiniteSubsetsOf
  <2> QED BY <2>1
<1>2. IsWellFoundedOn(R, F)
  BY FS_StrictSubsetOrderingWellFounded
<1>3. PICK t \in T : \A u \in T : ~ (<<u, t>> \in R)
  <2> HIDE DEF R, T, F
  <2> QED BY <1>1, <1>2, WFMin
<1>4. PICK x \in S : t = 0..(x - 1)
  OBVIOUS
<1>5. \A y \in S : x <= y
  <2>1. SUFFICES ASSUME NEW y \in S, y < x PROVE FALSE
    OBVIOUS
  <2>2. x \in Nat /\ y \in Nat
    OBVIOUS
  <2>3. 0..(y - 1) \subseteq 0..(x - 1) /\ y \in 0..(x - 1) /\ y \notin 0..(y - 1)
    BY <2>1, <2>2
  <2>4. 0..(y - 1) \in SUBSET Nat /\ 0..(x - 1) \in SUBSET Nat
    BY <2>2
  <2>5. <<0..(y - 1), 0..(x - 1)>> \in R
    BY <2>3, <2>4 DEF StrictSubsetOrdering
  <2> QED BY <2>5, <1>3, <1>4
<1> QED BY <1>5, Zenon DEF Min

(* A set bounded above has a greatest element. *)
LEMMA MaxIn ==
  ASSUME NEW n \in Nat, NEW S \in SUBSET (1..n), S # {}
  PROVE  Max(S) \in S /\ \A y \in S : Max(S) >= y
<1> DEFINE D == {n - x : x \in S}
<1>1. D \in SUBSET Nat /\ D # {}
  <2>1. \A x \in S : n - x \in Nat
    OBVIOUS
  <2> QED BY <2>1
<1>2. Min(D) \in D /\ \A y \in D : Min(D) <= y
  <2> HIDE DEF D
  <2> QED BY <1>1, MinIn
<1>3. PICK x \in S : Min(D) = n - x
  BY <1>2
<1>4. \A y \in S : n - y \in D
  OBVIOUS
<1> HIDE DEF D
<1>5. \A y \in S : x >= y
  <2>1. SUFFICES ASSUME NEW y \in S PROVE x >= y
    OBVIOUS
  <2>2. x \in 1..n /\ y \in 1..n
    OBVIOUS
  <2>3. n - x <= n - y
    BY <1>4, <1>2, <1>3
  <2> QED BY <2>2, <2>3
<1> QED BY <1>5, Zenon DEF Max

(* What holds at 0 and goes from one number to the next holds up to n; T is *)
(* the set of the numbers for which it holds.                               *)
LEMMA IntervalInduction ==
  ASSUME NEW n \in Nat, NEW T \in SUBSET (0..n), 0 \in T, \A i \in 1..n : i - 1 \in T => i \in T
  PROVE  T = 0..n
<1> DEFINE U == 0..n \ T
<1>1. SUFFICES ASSUME U # {} PROVE FALSE
  OBVIOUS
<1>2. U \in SUBSET Nat
  OBVIOUS
<1>3. Min(U) \in U /\ \A y \in U : Min(U) <= y
  <2> HIDE DEF U
  <2> QED BY <1>1, <1>2, MinIn
<1> DEFINE k == Min(U)
<1>4. k \in 0..n /\ k \notin T /\ \A y \in U : k <= y
  BY <1>3
<1> HIDE DEF k
<1>5. k \in 1..n /\ k - 1 \in 0..n
  BY <1>4
<1>6. k - 1 \in T
  BY <1>5, <1>4
<1> QED BY <1>4, <1>5, <1>6

(* The maximum of a number and the values of a function on an interval. *)
LEMMA MaxOfValues ==
  ASSUME NEW n \in Nat, NEW f \in [1..n -> Int], NEW a \in Int
  PROVE  Max({a} \cup {f[x] : x \in 1..n}) \in Int
<1> DEFINE S(k) == {a} \cup {f[x] : x \in 1..k}
           HasMax(k) == \E x \in S(k) : \A y \in S(k) : x >= y
           T == {k \in 0..n : HasMax(k)}
<1>1. 0 \in T
  OBVIOUS
<1>2. ASSUME NEW k \in 1..n, k - 1 \in T PROVE k \in T
  <2>1. PICK x \in S(k - 1) : \A y \in S(k - 1) : x >= y
    BY <1>2
  <2>2. S(k) = S(k - 1) \cup {f[k]}
    <3>1. 1..k = 1..(k - 1) \cup {k}
      OBVIOUS
    <3> QED BY <3>1
  <2>3. x \in Int /\ f[k] \in Int /\ \A y \in S(k - 1) : y \in Int
    BY <2>1
  <2> HIDE DEF S
  <2>4. CASE x >= f[k]
    <3>1. x \in S(k) /\ \A y \in S(k) : x >= y
      BY <2>1, <2>2, <2>4
    <3> QED BY <3>1
  <2>5. CASE ~(x >= f[k])
    <3>1. f[k] \in S(k) /\ \A y \in S(k) : f[k] >= y
      BY <2>1, <2>2, <2>3, <2>5
    <3> QED BY <3>1
  <2> QED BY <2>4, <2>5
<1>3. T = 0..n
  <2>1. T \in SUBSET (0..n)
    OBVIOUS
  <2> HIDE DEF T
  <2> QED BY <1>1, <1>2, <2>1, IntervalInduction
<1>4. PICK x \in S(n) : \A y \in S(n) : x >= y
  <2>1. n \in T
    <3> HIDE DEF T
    <3> QED BY <1>3
  <2>2. HasMax(n)
    <3> HIDE DEF HasMax
    <3> QED BY <2>1
  <2> QED BY <2>2
<1>5. \A y \in S(n) : y \in Int
  OBVIOUS
<1> HIDE DEF S
<1>6. Max(S(n)) \in S(n)
  BY <1>4, Zenon DEF Max
<1> QED BY <1>5, <1>6 DEF S
=============================================================================
