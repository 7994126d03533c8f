------------------------------ MODULE DomainProofs ------------------------------
(***************************************************************************)
(* For integers of every width: what any of the three domains claims of a  *)
(* value holds, whatever instructions and merges it came from.             *)
(***************************************************************************)
EXTENDS DomainWalk, InductionLemmas

-----------------------------------------------------------------------------
(* Powers of two, remainders and quotients *)

LEMMA Powers ==
  ASSUME NEW w \in Width
  PROVE  /\ w \in Nat \ {0}
         /\ \A n \in 0..w : 2^n \in Nat \ {0}
         /\ \A n \in 1..w : 2^n = 2 * 2^(n - 1)
<1>1. w \in Nat \ {0} /\ \A n \in 1..w : 2^n = 2 * 2^(n - 1)
  BY WidthAssumption
<1> DEFINE T == {n \in Nat : n <= w => 2^n \in Nat \ {0}}
<1>2. 2^0 = 1
  OBVIOUS
<1>3. ASSUME NEW n \in Nat, n \in T PROVE n + 1 \in T
  <2>1. CASE n + 1 <= w
    <3>1. 2^n \in Nat \ {0}
      BY <1>1, <1>3, <2>1
    <3>2. 2^(n + 1) = 2 * 2^((n + 1) - 1) /\ (n + 1) - 1 = n
      BY <1>1, <2>1
    <3> QED BY <3>1, <3>2
  <2> QED BY <2>1
<1>4. Nat \subseteq T
  <2> HIDE DEF T
  <2> QED BY <1>2, <1>3, NatsIn, 0 \in T DEF T
<1> QED BY <1>1, <1>4

LEMMA Remainder ==
  ASSUME NEW m \in Nat \ {0}, NEW v \in Int
  PROVE  v % m \in 0..(m - 1) /\ v \div m \in Int /\ v = m * (v \div m) + (v % m)
OBVIOUS

LEMMA RemainderOf ==
  ASSUME NEW m \in Nat \ {0}, NEW q \in Int, NEW r \in 0..(m - 1)
  PROVE  (m * q + r) % m = r /\ (m * q + r) \div m = q
OBVIOUS

(* A number of half the range on either side of zero.                       *)
LEMMA Wraps ==
  ASSUME NEW h \in Nat \ {0}, NEW m, m = 2 * h, NEW v \in (-h)..(h - 1)
  PROVE  v % m = IF v < 0 THEN v + m ELSE v
<1>1. m \in Nat \ {0}
  OBVIOUS
<1>2. CASE v < 0
  <2>1. v + m \in 0..(m - 1) /\ v = m * (-1) + (v + m)
    BY <1>2
  <2> QED BY <2>1, <1>1, <1>2, RemainderOf
<1>3. CASE ~(v < 0)
  <2>1. v \in 0..(m - 1) /\ v = m * 0 + v
    BY <1>3
  <2> QED BY <2>1, <1>1, <1>3, RemainderOf
<1> QED BY <1>2, <1>3

LEMMA PowersDivide ==
  ASSUME NEW w \in Width, NEW v \in 0..w
  PROVE  \A n \in v..w : \E k \in Nat \ {0} : 2^n = 2^v * k
<1> DEFINE T == {n \in Nat : v + n <= w => \E k \in Nat \ {0} : 2^(v + n) = 2^v * k}
<1>1. /\ w \in Nat /\ v \in Nat /\ v + 0 = v
      /\ \A n \in 0..w : 2^n \in Nat \ {0}
      /\ \A n \in 1..w : 2^n = 2 * 2^(n - 1)
  BY Powers
<1>2. 0 \in T
  BY <1>1, 1 \in Nat \ {0}, 2^v = 2^v * 1
<1>3. ASSUME NEW n \in Nat, n \in T PROVE n + 1 \in T
  <2>1. CASE v + (n + 1) <= w
    <3>1. PICK k \in Nat \ {0} : 2^(v + n) = 2^v * k
      BY <1>1, <1>3, <2>1
    <3>2. 2^(v + (n + 1)) = 2 * 2^(v + n)
      <4>1. (v + (n + 1)) \in 1..w /\ (v + (n + 1)) - 1 = v + n
        BY <1>1, <2>1
      <4> QED BY <4>1, <1>1
    <3>3. 2^(v + (n + 1)) = 2^v * (2 * k)
      BY <3>1, <3>2, <1>1
    <3>4. 2 * k \in Nat \ {0} /\ n + 1 \in Nat
      OBVIOUS
    <3> QED BY <3>3, <3>4, Zenon
  <2> QED BY <2>1
<1>4. Nat \subseteq T
  <2> HIDE DEF T
  <2> QED BY <1>2, <1>3, NatsIn
<1>5. ASSUME NEW n \in v..w PROVE \E k \in Nat \ {0} : 2^n = 2^v * k
  <2>1. n - v \in Nat /\ v + (n - v) = n /\ n <= w
    BY <1>1
  <2> QED BY <2>1, <1>4
<1> QED BY <1>5

-----------------------------------------------------------------------------
(* Bit patterns and the integers they stand for *)

LEMMA Halves ==
  ASSUME NEW w \in Width
  PROVE  /\ w \in Nat \ {0}
         /\ 2^w = 2 * 2^(w - 1) /\ 2^(w - 1) \in Nat \ {0} /\ 2^w \in Nat \ {0}
         /\ IntMin(w) = -(2^(w - 1)) /\ IntMax(w) = 2^(w - 1) - 1
         /\ IntMin(w) \in Int /\ IntMax(w) \in Int
<1>1. w - 1 \in 0..w /\ w \in 1..w /\ w \in 0..w
  BY Powers
<1> QED BY <1>1, Powers DEF IntMin, IntMax

LEMMA SemTyped ==
  ASSUME NEW w \in Width, NEW v \in Int
  PROVE  /\ Sem(w, v) \in IntOf(w) /\ Sem(w, v) \in SemValue /\ Sem(w, v) # Poison
         /\ Sem(w, v).width = w /\ Sem(w, v).bits = v % 2^w
<1>1. v % 2^w \in Pattern(w)
  BY Halves, Remainder DEF Pattern
<1>2. Sem(w, v) \in IntOf(w)
  BY <1>1 DEF Sem, IntOf
<1>3. Sem(w, v) \in [width : Nat, bits : Nat]
  BY <1>1, Halves DEF Sem
<1> QED BY <1>2, <1>3, PoisonAssumption DEF SemValue, Ints, Sem

LEMMA SemPattern ==
  ASSUME NEW x \in SemValue, x # Poison
  PROVE  /\ x.width \in Width /\ x \in IntOf(x.width)
         /\ x.bits \in Nat /\ x.bits <= 2^x.width - 1
         /\ x = [width |-> x.width, bits |-> x.bits]
<1>1. PICK w \in Width : x \in IntOf(w)
  BY DEF SemValue, Ints
<1> QED BY <1>1, Halves DEF IntOf, Pattern

LEMMA SignedRange ==
  ASSUME NEW w \in Width, NEW x \in IntOf(w)
  PROVE  /\ Signed(x) \in IntMin(w)..IntMax(w) /\ x.bits \in 0..(2^w - 1) /\ x.width = w
         /\ x.bits = IF Signed(x) < 0 THEN Signed(x) + 2^w ELSE Signed(x)
<1> DEFINE h == 2^(w - 1)
           m == 2^w
<1>1. x.width = w /\ x.bits \in 0..(m - 1)
  BY Halves DEF IntOf, Pattern
<1>2. Signed(x) = IF x.bits >= h THEN x.bits - m ELSE x.bits
  BY <1>1 DEF Signed, SignedBits
<1>3. m = 2 * h /\ h \in Nat \ {0} /\ IntMin(w) = -h /\ IntMax(w) = h - 1
  BY Halves
<1> HIDE DEF h, m
<1>4. /\ Signed(x) \in (-h)..(h - 1)
      /\ x.bits = IF Signed(x) < 0 THEN Signed(x) + m ELSE Signed(x)
  BY <1>1, <1>2, <1>3
<1> QED BY <1>1, <1>3, <1>4 DEF m

(* An integer that fits is read back from its pattern.                      *)
LEMMA SignedSem ==
  ASSUME NEW w \in Width, NEW v \in IntMin(w)..IntMax(w)
  PROVE  /\ v \in Int /\ Signed(Sem(w, v)) = v
         /\ Sem(w, v).bits = IF v < 0 THEN v + 2^w ELSE v
<1>1. v \in (-(2^(w - 1)))..(2^(w - 1) - 1)
  BY Halves
<1>2. v % 2^w = IF v < 0 THEN v + 2^w ELSE v
  BY <1>1, Halves, Wraps
<1> DEFINE h == 2^(w - 1)
           m == 2^w
<1>3. /\ Sem(w, v) = [width |-> w, bits |-> IF v < 0 THEN v + m ELSE v]
      /\ m = 2 * h /\ h \in Nat \ {0} /\ v \in (-h)..(h - 1)
  BY <1>1, <1>2, Halves DEF Sem
<1>4. Signed(Sem(w, v)) = IF Sem(w, v).bits >= h THEN Sem(w, v).bits - m ELSE Sem(w, v).bits
  BY <1>3 DEF Signed, SignedBits
<1> HIDE DEF h, m
<1>5. Signed(Sem(w, v)) = v /\ Sem(w, v).bits = IF v < 0 THEN v + m ELSE v
  BY <1>3, <1>4
<1> QED BY <1>3, <1>5 DEF m

(* A pattern is that of the integer it stands for, and of its unsigned one.  *)
LEMMA SemSigned ==
  ASSUME NEW w \in Width, NEW x \in IntOf(w)
  PROVE  Sem(w, Signed(x)) = x /\ Sem(w, x.bits) = x
<1>1. Sem(w, Signed(x)).bits = x.bits
  BY SignedRange, SignedSem
<1>2. x.bits % 2^w = x.bits
  <2> DEFINE m == 2^w
             b == x.bits
  <2>1. m \in Nat \ {0} /\ b \in 0..(m - 1)
    BY SignedRange, Halves
  <2> HIDE DEF m, b
  <2>2. b = m * 0 + b
    BY <2>1
  <2>3. b % m = b
    BY <2>1, <2>2, RemainderOf
  <2> QED BY <2>3 DEF m, b
<1>3. x = [width |-> w, bits |-> x.bits]
  BY DEF IntOf
<1> QED BY <1>1, <1>2, <1>3 DEF Sem

-----------------------------------------------------------------------------
(* Intervals: order, meaning, join and widening *)

Bounded == RangeElem \ {RangeBottom, RangeTop}

LEMMA BoundedShape ==
  ASSUME NEW x \in Bounded
  PROVE  /\ x.width \in Width /\ x.lo \in Int /\ x.hi \in Int /\ x.lo <= x.hi
         /\ IntMin(x.width) <= x.lo /\ x.hi <= IntMax(x.width)
         /\ x = [width |-> x.width, lo |-> x.lo, hi |-> x.hi]
<1>1. x \in Intervals /\ x.lo <= x.hi
  BY DEF Bounded, RangeElem
<1>2. PICK w \in Width :
        x \in {[width |-> w, lo |-> l, hi |-> h] : l \in IntMin(w)..IntMax(w), h \in IntMin(w)..IntMax(w)}
  BY <1>1 DEF Intervals
<1>3. PICK l \in IntMin(w)..IntMax(w), h \in IntMin(w)..IntMax(w) : x = [width |-> w, lo |-> l, hi |-> h]
  BY <1>2
<1> QED BY <1>1, <1>3, Halves

LEMMA BoundedRecord ==
  ASSUME NEW w \in Width, NEW l \in Int, NEW h \in Int, IntMin(w) <= l, l <= h, h <= IntMax(w)
  PROVE  [width |-> w, lo |-> l, hi |-> h] \in Bounded
<1> DEFINE x == [width |-> w, lo |-> l, hi |-> h]
<1>1. l \in IntMin(w)..IntMax(w) /\ h \in IntMin(w)..IntMax(w)
  BY Halves
<1>2. x \in Intervals /\ x.lo <= x.hi
  BY <1>1 DEF Intervals
<1>3. x \notin {RangeBottom, RangeTop}
  <2>1. x \in [width : Nat, lo : Int, hi : Int]
    BY Halves
  <2> QED BY <2>1, RangeAssumption
<1> QED BY <1>2, <1>3 DEF Bounded, RangeElem

LEMMA BoundedMeaning ==
  ASSUME NEW x \in Bounded
  PROVE  /\ \A c : c \in RangeGamma(x) <=>
                     c \in IntOf(x.width) /\ x.lo <= Signed(c) /\ Signed(c) <= x.hi
         /\ Poison \notin RangeGamma(x) /\ RangeGamma(x) \subseteq SemValue
         /\ Sem(x.width, x.lo) \in RangeGamma(x) /\ Sem(x.width, x.hi) \in RangeGamma(x)
         /\ Signed(Sem(x.width, x.lo)) = x.lo /\ Signed(Sem(x.width, x.hi)) = x.hi
<1>1. x # RangeBottom /\ x # RangeTop
  BY DEF Bounded
<1>2. \A c : c \in RangeGamma(x) <=>
              c \in IntOf(x.width) /\ x.lo <= Signed(c) /\ Signed(c) <= x.hi
  BY <1>1 DEF RangeGamma
<1>3. Poison \notin IntOf(x.width)
  <2>1. \A c \in IntOf(x.width) : c \in [width : Nat, bits : Nat]
    BY BoundedShape, Halves DEF IntOf, Pattern
  <2> QED BY <2>1, PoisonAssumption
<1>4. RangeGamma(x) \subseteq SemValue
  BY <1>2, BoundedShape DEF SemValue, Ints
<1>5. x.lo \in IntMin(x.width)..IntMax(x.width) /\ x.hi \in IntMin(x.width)..IntMax(x.width)
  BY BoundedShape, Halves
<1>6. Sem(x.width, x.lo) \in IntOf(x.width) /\ Sem(x.width, x.hi) \in IntOf(x.width)
  BY BoundedShape, SemTyped
<1>7. Signed(Sem(x.width, x.lo)) = x.lo /\ Signed(Sem(x.width, x.hi)) = x.hi
  BY <1>5, BoundedShape, SignedSem
<1> QED BY <1>2, <1>3, <1>4, <1>6, <1>7, BoundedShape

LEMMA IntervalMeaning ==
  ASSUME NEW w \in Width, NEW lo \in Int, NEW hi \in Int
  PROVE  /\ Interval(w, lo, hi) \in Bounded \union {RangeBottom}
         /\ \A c \in IntOf(w) : lo <= Signed(c) /\ Signed(c) <= hi => c \in RangeGamma(Interval(w, lo, hi))
<1> DEFINE l == Max2(lo, IntMin(w))
           h == Min2(hi, IntMax(w))
           x == [width |-> w, lo |-> l, hi |-> h]
<1>1. Interval(w, lo, hi) = IF l > h THEN RangeBottom ELSE x
  BY DEF Interval
<1>2. l \in Int /\ h \in Int /\ IntMin(w) <= l /\ h <= IntMax(w)
  BY Halves DEF Max2, Min2
<1>3. CASE l > h
  <2>1. ASSUME NEW c \in IntOf(w), lo <= Signed(c), Signed(c) <= hi PROVE FALSE
    BY <2>1, <1>3, SignedRange, Halves DEF Max2, Min2
  <2> QED BY <1>1, <1>3, <2>1
<1>4. CASE ~(l > h)
  <2>1. x \in Bounded
    BY <1>2, <1>4, BoundedRecord
  <2>2. ASSUME NEW c \in IntOf(w), lo <= Signed(c), Signed(c) <= hi PROVE l <= Signed(c) /\ Signed(c) <= h
    BY <2>2, SignedRange, Halves DEF Max2, Min2
  <2>3. x.width = w /\ x.lo = l /\ x.hi = h
    OBVIOUS
  <2> HIDE DEF l, h, x
  <2>4. ASSUME NEW c \in IntOf(w), lo <= Signed(c), Signed(c) <= hi PROVE c \in RangeGamma(x)
    BY <2>1, <2>2, <2>3, <2>4, BoundedMeaning
  <2> QED BY <1>1, <1>4, <2>1, <2>4
<1> QED BY <1>3, <1>4

LEMMA FullMeaning ==
  ASSUME NEW w \in Width
  PROVE  /\ Full(w) = [width |-> w, lo |-> IntMin(w), hi |-> IntMax(w)]
         /\ Full(w) \in Bounded /\ IntOf(w) \subseteq RangeGamma(Full(w))
<1>1. Full(w) = [width |-> w, lo |-> IntMin(w), hi |-> IntMax(w)]
  BY Halves DEF Full, Interval, Max2, Min2
<1>2. Full(w) \in Bounded
  BY <1>1, Halves, BoundedRecord
<1>3. ASSUME NEW c \in IntOf(w) PROVE c \in RangeGamma(Full(w))
  BY SignedRange, Halves, IntervalMeaning DEF Full
<1> QED BY <1>1, <1>2, <1>3

LEMMA RangeKinds ==
  /\ RangeElem = Bounded \union {RangeBottom, RangeTop}
  /\ RangeBottom \notin Bounded /\ RangeTop \notin Bounded /\ RangeBottom # RangeTop
  /\ RangeGamma(RangeBottom) = {} /\ RangeGamma(RangeTop) = SemValue
BY RangeAssumption DEF RangeElem, Bounded, RangeGamma

LEMMA BoundedLeq ==
  ASSUME NEW x \in Bounded, NEW y \in Bounded
  PROVE  RangeLeq(x, y) <=> x.width = y.width /\ y.lo <= x.lo /\ x.hi <= y.hi
BY RangeKinds DEF RangeLeq

(* The order is containment of what the elements stand for.                 *)
LEMMA RangeContainment ==
  ASSUME NEW x \in RangeElem, NEW y \in RangeElem
  PROVE  /\ RangeGamma(x) \subseteq SemValue
         /\ RangeLeq(x, y) <=> RangeGamma(x) \subseteq RangeGamma(y)
<1>1. \A z \in RangeElem : RangeGamma(z) \subseteq SemValue
  BY RangeKinds, BoundedMeaning
<1>2. CASE x = RangeBottom \/ y = RangeTop
  BY <1>1, <1>2, RangeKinds DEF RangeLeq
<1>3. CASE x = RangeTop /\ y # RangeTop
  <2>1. Poison \in RangeGamma(x) /\ Poison \notin RangeGamma(y)
    BY <1>3, RangeKinds, BoundedMeaning DEF SemValue
  <2> QED BY <1>1, <1>3, <2>1, RangeKinds DEF RangeLeq
<1>4. CASE x \in Bounded /\ y = RangeBottom
  BY <1>1, <1>4, RangeKinds, BoundedMeaning DEF RangeLeq
<1>5. CASE x \in Bounded /\ y \in Bounded
  <2>1. ASSUME RangeLeq(x, y) PROVE RangeGamma(x) \subseteq RangeGamma(y)
    <3>1. x.width = y.width /\ y.lo <= x.lo /\ x.hi <= y.hi
      BY <1>5, <2>1, BoundedLeq
    <3>2. ASSUME NEW c \in RangeGamma(x) PROVE c \in RangeGamma(y)
      <4>1. c \in IntOf(x.width) /\ x.lo <= Signed(c) /\ Signed(c) <= x.hi
        BY <1>5, <3>2, BoundedMeaning
      <4>2. Signed(c) \in Int
        BY <1>5, <4>1, BoundedShape, SignedRange, Halves
      <4>3. y.lo <= Signed(c) /\ Signed(c) <= y.hi
        BY <1>5, <3>1, <4>1, <4>2, BoundedShape
      <4> QED BY <1>5, <3>1, <4>1, <4>3, BoundedMeaning
    <3> QED BY <3>2
  <2>2. ASSUME RangeGamma(x) \subseteq RangeGamma(y) PROVE RangeLeq(x, y)
    <3> DEFINE a == Sem(x.width, x.lo)
               b == Sem(x.width, x.hi)
    <3>1. a \in RangeGamma(y) /\ b \in RangeGamma(y)
      BY <1>5, <2>2, BoundedMeaning
    <3>2. a.width = x.width /\ Signed(a) = x.lo /\ Signed(b) = x.hi
      BY <1>5, BoundedMeaning DEF Sem
    <3>3. a.width = y.width /\ y.lo <= Signed(a) /\ Signed(b) <= y.hi
      <4> HIDE DEF a, b
      <4> QED BY <1>5, <3>1, BoundedMeaning DEF IntOf
    <3> QED BY <1>5, <3>2, <3>3, BoundedLeq
  <2> QED BY <1>1, <2>1, <2>2
<1> QED BY <1>2, <1>3, <1>4, <1>5, RangeKinds

LEMMA RangeOrder ==
  /\ \A x \in RangeElem : RangeLeq(x, x) /\ RangeLeq(RangeBottom, x) /\ RangeLeq(x, RangeTop)
  /\ \A x, y, z \in RangeElem : RangeLeq(x, y) /\ RangeLeq(y, z) => RangeLeq(x, z)
BY RangeContainment, RangeKinds DEF RangeLeq

(* The hull of two intervals, of which widening takes at least as much.      *)
LEMMA BoundedJoin ==
  ASSUME NEW x \in Bounded, NEW y \in Bounded, x.width = y.width
  PROVE  /\ RangeJoin(x, y) \in Bounded /\ RangeWiden(x, y) \in Bounded
         /\ RangeJoin(x, y).width = x.width /\ RangeWiden(x, y).width = x.width
         /\ RangeJoin(x, y).lo = Min2(x.lo, y.lo) /\ RangeJoin(x, y).hi = Max2(x.hi, y.hi)
         /\ RangeLeq(x, RangeWiden(x, y)) /\ RangeLeq(y, RangeWiden(x, y))
<1>1. x # RangeBottom /\ y # RangeBottom /\ RangeTop \notin {x, y}
  BY RangeKinds
<1>2. RangeJoin(x, y) = [width |-> x.width, lo |-> Min2(x.lo, y.lo), hi |-> Max2(x.hi, y.hi)]
  BY <1>1 DEF RangeJoin
<1>3. RangeJoin(x, y) \in Bounded
  <2>1. /\ Min2(x.lo, y.lo) \in Int /\ Max2(x.hi, y.hi) \in Int
        /\ IntMin(x.width) <= Min2(x.lo, y.lo) /\ Max2(x.hi, y.hi) <= IntMax(x.width)
        /\ Min2(x.lo, y.lo) <= Max2(x.hi, y.hi)
    BY BoundedShape, Halves DEF Min2, Max2
  <2> QED BY <1>2, <2>1, BoundedShape, BoundedRecord
<1> DEFINE l == IF y.lo < x.lo THEN IntMin(x.width) ELSE x.lo
           h == IF y.hi > x.hi THEN IntMax(x.width) ELSE x.hi
<1>4. RangeWiden(x, y) = Interval(x.width, l, h)
  BY <1>1 DEF RangeWiden
<1>5. /\ l \in Int /\ h \in Int /\ IntMin(x.width) <= l /\ h <= IntMax(x.width)
      /\ l <= x.lo /\ l <= y.lo /\ x.hi <= h /\ y.hi <= h /\ l <= h
  BY BoundedShape, Halves
<1> HIDE DEF l, h
<1>6. Interval(x.width, l, h) = [width |-> x.width, lo |-> l, hi |-> h]
  BY <1>5, BoundedShape, Halves DEF Interval, Max2, Min2
<1>7. RangeWiden(x, y) \in Bounded
  BY <1>4, <1>5, <1>6, BoundedShape, BoundedRecord
<1>8. RangeLeq(x, RangeWiden(x, y)) /\ RangeLeq(y, RangeWiden(x, y))
  BY <1>4, <1>5, <1>6, <1>7, BoundedLeq
<1> QED BY <1>2, <1>3, <1>4, <1>6, <1>7, <1>8

LEMMA JoinCases ==
  ASSUME NEW x \in RangeElem, NEW y \in RangeElem
  PROVE  /\ x = RangeBottom => RangeJoin(x, y) = y /\ RangeWiden(x, y) = y
         /\ y = RangeBottom => RangeJoin(x, y) = x /\ RangeWiden(x, y) = x
         /\ x # RangeBottom /\ y # RangeBottom
              /\ ~(x \in Bounded /\ y \in Bounded /\ x.width = y.width)
            => RangeJoin(x, y) = RangeTop /\ RangeWiden(x, y) = RangeTop
BY RangeKinds DEF RangeJoin, RangeWiden

LEMMA RangeBounds ==
  ASSUME NEW x \in RangeElem, NEW y \in RangeElem
  PROVE  /\ RangeJoin(x, y) \in RangeElem /\ RangeWiden(x, y) \in RangeElem
         /\ RangeLeq(x, RangeJoin(x, y)) /\ RangeLeq(y, RangeJoin(x, y))
         /\ RangeLeq(x, RangeWiden(x, y)) /\ RangeLeq(y, RangeWiden(x, y))
<1>1. CASE x = RangeBottom \/ y = RangeBottom
  BY <1>1, JoinCases, RangeOrder
<1>2. CASE x \in Bounded /\ y \in Bounded /\ x.width = y.width
  <2>1. RangeJoin(x, y) \in Bounded /\ RangeWiden(x, y) \in Bounded
    BY <1>2, BoundedJoin
  <2>2. /\ RangeJoin(x, y).width = x.width
        /\ RangeJoin(x, y).lo = Min2(x.lo, y.lo) /\ RangeJoin(x, y).hi = Max2(x.hi, y.hi)
    BY <1>2, BoundedJoin
  <2>3. RangeLeq(x, RangeJoin(x, y)) /\ RangeLeq(y, RangeJoin(x, y))
    BY <1>2, <2>1, <2>2, BoundedLeq, BoundedShape DEF Min2, Max2
  <2> QED BY <1>2, <2>1, <2>3, BoundedJoin, RangeKinds
<1>3. CASE /\ x # RangeBottom /\ y # RangeBottom
           /\ ~(x \in Bounded /\ y \in Bounded /\ x.width = y.width)
  BY <1>3, JoinCases, RangeOrder, RangeKinds
<1> QED BY <1>1, <1>2, <1>3

(* No upper bound is below the join.                                        *)
LEMMA RangeJoinLeast ==
  ASSUME NEW x \in RangeElem, NEW y \in RangeElem, NEW z \in RangeElem, RangeLeq(x, z), RangeLeq(y, z)
  PROVE  RangeLeq(RangeJoin(x, y), z)
<1>1. CASE x = RangeBottom \/ y = RangeBottom \/ z = RangeTop
  BY <1>1, JoinCases, RangeBounds, RangeOrder
<1>2. CASE ~(x = RangeBottom \/ y = RangeBottom \/ z = RangeTop)
  <2>1. x \in Bounded /\ y \in Bounded /\ z \in Bounded
    BY <1>2, RangeKinds DEF RangeLeq
  <2>2. /\ x.width = z.width /\ z.lo <= x.lo /\ x.hi <= z.hi
        /\ y.width = z.width /\ z.lo <= y.lo /\ y.hi <= z.hi
    BY <2>1, BoundedLeq
  <2>3. /\ RangeJoin(x, y) \in Bounded /\ RangeJoin(x, y).width = z.width
        /\ z.lo <= RangeJoin(x, y).lo /\ RangeJoin(x, y).hi <= z.hi
    BY <2>1, <2>2, BoundedJoin, BoundedShape DEF Min2, Max2
  <2> QED BY <2>1, <2>3, BoundedLeq
<1> QED BY <1>1, <1>2

(* Merging with what is below changes nothing.                              *)
LEMMA RangeAbsorbs ==
  ASSUME NEW x \in RangeElem, NEW y \in RangeElem
  PROVE  (RangeJoin(x, y) = x) <=> RangeLeq(y, x)
<1>1. ASSUME RangeLeq(y, x) PROVE RangeJoin(x, y) = x
  <2>1. CASE y = RangeBottom \/ x = RangeTop
    BY <2>1, JoinCases, RangeKinds
  <2>2. CASE ~(y = RangeBottom \/ x = RangeTop)
    <3>1. x \in Bounded /\ y \in Bounded /\ y.width = x.width /\ x.lo <= y.lo /\ y.hi <= x.hi
      BY <1>1, <2>2, RangeKinds, BoundedLeq DEF RangeLeq
    <3>2. RangeJoin(x, y) = [width |-> x.width, lo |-> Min2(x.lo, y.lo), hi |-> Max2(x.hi, y.hi)]
      BY <3>1, RangeKinds DEF RangeJoin
    <3>3. Min2(x.lo, y.lo) = x.lo /\ Max2(x.hi, y.hi) = x.hi
      BY <3>1, BoundedShape DEF Min2, Max2
    <3> QED BY <3>1, <3>2, <3>3, BoundedShape
  <2> QED BY <2>1, <2>2
<1> QED BY <1>1, RangeBounds

-----------------------------------------------------------------------------
(* Interval arithmetic *)

(* A product lies between the products at the ends.                         *)
LEMMA BetweenEnds ==
  ASSUME NEW l \in Int, NEW h \in Int, NEW a \in l..h, NEW b \in Int
  PROVE  /\ a * b \in Int /\ l * b \in Int /\ h * b \in Int
         /\ \/ l * b <= a * b /\ a * b <= h * b
            \/ h * b <= a * b /\ a * b <= l * b
<1>1. a * b \in Int /\ l * b \in Int /\ h * b \in Int /\ a \in Int
  OBVIOUS
<1>2. a * b - l * b = (a - l) * b /\ h * b - a * b = (h - a) * b
  BY <1>1
<1>3. a - l \in Nat /\ h - a \in Nat
  OBVIOUS
<1>4. CASE b >= 0
  <2>1. (a - l) * b >= 0 /\ (h - a) * b >= 0
    BY <1>3, <1>4
  <2> QED BY <2>1, <1>1, <1>2
<1>5. CASE b < 0
  <2>1. (a - l) * b <= 0 /\ (h - a) * b <= 0
    BY <1>3, <1>5
  <2> QED BY <2>1, <1>1, <1>2
<1> QED BY <1>4, <1>5

LEMMA Extremes ==
  ASSUME NEW p, NEW q, NEW r, NEW s, {p, q, r, s} \subseteq Int
  PROVE  /\ \E m \in {p, q, r, s} : \A n \in {p, q, r, s} : m <= n
         /\ \E m \in {p, q, r, s} : \A n \in {p, q, r, s} : m >= n
<1>1. p \in Int /\ q \in Int /\ r \in Int /\ s \in Int
  OBVIOUS
<1>2. \E m \in {p, q, r, s} : m <= p /\ m <= q /\ m <= r /\ m <= s
  BY <1>1
<1>3. \E m \in {p, q, r, s} : m >= p /\ m >= q /\ m >= r /\ m >= s
  BY <1>1
<1> QED BY <1>2, <1>3

IsRange(x) == x.lo \in Int /\ x.hi \in Int /\ x.lo <= x.hi

(* What the exact operation makes of members lies in the exact interval.     *)
LEMMA ExactCovers ==
  ASSUME NEW kind \in Arith, NEW x, NEW y, IsRange(x), IsRange(y)
  PROVE  /\ ExactRange(kind, x, y).lo \in Int /\ ExactRange(kind, x, y).hi \in Int
         /\ \A a \in x.lo..x.hi, b \in y.lo..y.hi :
              /\ Exact(kind, a, b) \in Int
              /\ ExactRange(kind, x, y).lo <= Exact(kind, a, b)
              /\ Exact(kind, a, b) <= ExactRange(kind, x, y).hi
         /\ \E a \in x.lo..x.hi, b \in y.lo..y.hi : ExactRange(kind, x, y).lo = Exact(kind, a, b)
         /\ \E a \in x.lo..x.hi, b \in y.lo..y.hi : ExactRange(kind, x, y).hi = Exact(kind, a, b)
<1>0. /\ x.lo \in Int /\ x.hi \in Int /\ x.lo <= x.hi /\ y.lo \in Int /\ y.hi \in Int /\ y.lo <= y.hi
      /\ x.lo \in x.lo..x.hi /\ x.hi \in x.lo..x.hi /\ y.lo \in y.lo..y.hi /\ y.hi \in y.lo..y.hi
  BY DEF IsRange
<1>1. CASE kind = "add"
  <2>1. /\ ExactRange(kind, x, y) = [lo |-> x.lo + y.lo, hi |-> x.hi + y.hi]
        /\ \A a, b : Exact(kind, a, b) = a + b
    BY <1>1 DEF ExactRange, Exact
  <2> QED BY <1>0, <2>1
<1>2. CASE kind = "sub"
  <2>1. /\ ExactRange(kind, x, y) = [lo |-> x.lo - y.hi, hi |-> x.hi - y.lo]
        /\ \A a, b : Exact(kind, a, b) = a - b
    BY <1>2 DEF ExactRange, Exact
  <2> QED BY <1>0, <2>1
<1>3. CASE kind = "mul"
  <2> DEFINE P == {x.lo * y.lo, x.lo * y.hi, x.hi * y.lo, x.hi * y.hi}
             lo == CHOOSE m \in P : \A q \in P : m <= q
             hi == CHOOSE m \in P : \A q \in P : m >= q
  <2>1. /\ ExactRange(kind, x, y) = [lo |-> lo, hi |-> hi]
        /\ \A a, b : Exact(kind, a, b) = a * b
    BY <1>3 DEF ExactRange, Exact, CornerProducts
  <2>2. P \subseteq Int
    BY <1>0
  <2>3. /\ lo \in P /\ hi \in P
        /\ \A q \in P : lo <= q /\ q <= hi
    <3>1. \E m \in P : \A q \in P : m <= q
      BY <2>2, Extremes
    <3>2. \E m \in P : \A q \in P : m >= q
      BY <2>2, Extremes
    <3>3. lo \in P /\ \A q \in P : lo <= q
      BY <3>1
    <3>4. hi \in P /\ \A q \in P : hi >= q
      BY <3>2
    <3> HIDE DEF lo, hi, P
    <3> QED BY <2>2, <3>3, <3>4
  <2>4. \A m \in P : \E a \in x.lo..x.hi, b \in y.lo..y.hi : m = a * b
    BY <1>0
  <2>5. ASSUME NEW a \in x.lo..x.hi, NEW b \in y.lo..y.hi PROVE a * b \in Int /\ lo <= a * b /\ a * b <= hi
    <3>1. a \in Int /\ b \in Int
      BY <1>0
    <3>2. /\ a * b \in Int /\ x.lo * b \in Int /\ x.hi * b \in Int
          /\ \/ x.lo * b <= a * b /\ a * b <= x.hi * b
             \/ x.hi * b <= a * b /\ a * b <= x.lo * b
      BY <1>0, <3>1, BetweenEnds
    <3>3. ASSUME NEW e \in {x.lo, x.hi} PROVE lo <= e * b /\ e * b <= hi
      <4>1. e \in Int /\ y.lo * e = e * y.lo /\ y.hi * e = e * y.hi /\ b * e = e * b
        BY <1>0, <3>1
      <4>2. /\ e * b \in Int /\ e * y.lo \in Int /\ e * y.hi \in Int
            /\ \/ e * y.lo <= e * b /\ e * b <= e * y.hi
               \/ e * y.hi <= e * b /\ e * b <= e * y.lo
        BY <1>0, <4>1, BetweenEnds
      <4>3. e * y.lo \in P /\ e * y.hi \in P
        BY <3>3
      <4> HIDE DEF lo, hi, P
      <4>4. lo \in Int /\ hi \in Int /\ lo <= e * y.lo /\ lo <= e * y.hi /\ e * y.lo <= hi /\ e * y.hi <= hi
        BY <2>2, <2>3, <4>3
      <4> QED BY <4>2, <4>4
    <3>4. lo \in Int /\ hi \in Int
      <4> HIDE DEF lo, hi, P
      <4> QED BY <2>2, <2>3
    <3> HIDE DEF lo, hi
    <3> QED BY <3>2, <3>3, <3>4
  <2> HIDE DEF lo, hi, P
  <2> QED BY <2>1, <2>2, <2>3, <2>4, <2>5
<1> QED BY <1>1, <1>2, <1>3 DEF Arith

LEMMA UnsignedCovers ==
  ASSUME NEW x \in Bounded
  PROVE  /\ IsRange(ToUnsigned(x)) /\ 0 <= ToUnsigned(x).lo /\ ToUnsigned(x).hi <= 2^x.width - 1
         /\ \A c \in RangeGamma(x) : c.bits \in ToUnsigned(x).lo..ToUnsigned(x).hi
<1> DEFINE m == 2^x.width
           h == 2^(x.width - 1)
<1>1. /\ m = 2 * h /\ h \in Nat \ {0} /\ -h <= x.lo /\ x.hi <= h - 1
      /\ x.lo \in Int /\ x.hi \in Int /\ x.lo <= x.hi
  BY BoundedShape, Halves
<1>2. ToUnsigned(x) = IF x.lo >= 0 THEN [lo |-> x.lo, hi |-> x.hi]
                      ELSE IF x.hi < 0 THEN [lo |-> x.lo + m, hi |-> x.hi + m] ELSE [lo |-> 0, hi |-> m - 1]
  BY DEF ToUnsigned
<1>3. ASSUME NEW c \in RangeGamma(x)
      PROVE  /\ Signed(c) \in Int /\ x.lo <= Signed(c) /\ Signed(c) <= x.hi
             /\ c.bits = IF Signed(c) < 0 THEN Signed(c) + m ELSE Signed(c)
  <2>1. c \in IntOf(x.width) /\ x.lo <= Signed(c) /\ Signed(c) <= x.hi /\ x.width \in Width
    BY <1>3, BoundedMeaning, BoundedShape
  <2> QED BY <2>1, SignedRange, Halves
<1> HIDE DEF m, h
<1>4. IsRange(ToUnsigned(x)) /\ 0 <= ToUnsigned(x).lo /\ ToUnsigned(x).hi <= m - 1
  BY <1>1, <1>2 DEF IsRange
<1>5. ASSUME NEW c \in RangeGamma(x) PROVE c.bits \in ToUnsigned(x).lo..ToUnsigned(x).hi
  BY <1>1, <1>2, <1>3
<1> QED BY <1>4, <1>5 DEF m

LEMMA UnsignedMonotone ==
  ASSUME NEW x \in Bounded, NEW y \in Bounded, x.width = y.width, y.lo <= x.lo, x.hi <= y.hi
  PROVE  ToUnsigned(y).lo <= ToUnsigned(x).lo /\ ToUnsigned(x).hi <= ToUnsigned(y).hi
<1> DEFINE m == 2^x.width
           h == 2^(x.width - 1)
<1>1. /\ m = 2 * h /\ h \in Nat \ {0} /\ -h <= y.lo /\ y.hi <= h - 1
      /\ x.lo \in Int /\ x.hi \in Int /\ x.lo <= x.hi /\ y.lo \in Int /\ y.hi \in Int
  BY BoundedShape, Halves
<1>2. \A z \in {x, y} : ToUnsigned(z) = IF z.lo >= 0 THEN [lo |-> z.lo, hi |-> z.hi]
                      ELSE IF z.hi < 0 THEN [lo |-> z.lo + m, hi |-> z.hi + m] ELSE [lo |-> 0, hi |-> m - 1]
  BY DEF ToUnsigned
<1> HIDE DEF m, h
<1>3. /\ ToUnsigned(x) = IF x.lo >= 0 THEN [lo |-> x.lo, hi |-> x.hi]
                         ELSE IF x.hi < 0 THEN [lo |-> x.lo + m, hi |-> x.hi + m] ELSE [lo |-> 0, hi |-> m - 1]
      /\ ToUnsigned(y) = IF y.lo >= 0 THEN [lo |-> y.lo, hi |-> y.hi]
                         ELSE IF y.hi < 0 THEN [lo |-> y.lo + m, hi |-> y.hi + m] ELSE [lo |-> 0, hi |-> m - 1]
  BY <1>2
<1> QED BY <1>1, <1>3

(* What RangeArith decides by: whether the exact intervals fit.             *)
SignedFits(op, x, y) ==
  /\ IntMin(op.width) <= ExactRange(op.kind, x, y).lo
  /\ ExactRange(op.kind, x, y).hi <= IntMax(op.width)
UnsignedFits(op, x, y) ==
  /\ 0 <= ExactRange(op.kind, ToUnsigned(x), ToUnsigned(y)).lo
  /\ ExactRange(op.kind, ToUnsigned(x), ToUnsigned(y)).hi <= 2^op.width - 1

LEMMA ArithCases ==
  ASSUME NEW op, NEW x, NEW y
  PROVE  RangeArith(op, x, y) =
           IF \/ x.width # op.width \/ y.width # op.width
              \/ "nsw" \in op.flags /\ ~SignedFits(op, x, y)
              \/ "nuw" \in op.flags /\ ~UnsignedFits(op, x, y)
           THEN RangeTop
           ELSE IF SignedFits(op, x, y)
                THEN Interval(op.width, ExactRange(op.kind, x, y).lo, ExactRange(op.kind, x, y).hi)
                ELSE Full(op.width)
BY DEF RangeArith, SignedFits, UnsignedFits

LEMMA BoundedRange ==
  ASSUME NEW x \in Bounded
  PROVE  /\ IsRange(x)
         /\ \A c \in RangeGamma(x) : /\ c \in IntOf(x.width) /\ Signed(c) \in x.lo..x.hi
                                      /\ c.width = x.width /\ c.bits \in Int /\ c # Poison
<1>1. ASSUME NEW c \in RangeGamma(x)
      PROVE  c \in IntOf(x.width) /\ Signed(c) \in x.lo..x.hi /\ c.width = x.width /\ c.bits \in Int
  <2>1. c \in IntOf(x.width) /\ x.lo <= Signed(c) /\ Signed(c) <= x.hi /\ x.width \in Width
    BY <1>1, BoundedMeaning, BoundedShape
  <2>2. Signed(c) \in Int /\ c.width = x.width /\ c.bits \in Int
    BY <2>1, SignedRange, Halves
  <2> QED BY <2>1, <2>2, BoundedShape
<1> QED BY <1>1, BoundedShape, BoundedMeaning DEF IsRange

LEMMA ArithCovers ==
  ASSUME NEW op, op.kind \in Arith, op.width \in Width, NEW x \in Bounded, NEW y \in Bounded,
         NEW a \in RangeGamma(x), NEW b \in RangeGamma(y), a.width = op.width, b.width = op.width
  PROVE  EvalArith(op, a, b) \in RangeGamma(RangeArith(op, x, y))
<1> DEFINE w == op.width
           s == Exact(op.kind, Signed(a), Signed(b))
           u == Exact(op.kind, a.bits, b.bits)
           S == ExactRange(op.kind, x, y)
           U == ExactRange(op.kind, ToUnsigned(x), ToUnsigned(y))
<1>1. s \in Int /\ S.lo \in Int /\ S.hi \in Int /\ S.lo <= s /\ s <= S.hi
  BY BoundedRange, ExactCovers
<1>2. u \in Int /\ U.lo \in Int /\ U.hi \in Int /\ U.lo <= u /\ u <= U.hi
  BY UnsignedCovers, ExactCovers
<1>3. EvalArith(op, a, b) =
        IF \/ "nsw" \in op.flags /\ s \notin IntMin(w)..IntMax(w)
           \/ "nuw" \in op.flags /\ u \notin Pattern(w)
        THEN Poison ELSE Sem(w, s)
  BY DEF EvalArith
<1>4. x.width = w /\ y.width = w
  BY BoundedRange
<1>5. Sem(w, s) \in IntOf(w) /\ Sem(w, s) \in SemValue
  BY <1>1, SemTyped
<1> HIDE DEF s, u
<1>6. CASE RangeArith(op, x, y) = RangeTop
  BY <1>3, <1>5, <1>6, RangeKinds DEF SemValue
<1>7. CASE RangeArith(op, x, y) # RangeTop
  <2>1. /\ "nsw" \in op.flags => SignedFits(op, x, y)
        /\ "nuw" \in op.flags => UnsignedFits(op, x, y)
        /\ RangeArith(op, x, y) = IF SignedFits(op, x, y) THEN Interval(w, S.lo, S.hi) ELSE Full(w)
    BY <1>4, <1>7, ArithCases
  <2>2. SignedFits(op, x, y) => s \in IntMin(w)..IntMax(w)
    <3> DEFINE p == IntMin(w)
               q == IntMax(w)
    <3>1. p \in Int /\ q \in Int /\ (SignedFits(op, x, y) <=> p <= S.lo /\ S.hi <= q)
      BY Halves DEF SignedFits
    <3> HIDE DEF p, q, S
    <3>2. SignedFits(op, x, y) => s \in p..q
      BY <1>1, <3>1
    <3> QED BY <3>2 DEF p, q
  <2>3. UnsignedFits(op, x, y) => u \in Pattern(w)
    <3> DEFINE m == 2^w
    <3>1. m \in Int /\ Pattern(w) = 0..(m - 1) /\ (UnsignedFits(op, x, y) <=> 0 <= U.lo /\ U.hi <= m - 1)
      BY Halves DEF UnsignedFits, Pattern
    <3> HIDE DEF m, U
    <3> QED BY <1>2, <3>1
  <2>4. EvalArith(op, a, b) = Sem(w, s)
    BY <1>3, <2>1, <2>2, <2>3
  <2>5. CASE SignedFits(op, x, y)
    <3>1. Signed(Sem(w, s)) = s
      BY <2>2, <2>5, SignedSem
    <3>2. Sem(w, s) \in RangeGamma(Interval(w, S.lo, S.hi))
      <4> HIDE DEF S
      <4> QED BY <1>1, <1>5, <3>1, IntervalMeaning
    <3> QED BY <2>1, <2>4, <2>5, <3>2
  <2>6. CASE ~SignedFits(op, x, y)
    BY <1>5, <2>1, <2>4, <2>6, FullMeaning
  <2> QED BY <2>5, <2>6
<1> QED BY <1>6, <1>7

LEMMA IntervalExact ==
  ASSUME NEW w \in Width, NEW l \in Int, NEW h \in Int, IntMin(w) <= l, l <= h, h <= IntMax(w)
  PROVE  Interval(w, l, h) = [width |-> w, lo |-> l, hi |-> h] /\ Interval(w, l, h) \in Bounded
<1>1. Interval(w, l, h) = [width |-> w, lo |-> l, hi |-> h]
  BY Halves DEF Interval, Max2, Min2
<1> QED BY <1>1, BoundedRecord

LEMMA ExactWithin ==
  ASSUME NEW kind \in Arith, NEW x, NEW y, NEW x2, NEW y2, IsRange(x), IsRange(y), IsRange(x2), IsRange(y2),
         x2.lo <= x.lo, x.hi <= x2.hi, y2.lo <= y.lo, y.hi <= y2.hi
  PROVE  /\ ExactRange(kind, x2, y2).lo <= ExactRange(kind, x, y).lo
         /\ ExactRange(kind, x, y).hi <= ExactRange(kind, x2, y2).hi
         /\ ExactRange(kind, x, y).lo <= ExactRange(kind, x, y).hi
<1>1. x.lo..x.hi \subseteq x2.lo..x2.hi /\ y.lo..y.hi \subseteq y2.lo..y2.hi
  BY DEF IsRange
<1>2. x.lo \in x.lo..x.hi /\ y.lo \in y.lo..y.hi
  BY DEF IsRange
<1>3. /\ \E a \in x.lo..x.hi, b \in y.lo..y.hi : ExactRange(kind, x, y).lo = Exact(kind, a, b)
      /\ \E a \in x.lo..x.hi, b \in y.lo..y.hi : ExactRange(kind, x, y).hi = Exact(kind, a, b)
  BY ExactCovers
<1>4. /\ ExactRange(kind, x, y).lo \in Int /\ ExactRange(kind, x, y).hi \in Int
      /\ \A a \in x.lo..x.hi, b \in y.lo..y.hi :
              /\ Exact(kind, a, b) \in Int
              /\ ExactRange(kind, x, y).lo <= Exact(kind, a, b)
              /\ Exact(kind, a, b) <= ExactRange(kind, x, y).hi
  BY ExactCovers
<1>5. \A a \in x2.lo..x2.hi, b \in y2.lo..y2.hi :
              /\ ExactRange(kind, x2, y2).lo <= Exact(kind, a, b)
              /\ Exact(kind, a, b) <= ExactRange(kind, x2, y2).hi
  BY ExactCovers
<1> QED BY <1>1, <1>2, <1>3, <1>4, <1>5

LEMMA ArithElement ==
  ASSUME NEW op, op.kind \in Arith, op.width \in Width, NEW x \in Bounded, NEW y \in Bounded
  PROVE  RangeArith(op, x, y) \in RangeElem
<1>1. ExactRange(op.kind, x, y).lo \in Int /\ ExactRange(op.kind, x, y).hi \in Int
  BY BoundedRange, ExactCovers
<1> QED BY <1>1, ArithCases, IntervalMeaning, FullMeaning, RangeKinds

LEMMA ArithMonotone ==
  ASSUME NEW op, op.kind \in Arith, op.width \in Width,
         NEW x \in Bounded, NEW y \in Bounded, NEW x2 \in Bounded, NEW y2 \in Bounded,
         RangeLeq(x, x2), RangeLeq(y, y2)
  PROVE  RangeLeq(RangeArith(op, x, y), RangeArith(op, x2, y2))
<1> DEFINE w == op.width
           S == ExactRange(op.kind, x, y)
           S2 == ExactRange(op.kind, x2, y2)
           U == ExactRange(op.kind, ToUnsigned(x), ToUnsigned(y))
           U2 == ExactRange(op.kind, ToUnsigned(x2), ToUnsigned(y2))
<1>1. /\ x.width = x2.width /\ x2.lo <= x.lo /\ x.hi <= x2.hi
      /\ y.width = y2.width /\ y2.lo <= y.lo /\ y.hi <= y2.hi
  BY BoundedLeq
<1>2. S2.lo <= S.lo /\ S.hi <= S2.hi /\ S.lo <= S.hi
  BY <1>1, BoundedRange, ExactWithin
<1>3. /\ S.lo \in Int /\ S.hi \in Int /\ S2.lo \in Int /\ S2.hi \in Int
      /\ U.lo \in Int /\ U.hi \in Int /\ U2.lo \in Int /\ U2.hi \in Int
  BY BoundedRange, UnsignedCovers, ExactCovers
<1>4. U2.lo <= U.lo /\ U.hi <= U2.hi
  BY <1>1, UnsignedMonotone, UnsignedCovers, ExactWithin
<1>5. SignedFits(op, x2, y2) => SignedFits(op, x, y)
  <2> DEFINE p == IntMin(w)
             q == IntMax(w)
  <2>1. /\ p \in Int /\ q \in Int
        /\ SignedFits(op, x, y) <=> p <= S.lo /\ S.hi <= q
        /\ SignedFits(op, x2, y2) <=> p <= S2.lo /\ S2.hi <= q
    BY Halves DEF SignedFits
  <2> HIDE DEF p, q, S, S2
  <2> QED BY <1>2, <1>3, <2>1
<1>6. UnsignedFits(op, x2, y2) => UnsignedFits(op, x, y)
  <2> DEFINE m == 2^w
  <2>1. /\ m \in Int
        /\ UnsignedFits(op, x, y) <=> 0 <= U.lo /\ U.hi <= m - 1
        /\ UnsignedFits(op, x2, y2) <=> 0 <= U2.lo /\ U2.hi <= m - 1
    BY Halves DEF UnsignedFits
  <2> HIDE DEF m, U, U2
  <2> QED BY <1>3, <1>4, <2>1
<1>7. CASE RangeArith(op, x2, y2) = RangeTop
  BY <1>7, ArithElement, RangeOrder
<1>8. CASE RangeArith(op, x2, y2) # RangeTop
  <2>1. /\ x2.width = w /\ y2.width = w
        /\ "nsw" \in op.flags => SignedFits(op, x2, y2)
        /\ "nuw" \in op.flags => UnsignedFits(op, x2, y2)
        /\ RangeArith(op, x2, y2) = IF SignedFits(op, x2, y2) THEN Interval(w, S2.lo, S2.hi) ELSE Full(w)
    BY <1>8, ArithCases
  <2>2. RangeArith(op, x, y) = IF SignedFits(op, x, y) THEN Interval(w, S.lo, S.hi) ELSE Full(w)
    BY <1>1, <1>5, <1>6, <2>1, ArithCases
  <2>3. SignedFits(op, x, y) =>
          /\ Interval(w, S.lo, S.hi) = [width |-> w, lo |-> S.lo, hi |-> S.hi]
          /\ Interval(w, S.lo, S.hi) \in Bounded
          /\ IntMin(w) <= S.lo /\ S.hi <= IntMax(w)
    BY <1>2, <1>3, IntervalExact DEF SignedFits
  <2>4. SignedFits(op, x2, y2) =>
          /\ Interval(w, S2.lo, S2.hi) = [width |-> w, lo |-> S2.lo, hi |-> S2.hi]
          /\ Interval(w, S2.lo, S2.hi) \in Bounded
    <3>1. S2.lo <= S2.hi
      <4> HIDE DEF S, S2
      <4> QED BY <1>2, <1>3
    <3> QED BY <1>3, <3>1, IntervalExact DEF SignedFits
  <2>5. /\ Full(w) = [width |-> w, lo |-> IntMin(w), hi |-> IntMax(w)]
        /\ Full(w) \in Bounded
    BY FullMeaning
  <2>6. IntMin(w) <= IntMin(w) /\ IntMax(w) <= IntMax(w)
    BY Halves
  <2> HIDE DEF S, S2
  <2>7. CASE SignedFits(op, x2, y2)
    BY <1>2, <1>5, <2>1, <2>2, <2>3, <2>4, <2>7, BoundedLeq
  <2>8. CASE ~SignedFits(op, x2, y2)
    BY <2>1, <2>2, <2>3, <2>5, <2>6, <2>8, BoundedLeq
  <2> QED BY <2>7, <2>8
<1> QED BY <1>7, <1>8

LEMMA IntervalMonotone ==
  ASSUME NEW w \in Width, NEW l \in Int, NEW h \in Int, NEW l2 \in Int, NEW h2 \in Int, l2 <= l, h <= h2
  PROVE  RangeLeq(Interval(w, l, h), Interval(w, l2, h2))
<1>1. /\ Interval(w, l, h) \in Bounded \union {RangeBottom}
      /\ Interval(w, l2, h2) \in Bounded \union {RangeBottom}
  BY IntervalMeaning
<1> DEFINE p == IntMin(w)
           q == IntMax(w)
<1>2. p \in Int /\ q \in Int
  BY Halves
<1>3. /\ Interval(w, l, h) = IF Max2(l, p) > Min2(h, q) THEN RangeBottom
                             ELSE [width |-> w, lo |-> Max2(l, p), hi |-> Min2(h, q)]
      /\ Interval(w, l2, h2) = IF Max2(l2, p) > Min2(h2, q) THEN RangeBottom
                               ELSE [width |-> w, lo |-> Max2(l2, p), hi |-> Min2(h2, q)]
  BY DEF Interval
<1> HIDE DEF p, q
<1>4. /\ Max2(l2, p) <= Max2(l, p) /\ Min2(h, q) <= Min2(h2, q)
      /\ Max2(l2, p) \in Int /\ Max2(l, p) \in Int /\ Min2(h, q) \in Int /\ Min2(h2, q) \in Int
  BY <1>2 DEF Max2, Min2
<1>5. CASE Max2(l, p) > Min2(h, q)
  BY <1>1, <1>3, <1>5, RangeOrder, RangeKinds
<1>6. CASE ~(Max2(l, p) > Min2(h, q))
  <2>1. ~(Max2(l2, p) > Min2(h2, q))
    BY <1>4, <1>6
  <2>2. /\ Interval(w, l, h) = [width |-> w, lo |-> Max2(l, p), hi |-> Min2(h, q)]
        /\ Interval(w, l2, h2) = [width |-> w, lo |-> Max2(l2, p), hi |-> Min2(h2, q)]
    BY <1>3, <1>6, <2>1
  <2>3. /\ [width |-> w, lo |-> Max2(l, p), hi |-> Min2(h, q)] # RangeBottom
        /\ [width |-> w, lo |-> Max2(l2, p), hi |-> Min2(h2, q)] # RangeBottom
    <3>1. \A a, b \in Int : [width |-> w, lo |-> a, hi |-> b] \in [width : Nat, lo : Int, hi : Int]
      BY Halves
    <3> QED BY <1>4, <3>1, RangeAssumption
  <2>4. Interval(w, l, h) \in Bounded /\ Interval(w, l2, h2) \in Bounded
    BY <1>1, <2>2, <2>3
  <2> QED BY <1>4, <2>2, <2>4, BoundedLeq
<1> QED BY <1>5, <1>6

-----------------------------------------------------------------------------
(* Comparisons of intervals *)

LEMMA Decides ==
  ASSUME NEW P \in BOOLEAN, NEW A, P => TRUE \in A, ~P => FALSE \in A
  PROVE  P \in A
<1>1. CASE P
  BY <1>1, P = TRUE, Zenon
<1>2. CASE ~P
  BY <1>2, P = FALSE, Zenon
<1> QED BY <1>1, <1>2

LEMMA BooleansWithin ==
  ASSUME NEW A \in SUBSET BOOLEAN, NEW B, TRUE \in A => TRUE \in B, FALSE \in A => FALSE \in B
  PROVE  A \subseteq B
<1>1. ASSUME NEW b \in A PROVE b \in B
  <2>1. b = TRUE \/ b = FALSE
    BY <1>1
  <2>2. CASE b = TRUE
    BY <1>1, <2>2, Zenon
  <2>3. CASE b = FALSE
    BY <1>1, <2>3, Zenon
  <2> QED BY <2>1, <2>2, <2>3
<1> QED BY <1>1

LEMMA BooleanCovers ==
  ASSUME 1 \in Width, NEW answers \in SUBSET BOOLEAN
  PROVE  /\ BooleanRange(answers) \in Bounded \union {RangeBottom}
         /\ \A b \in answers : Truth(b) \in RangeGamma(BooleanRange(answers))
         /\ \A more \in SUBSET BOOLEAN :
              answers \subseteq more => RangeLeq(BooleanRange(answers), BooleanRange(more))
<1> DEFINE Lo(A) == IF TRUE \in A THEN -1 ELSE 0
           Hi(A) == IF FALSE \in A THEN 0 ELSE -1
<1>1. \A A : BooleanRange(A) = Interval(1, Lo(A), Hi(A)) /\ Lo(A) \in Int /\ Hi(A) \in Int
  BY DEF BooleanRange
<1>2. 2^1 = 2 /\ 2^(1 - 1) = 1
  OBVIOUS
<1>3. IntMin(1) = -1 /\ IntMax(1) = 0
  BY <1>2 DEF IntMin, IntMax
<1>4. /\ Truth(TRUE) = Sem(1, 1) /\ Truth(FALSE) = Sem(1, 0)
      /\ Sem(1, 1) = Sem(1, -1)
  <2>1. 1 % 2 = 1 /\ (-1) % 2 = 1
    <3>1. (2 * 0 + 1) % 2 = 1 /\ (2 * (-1) + 1) % 2 = 1
      BY RemainderOf, 2 \in Nat \ {0}, 0 \in Int, -1 \in Int, 1 \in 0..(2 - 1)
    <3>2. 2 * 0 + 1 = 1 /\ 2 * (-1) + 1 = -1
      OBVIOUS
    <3> QED BY <3>1, <3>2
  <2> QED BY <1>2, <2>1 DEF Truth, Sem
<1>5. Signed(Sem(1, -1)) = -1 /\ Signed(Sem(1, 0)) = 0
  <2>1. -1 \in IntMin(1)..IntMax(1) /\ 0 \in IntMin(1)..IntMax(1)
    BY <1>3
  <2> QED BY <2>1, SignedSem
<1>6. Sem(1, -1) \in IntOf(1) /\ Sem(1, 0) \in IntOf(1)
  BY SemTyped
<1>7. ASSUME NEW b \in answers PROVE Truth(b) \in RangeGamma(BooleanRange(answers))
  <2>1. CASE b = TRUE
    <3>1. Lo(answers) = -1 /\ Hi(answers) \in {0, -1}
      BY <1>7, <2>1, Zenon
    <3>2. Truth(b) = Sem(1, -1)
      BY <1>4, <2>1, Zenon
    <3> HIDE DEF Lo, Hi
    <3> QED BY <1>1, <1>5, <1>6, <3>1, <3>2, IntervalMeaning
  <2>2. CASE b = FALSE
    <3>1. Lo(answers) \in {0, -1} /\ Hi(answers) = 0
      BY <1>7, <2>2, Zenon
    <3>2. Truth(b) = Sem(1, 0)
      BY <1>4, <2>2, Zenon
    <3> HIDE DEF Lo, Hi
    <3> QED BY <1>1, <1>5, <1>6, <3>1, <3>2, IntervalMeaning
  <2> QED BY <2>1, <2>2, Zenon
<1>8. ASSUME NEW more \in SUBSET BOOLEAN, answers \subseteq more
      PROVE  RangeLeq(BooleanRange(answers), BooleanRange(more))
  <2>1. /\ Lo(answers) = -1 => Lo(more) = -1
        /\ Hi(answers) = 0 => Hi(more) = 0
        /\ Lo(more) \in {0, -1} /\ Hi(more) \in {0, -1}
        /\ Lo(answers) \in {0, -1} /\ Hi(answers) \in {0, -1}
    <3>1. (TRUE \in answers => TRUE \in more) /\ (FALSE \in answers => FALSE \in more)
      BY <1>8, Zenon
    <3>2. /\ TRUE \in answers => Lo(answers) = -1 /\ Lo(more) = -1
          /\ TRUE \notin answers => Lo(answers) = 0
          /\ FALSE \in answers => Hi(answers) = 0 /\ Hi(more) = 0
          /\ FALSE \notin answers => Hi(answers) = -1
          /\ Lo(more) = -1 \/ Lo(more) = 0
          /\ Hi(more) = -1 \/ Hi(more) = 0
      BY <3>1, Zenon
    <3> DEFINE lo == Lo(answers)
               hi == Hi(answers)
               lo2 == Lo(more)
               hi2 == Hi(more)
    <3>3. /\ lo = 0 \/ (lo = -1 /\ lo2 = -1)
          /\ hi = -1 \/ (hi = 0 /\ hi2 = 0)
          /\ lo2 = -1 \/ lo2 = 0
          /\ hi2 = -1 \/ hi2 = 0
      BY <3>2, Zenon
    <3> HIDE DEF lo, hi, lo2, hi2
    <3>4. /\ lo = -1 => lo2 = -1
          /\ hi = 0 => hi2 = 0
          /\ lo2 \in {0, -1} /\ hi2 \in {0, -1} /\ lo \in {0, -1} /\ hi \in {0, -1}
      BY <3>3
    <3> QED BY <3>4 DEF lo, hi, lo2, hi2
  <2> HIDE DEF Lo, Hi
  <2>2. Lo(more) <= Lo(answers) /\ Hi(answers) <= Hi(more)
    BY <2>1
  <2> QED BY <1>1, <2>2, IntervalMonotone
<1>9. BooleanRange(answers) \in Bounded \union {RangeBottom}
  BY <1>1, IntervalMeaning
<1> QED BY <1>7, <1>8, <1>9

LEMMA MayMembers ==
  ASSUME NEW x, NEW y
  PROVE  /\ MayLt(x, y) \subseteq BOOLEAN /\ MayLe(x, y) \subseteq BOOLEAN /\ MayEq(x, y) \subseteq BOOLEAN
         /\ TRUE \in MayLt(x, y) <=> x.lo < y.hi
         /\ FALSE \in MayLt(x, y) <=> x.hi >= y.lo
         /\ TRUE \in MayLe(x, y) <=> x.lo <= y.hi
         /\ FALSE \in MayLe(x, y) <=> x.hi > y.lo
         /\ TRUE \in MayEq(x, y) <=> \/ x.lo = x.hi /\ y.lo = y.hi /\ x.lo = y.lo
                                     \/ ~(x.hi < y.lo \/ y.hi < x.lo)
         /\ FALSE \in MayEq(x, y) <=> ~(x.lo = x.hi /\ y.lo = y.hi /\ x.lo = y.lo)
<1>1. MayLt(x, y) \subseteq BOOLEAN /\ MayLe(x, y) \subseteq BOOLEAN /\ MayEq(x, y) \subseteq BOOLEAN
  BY Zenon DEF MayLt, MayLe, MayEq
<1>2. /\ TRUE \in MayLt(x, y) <=> x.lo < y.hi
      /\ FALSE \in MayLt(x, y) <=> x.hi >= y.lo
  BY Zenon DEF MayLt
<1>3. /\ TRUE \in MayLe(x, y) <=> x.lo <= y.hi
      /\ FALSE \in MayLe(x, y) <=> x.hi > y.lo
  BY Zenon DEF MayLe
<1>4. /\ TRUE \in MayEq(x, y) <=> \/ x.lo = x.hi /\ y.lo = y.hi /\ x.lo = y.lo
                                  \/ ~(x.hi < y.lo \/ y.hi < x.lo)
      /\ FALSE \in MayEq(x, y) <=> ~(x.lo = x.hi /\ y.lo = y.hi /\ x.lo = y.lo)
  BY Zenon DEF MayEq
<1> QED BY <1>1, <1>2, <1>3, <1>4

LEMMA MayCover ==
  ASSUME NEW x, NEW y, IsRange(x), IsRange(y), NEW a \in x.lo..x.hi, NEW b \in y.lo..y.hi
  PROVE  (a < b) \in MayLt(x, y) /\ (a <= b) \in MayLe(x, y) /\ (a = b) \in MayEq(x, y)
<1>1. /\ x.lo \in Int /\ x.hi \in Int /\ y.lo \in Int /\ y.hi \in Int /\ a \in Int /\ b \in Int
      /\ x.lo <= a /\ a <= x.hi /\ y.lo <= b /\ b <= y.hi
  BY DEF IsRange
<1>2. /\ a < b => x.lo < y.hi
      /\ ~(a < b) => x.hi >= y.lo
      /\ a <= b => x.lo <= y.hi
      /\ ~(a <= b) => x.hi > y.lo
      /\ a = b => ~(x.hi < y.lo \/ y.hi < x.lo)
      /\ a # b => ~(x.lo = x.hi /\ y.lo = y.hi /\ x.lo = y.lo)
      /\ (a < b) \in BOOLEAN /\ (a <= b) \in BOOLEAN /\ (a = b) \in BOOLEAN
  BY <1>1
<1>3. /\ a < b => TRUE \in MayLt(x, y)
      /\ ~(a < b) => FALSE \in MayLt(x, y)
      /\ a <= b => TRUE \in MayLe(x, y)
      /\ ~(a <= b) => FALSE \in MayLe(x, y)
      /\ a = b => TRUE \in MayEq(x, y)
      /\ a # b => FALSE \in MayEq(x, y)
  BY <1>2, MayMembers, Zenon
<1>4. (a < b) \in MayLt(x, y)
  BY <1>2, <1>3, Decides, Zenon
<1>5. (a <= b) \in MayLe(x, y)
  BY <1>2, <1>3, Decides, Zenon
<1>6. (a = b) \in MayEq(x, y)
  BY <1>2, <1>3, Decides, Zenon
<1> QED BY <1>4, <1>5, <1>6

LEMMA MayWithin ==
  ASSUME NEW x, NEW y, NEW x2, NEW y2, IsRange(x), IsRange(y), IsRange(x2), IsRange(y2),
         x2.lo <= x.lo, x.hi <= x2.hi, y2.lo <= y.lo, y.hi <= y2.hi
  PROVE  /\ MayLt(x, y) \subseteq MayLt(x2, y2)
         /\ MayLe(x, y) \subseteq MayLe(x2, y2)
         /\ MayEq(x, y) \subseteq MayEq(x2, y2)
<1>1. /\ x.lo \in Int /\ x.hi \in Int /\ y.lo \in Int /\ y.hi \in Int /\ x.lo <= x.hi /\ y.lo <= y.hi
      /\ x2.lo \in Int /\ x2.hi \in Int /\ y2.lo \in Int /\ y2.hi \in Int
  BY DEF IsRange
<1>2. /\ x.lo < y.hi => x2.lo < y2.hi
      /\ x.hi >= y.lo => x2.hi >= y2.lo
      /\ x.lo <= y.hi => x2.lo <= y2.hi
      /\ x.hi > y.lo => x2.hi > y2.lo
      /\ x2.hi < y2.lo \/ y2.hi < x2.lo => x.hi < y.lo \/ y.hi < x.lo
      /\ x.lo = x.hi /\ y.lo = y.hi /\ x.lo = y.lo => ~(x2.hi < y2.lo \/ y2.hi < x2.lo)
      /\ x2.lo = x2.hi /\ y2.lo = y2.hi /\ x2.lo = y2.lo => x.lo = x.hi /\ y.lo = y.hi /\ x.lo = y.lo
  BY <1>1
<1>3. /\ MayLt(x, y) \subseteq BOOLEAN /\ MayLe(x, y) \subseteq BOOLEAN /\ MayEq(x, y) \subseteq BOOLEAN
      /\ TRUE \in MayLt(x, y) => TRUE \in MayLt(x2, y2)
      /\ FALSE \in MayLt(x, y) => FALSE \in MayLt(x2, y2)
      /\ TRUE \in MayLe(x, y) => TRUE \in MayLe(x2, y2)
      /\ FALSE \in MayLe(x, y) => FALSE \in MayLe(x2, y2)
      /\ TRUE \in MayEq(x, y) => TRUE \in MayEq(x2, y2)
      /\ FALSE \in MayEq(x, y) => FALSE \in MayEq(x2, y2)
  BY <1>2, MayMembers, Zenon
<1> QED BY <1>3, BooleansWithin, Zenon

LEMMA AnswersAreBooleans ==
  ASSUME NEW pred \in Compare, NEW x, NEW y
  PROVE  DecideIcmp(pred, x, y) \in SUBSET BOOLEAN
BY DEF DecideIcmp, Compare, MayLt, MayLe, MayEq

LEMMA AnswersCover ==
  ASSUME NEW pred \in Compare, NEW x \in Bounded, NEW y \in Bounded, x.width = y.width,
         NEW a \in RangeGamma(x), NEW b \in RangeGamma(y)
  PROVE  Compares(pred, a.width, a.bits, b.bits) \in DecideIcmp(pred, x, y)
<1> DEFINE ux == ToUnsigned(x)
           uy == ToUnsigned(y)
<1>1. /\ IsRange(x) /\ IsRange(y) /\ IsRange(ux) /\ IsRange(uy)
      /\ Signed(a) \in x.lo..x.hi /\ Signed(b) \in y.lo..y.hi
      /\ a.bits \in ux.lo..ux.hi /\ b.bits \in uy.lo..uy.hi
  BY BoundedRange, UnsignedCovers
<1>2. SignedBits(a.width, a.bits) = Signed(a) /\ SignedBits(a.width, b.bits) = Signed(b)
  BY BoundedRange DEF Signed
<1>3. (a.bits = b.bits) = (Signed(a) = Signed(b))
  <2>1. a \in IntOf(x.width) /\ b \in IntOf(x.width) /\ x.width \in Width
    BY BoundedRange, BoundedShape
  <2>2. a.bits = b.bits => Signed(a) = Signed(b)
    BY BoundedRange DEF Signed
  <2>3. Signed(a) = Signed(b) => a.bits = b.bits
    BY <2>1, SemSigned
  <2> QED BY <2>2, <2>3
<1>4. /\ (Signed(a) < Signed(b)) \in MayLt(x, y) /\ (Signed(b) < Signed(a)) \in MayLt(y, x)
      /\ (Signed(a) <= Signed(b)) \in MayLe(x, y) /\ (Signed(b) <= Signed(a)) \in MayLe(y, x)
      /\ (Signed(a) = Signed(b)) \in MayEq(x, y)
  BY <1>1, MayCover
<1>5. /\ (a.bits < b.bits) \in MayLt(ux, uy) /\ (b.bits < a.bits) \in MayLt(uy, ux)
      /\ (a.bits <= b.bits) \in MayLe(ux, uy) /\ (b.bits <= a.bits) \in MayLe(uy, ux)
  BY <1>1, MayCover
<1>6. /\ (Signed(a) > Signed(b)) = (Signed(b) < Signed(a)) /\ (Signed(a) >= Signed(b)) = (Signed(b) <= Signed(a))
      /\ (a.bits > b.bits) = (b.bits < a.bits) /\ (a.bits >= b.bits) = (b.bits <= a.bits)
  BY <1>1 DEF IsRange
<1> HIDE DEF ux, uy
<1>7. CASE pred \in {"eq", "ne"}
  <2>1. (a.bits # b.bits) = ~(Signed(a) = Signed(b))
    BY <1>3
  <2>2. CASE pred = "eq"
    BY <1>3, <1>4, <2>2 DEF Compares, DecideIcmp
  <2>3. CASE pred = "ne"
    <3>1. Compares(pred, a.width, a.bits, b.bits) = ~(Signed(a) = Signed(b))
      BY <2>1, <2>3 DEF Compares
    <3>2. DecideIcmp(pred, x, y) = {~c : c \in MayEq(x, y)}
      BY <2>3 DEF DecideIcmp
    <3> QED BY <1>4, <3>1, <3>2
  <2> QED BY <1>7, <2>2, <2>3
<1>8. CASE pred \in {"slt", "sle", "sgt", "sge"}
  <2>1. Compares(pred, a.width, a.bits, b.bits) =
          CASE pred = "slt" -> Signed(a) < Signed(b) [] pred = "sle" -> Signed(a) <= Signed(b)
            [] pred = "sgt" -> Signed(b) < Signed(a) [] pred = "sge" -> Signed(b) <= Signed(a)
    BY <1>2, <1>6, <1>8 DEF Compares
  <2>2. DecideIcmp(pred, x, y) =
          CASE pred = "slt" -> MayLt(x, y) [] pred = "sle" -> MayLe(x, y)
            [] pred = "sgt" -> MayLt(y, x) [] pred = "sge" -> MayLe(y, x)
    BY <1>8 DEF DecideIcmp
  <2> QED BY <1>4, <1>8, <2>1, <2>2
<1>9. CASE pred \in {"ult", "ule", "ugt", "uge"}
  <2>1. Compares(pred, a.width, a.bits, b.bits) =
          CASE pred = "ult" -> a.bits < b.bits [] pred = "ule" -> a.bits <= b.bits
            [] pred = "ugt" -> b.bits < a.bits [] pred = "uge" -> b.bits <= a.bits
    BY <1>6, <1>9 DEF Compares
  <2>2. DecideIcmp(pred, x, y) =
          CASE pred = "ult" -> MayLt(ux, uy) [] pred = "ule" -> MayLe(ux, uy)
            [] pred = "ugt" -> MayLt(uy, ux) [] pred = "uge" -> MayLe(uy, ux)
    BY <1>9 DEF DecideIcmp, ux, uy
  <2> QED BY <1>5, <1>9, <2>1, <2>2
<1> QED BY <1>7, <1>8, <1>9 DEF Compare

LEMMA AnswersWithin ==
  ASSUME NEW pred \in Compare, NEW x \in Bounded, NEW y \in Bounded, NEW x2 \in Bounded, NEW y2 \in Bounded,
         RangeLeq(x, x2), RangeLeq(y, y2)
  PROVE  DecideIcmp(pred, x, y) \subseteq DecideIcmp(pred, x2, y2)
<1>1. /\ x.width = x2.width /\ x2.lo <= x.lo /\ x.hi <= x2.hi
      /\ y.width = y2.width /\ y2.lo <= y.lo /\ y.hi <= y2.hi
  BY BoundedLeq
<1>2. /\ IsRange(x) /\ IsRange(y) /\ IsRange(x2) /\ IsRange(y2)
      /\ IsRange(ToUnsigned(x)) /\ IsRange(ToUnsigned(y)) /\ IsRange(ToUnsigned(x2)) /\ IsRange(ToUnsigned(y2))
  BY BoundedRange, UnsignedCovers
<1>3. /\ ToUnsigned(x2).lo <= ToUnsigned(x).lo /\ ToUnsigned(x).hi <= ToUnsigned(x2).hi
      /\ ToUnsigned(y2).lo <= ToUnsigned(y).lo /\ ToUnsigned(y).hi <= ToUnsigned(y2).hi
  BY <1>1, UnsignedMonotone
<1>4. /\ MayLt(x, y) \subseteq MayLt(x2, y2) /\ MayLt(y, x) \subseteq MayLt(y2, x2)
      /\ MayLe(x, y) \subseteq MayLe(x2, y2) /\ MayLe(y, x) \subseteq MayLe(y2, x2)
      /\ MayEq(x, y) \subseteq MayEq(x2, y2)
  BY <1>1, <1>2, MayWithin
<1>5. LET ux == ToUnsigned(x)  uy == ToUnsigned(y)  ux2 == ToUnsigned(x2)  uy2 == ToUnsigned(y2)
      IN  /\ MayLt(ux, uy) \subseteq MayLt(ux2, uy2) /\ MayLt(uy, ux) \subseteq MayLt(uy2, ux2)
          /\ MayLe(ux, uy) \subseteq MayLe(ux2, uy2) /\ MayLe(uy, ux) \subseteq MayLe(uy2, ux2)
  BY <1>2, <1>3, MayWithin
<1> QED BY <1>4, <1>5 DEF DecideIcmp, Compare

LEMMA ComparesTyped ==
  ASSUME NEW pred \in Compare, NEW a \in SemValue, NEW b \in SemValue, a # Poison, b # Poison
  PROVE  Compares(pred, a.width, a.bits, b.bits) \in BOOLEAN
<1>1. a.bits \in Int /\ b.bits \in Int /\ a.width \in Width
  BY SemPattern
<1>2. ASSUME NEW w \in Width, NEW n \in Int PROVE SignedBits(w, n) \in Int
  <2> DEFINE m == 2^w
             h == 2^(w - 1)
  <2>1. m \in Int /\ h \in Int /\ SignedBits(w, n) = IF n >= h THEN n - m ELSE n
    BY Halves DEF SignedBits
  <2> HIDE DEF m, h
  <2> QED BY <2>1
<1> DEFINE x == a.bits
           y == b.bits
           sx == SignedBits(a.width, a.bits)
           sy == SignedBits(a.width, b.bits)
<1>3. x \in Int /\ y \in Int /\ sx \in Int /\ sy \in Int
  BY <1>1, <1>2
<1>4. Compares(pred, a.width, a.bits, b.bits) =
        CASE pred = "eq"  -> x = y    [] pred = "ne"  -> x # y
          [] pred = "ult" -> x < y    [] pred = "ule" -> x <= y
          [] pred = "ugt" -> x > y    [] pred = "uge" -> x >= y
          [] pred = "slt" -> sx < sy  [] pred = "sle" -> sx <= sy
          [] pred = "sgt" -> sx > sy  [] pred = "sge" -> sx >= sy
  BY DEF Compares
<1> HIDE DEF x, y, sx, sy
<1>5. /\ (x = y) \in BOOLEAN /\ (x # y) \in BOOLEAN
      /\ (x < y) \in BOOLEAN /\ (x <= y) \in BOOLEAN /\ (x > y) \in BOOLEAN /\ (x >= y) \in BOOLEAN
      /\ (sx < sy) \in BOOLEAN /\ (sx <= sy) \in BOOLEAN /\ (sx > sy) \in BOOLEAN /\ (sx >= sy) \in BOOLEAN
  BY <1>3
<1> HIDE DEF Compares
<1> QED BY <1>4, <1>5, Zenon DEF Compare

(* The answers that RangeIcmp leaves open.                                  *)
Answers(op, x, y) ==
  IF RangeTop \in {x, y} \/ x.width # y.width THEN BOOLEAN ELSE DecideIcmp(op.kind, x, y)

LEMMA AnswersOpen ==
  ASSUME NEW op, op.kind \in Compare,
         NEW x \in RangeElem \ {RangeBottom}, NEW y \in RangeElem \ {RangeBottom}
  PROVE  /\ Answers(op, x, y) \in SUBSET BOOLEAN
         /\ \A a \in RangeGamma(x), b \in RangeGamma(y) :
              Poison \notin {a, b} => Compares(op.kind, a.width, a.bits, b.bits) \in Answers(op, x, y)
<1>1. Answers(op, x, y) \in SUBSET BOOLEAN
  BY AnswersAreBooleans DEF Answers
<1>2. ASSUME NEW a \in RangeGamma(x), NEW b \in RangeGamma(y), Poison \notin {a, b}
      PROVE  Compares(op.kind, a.width, a.bits, b.bits) \in Answers(op, x, y)
  <2>1. CASE RangeTop \in {x, y} \/ x.width # y.width
    <3>1. a \in SemValue /\ b \in SemValue /\ a # Poison /\ b # Poison
      BY <1>2, RangeContainment
    <3>2. Compares(op.kind, a.width, a.bits, b.bits) \in BOOLEAN
      BY <3>1, ComparesTyped
    <3> QED BY <2>1, <3>2, Zenon DEF Answers
  <2>2. CASE ~(RangeTop \in {x, y} \/ x.width # y.width)
    <3>1. x \in Bounded /\ y \in Bounded /\ x.width = y.width
      BY <2>2, RangeKinds
    <3>2. Compares(op.kind, a.width, a.bits, b.bits) \in DecideIcmp(op.kind, x, y)
      BY <3>1, AnswersCover
    <3> QED BY <2>2, <3>2, Zenon DEF Answers
  <2> QED BY <2>1, <2>2
<1> QED BY <1>1, <1>2

LEMMA IcmpCovers ==
  ASSUME NEW op, op.kind \in Compare, 1 \in Width,
         NEW x \in RangeElem \ {RangeBottom}, NEW y \in RangeElem \ {RangeBottom}
  PROVE  /\ RangeIcmp(op, x, y) \in RangeElem
         /\ \A a \in RangeGamma(x), b \in RangeGamma(y) :
              Poison \notin {a, b} =>
                Truth(Compares(op.kind, a.width, a.bits, b.bits)) \in RangeGamma(RangeIcmp(op, x, y))
<1>1. RangeIcmp(op, x, y) = BooleanRange(Answers(op, x, y))
  BY DEF RangeIcmp, Answers
<1>2. Answers(op, x, y) \in SUBSET BOOLEAN
  BY AnswersOpen
<1>3. RangeIcmp(op, x, y) \in RangeElem
  BY <1>1, <1>2, BooleanCovers, RangeKinds
<1>4. ASSUME NEW a \in RangeGamma(x), NEW b \in RangeGamma(y), Poison \notin {a, b}
      PROVE  Truth(Compares(op.kind, a.width, a.bits, b.bits)) \in RangeGamma(RangeIcmp(op, x, y))
  <2>1. Compares(op.kind, a.width, a.bits, b.bits) \in Answers(op, x, y)
    BY <1>4, AnswersOpen
  <2> QED BY <1>1, <1>2, <2>1, BooleanCovers, Zenon
<1> QED BY <1>3, <1>4

LEMMA IcmpMonotone ==
  ASSUME NEW op, op.kind \in Compare, 1 \in Width,
         NEW x \in RangeElem \ {RangeBottom}, NEW y \in RangeElem \ {RangeBottom},
         NEW x2 \in RangeElem \ {RangeBottom}, NEW y2 \in RangeElem \ {RangeBottom},
         RangeLeq(x, x2), RangeLeq(y, y2)
  PROVE  RangeLeq(RangeIcmp(op, x, y), RangeIcmp(op, x2, y2))
<1>1. RangeIcmp(op, x, y) = BooleanRange(Answers(op, x, y))
  BY DEF RangeIcmp, Answers
<1>2. RangeIcmp(op, x2, y2) = BooleanRange(Answers(op, x2, y2))
  BY DEF RangeIcmp, Answers
<1>3. Answers(op, x, y) \in SUBSET BOOLEAN /\ Answers(op, x2, y2) \in SUBSET BOOLEAN
  BY AnswersOpen
<1>4. Answers(op, x, y) \subseteq Answers(op, x2, y2)
  <2>1. CASE RangeTop \in {x2, y2} \/ x2.width # y2.width
    BY <1>3, <2>1, Zenon DEF Answers
  <2>2. CASE ~(RangeTop \in {x2, y2} \/ x2.width # y2.width)
    <3>1. /\ x2 \in Bounded /\ y2 \in Bounded /\ x2.width = y2.width
          /\ x \in Bounded /\ y \in Bounded
      BY <2>2, RangeKinds DEF RangeLeq
    <3>2. x.width = y.width
      BY <3>1, BoundedLeq
    <3>3. DecideIcmp(op.kind, x, y) \subseteq DecideIcmp(op.kind, x2, y2)
      BY <3>1, AnswersWithin
    <3>4. RangeTop \notin {x, y}
      BY <3>1, RangeKinds
    <3> QED BY <2>2, <3>2, <3>3, <3>4, Zenon DEF Answers
  <2> QED BY <2>1, <2>2
<1> QED BY <1>1, <1>2, <1>3, <1>4, BooleanCovers, Zenon

-----------------------------------------------------------------------------
(* Casts of intervals *)

(* The low bits of a pattern are those of the integer it stands for.         *)
LEMMA LowBits ==
  ASSUME NEW w \in Width, NEW v \in Width, v < w, NEW x \in IntOf(w)
  PROVE  x.bits % 2^v = Signed(x) % 2^v
<1>1. PICK k \in Nat \ {0} : 2^w = 2^v * k
  <2>1. v \in 0..w /\ w \in v..w
    <3>1. v \in Nat /\ w \in Nat
      BY Halves
    <3> QED BY <3>1
  <2> QED BY <2>1, PowersDivide
<1> DEFINE m == 2^v
           s == Signed(x)
<1>2. m \in Nat \ {0} /\ s \in Int /\ x.bits = IF s < 0 THEN s + m * k ELSE s
  BY <1>1, Halves, SignedRange
<1> HIDE DEF m, s
<1>3. (s + m * k) % m = s % m
  <2>1. s % m \in 0..(m - 1) /\ s \div m \in Int /\ s = m * (s \div m) + (s % m)
    BY <1>2, Remainder
  <2>2. s + m * k = m * ((s \div m) + k) + (s % m) /\ (s \div m) + k \in Int
    <3> DEFINE q == s \div m
               r == s % m
    <3>1. q \in Int /\ r \in Int /\ s = m * q + r
      BY <2>1
    <3> HIDE DEF q, r
    <3>2. m * (q + k) = m * q + m * k /\ m * q \in Int /\ m * k \in Int
      BY <1>2, <3>1
    <3>3. s + m * k = m * (q + k) + r /\ q + k \in Int
      BY <3>1, <3>2
    <3> QED BY <3>3 DEF q, r
  <2> QED BY <1>2, <2>1, <2>2, RemainderOf
<1> QED BY <1>2, <1>3 DEF m, s

LEMMA SingletonMeaning ==
  ASSUME NEW w \in Width, NEW v \in Int
  PROVE  /\ Singleton(w, v) \in Bounded /\ Sem(w, v) \in RangeGamma(Singleton(w, v))
         /\ \E s \in IntMin(w)..IntMax(w) : Singleton(w, v) = Interval(w, s, s)
<1> DEFINE s == Signed(Sem(w, v))
<1>1. Sem(w, v) \in IntOf(w)
  BY SemTyped
<1>2. s \in IntMin(w)..IntMax(w) /\ s \in Int /\ IntMin(w) <= s /\ s <= s /\ s <= IntMax(w)
  BY <1>1, SignedRange, Halves
<1>3. Singleton(w, v) = Interval(w, s, s)
  BY DEF Singleton
<1>4. Interval(w, s, s) \in Bounded
  BY <1>2, IntervalExact
<1>5. Sem(w, v) \in RangeGamma(Interval(w, s, s))
  BY <1>1, <1>2, IntervalMeaning
<1> QED BY <1>2, <1>3, <1>4, <1>5

(* A wider type holds every integer of a narrower one, and its patterns too. *)
LEMMA Wider ==
  ASSUME NEW w \in Width, NEW v \in Width, v < w
  PROVE  2^v <= 2^(w - 1) /\ IntMin(w) <= IntMin(v) /\ IntMax(v) <= IntMax(w)
<1>1. PICK k \in Nat \ {0} : 2^(w - 1) = 2^v * k
  <2>1. v \in 0..w /\ w - 1 \in v..w
    <3>1. v \in Nat /\ w \in Nat
      BY Halves
    <3> QED BY <3>1
  <2> QED BY <2>1, PowersDivide
<1> DEFINE m == 2^v
           n == 2^(w - 1)
           h == 2^(v - 1)
<1>2. /\ m \in Nat /\ n = m * k /\ m = 2 * h /\ h \in Nat
      /\ IntMin(w) = -n /\ IntMax(w) = n - 1 /\ IntMin(v) = -h /\ IntMax(v) = h - 1
  BY <1>1, Halves
<1> HIDE DEF m, n, h
<1>3. m <= n
  <2>1. m * k = m + m * (k - 1) /\ m * (k - 1) \in Nat
    <3>1. k - 1 \in Nat
      OBVIOUS
    <3> QED BY <1>2, <3>1
  <2> QED BY <1>2, <2>1
<1>4. IntMin(w) <= IntMin(v) /\ IntMax(v) <= IntMax(w)
  BY <1>2, <1>3
<1> QED BY <1>3, <1>4 DEF m, n

LEMMA CastCovers ==
  ASSUME NEW op, op.kind \in Casts, op.width \in Width, NEW x \in Bounded
  PROVE  /\ RangeCast(op, x) \in RangeElem
         /\ \A a \in RangeGamma(x) :
              (IF op.kind = "trunc" THEN a.width > op.width ELSE a.width < op.width) =>
                EvalCast(op, a) \in RangeGamma(RangeCast(op, x))
<1> DEFINE w == op.width
<1>0. IsRange(x) /\ IsRange(ToUnsigned(x))
  BY BoundedRange, UnsignedCovers
<1>1. ASSUME NEW a \in RangeGamma(x) PROVE EvalCast(op, a) \in IntOf(w)
  <2>1. a.bits \in Int /\ Signed(a) \in Int
    BY BoundedRange, <1>0 DEF IsRange
  <2> QED BY <2>1, SemTyped DEF EvalCast
<1>2. CASE op.kind = "trunc"
  <2>1. CASE x.lo = x.hi
    <3>1. RangeCast(op, x) = Singleton(w, x.lo)
      BY <1>2, <2>1 DEF RangeCast
    <3>2. ASSUME NEW a \in RangeGamma(x), a.width > w PROVE EvalCast(op, a) \in RangeGamma(Singleton(w, x.lo))
      <4>1. a \in IntOf(x.width) /\ x.width \in Width /\ a.width = x.width
        BY BoundedRange, BoundedShape
      <4>2. a.bits % 2^w = Signed(a) % 2^w
        BY <3>2, <4>1, LowBits, Halves
      <4>3. Signed(a) = x.lo
        BY <2>1, <1>0, BoundedRange DEF IsRange
      <4>4. EvalCast(op, a) = Sem(w, x.lo)
        BY <1>2, <4>2, <4>3 DEF EvalCast, Sem
      <4> QED BY <4>4, <1>0, SingletonMeaning DEF IsRange
    <3> QED BY <1>0, <1>2, <3>1, <3>2, SingletonMeaning, RangeKinds DEF IsRange
  <2>2. CASE x.lo # x.hi
    <3>1. RangeCast(op, x) = Full(w)
      BY <1>2, <2>2 DEF RangeCast
    <3> QED BY <1>1, <3>1, FullMeaning, RangeKinds
  <2> QED BY <2>1, <2>2
<1>3. CASE op.kind = "zext"
  <2> DEFINE u == ToUnsigned(x)
  <2>1. RangeCast(op, x) = Interval(w, u.lo, u.hi) /\ u.lo \in Int /\ u.hi \in Int
    BY <1>0, <1>3 DEF RangeCast, IsRange
  <2>2. ASSUME NEW a \in RangeGamma(x), a.width < w PROVE EvalCast(op, a) \in RangeGamma(Interval(w, u.lo, u.hi))
    <3>1. /\ a.bits \in Int /\ u.lo <= a.bits /\ a.bits <= u.hi /\ 0 <= u.lo /\ u.hi <= 2^x.width - 1
          /\ x.width \in Width /\ x.width < w
      BY <2>1, <2>2, BoundedRange, BoundedShape, UnsignedCovers
    <3>2. a.bits \in IntMin(w)..IntMax(w)
      <4> DEFINE m == 2^x.width
                 n == 2^(w - 1)
                 b == a.bits
      <4>1. m <= n /\ m \in Nat /\ n \in Nat /\ IntMin(w) = -n /\ IntMax(w) = n - 1
        BY <3>1, Wider, Halves
      <4>2. b \in Int /\ u.lo <= b /\ b <= u.hi /\ 0 <= u.lo /\ u.hi <= m - 1 /\ u.lo \in Int /\ u.hi \in Int
        BY <2>1, <3>1
      <4> HIDE DEF m, n, b, u
      <4>3. b \in (-n)..(n - 1)
        BY <4>1, <4>2
      <4> QED BY <4>1, <4>3 DEF b
    <3>3. EvalCast(op, a) = Sem(w, a.bits)
      BY <1>3 DEF EvalCast
    <3>4. Signed(EvalCast(op, a)) = a.bits
      BY <3>2, <3>3, SignedSem
    <3> HIDE DEF u
    <3> QED BY <1>1, <2>1, <3>1, <3>4, IntervalMeaning
  <2> HIDE DEF u
  <2>3. Interval(w, u.lo, u.hi) \in RangeElem
    BY <2>1, IntervalMeaning, RangeKinds
  <2> QED BY <1>3, <2>1, <2>2, <2>3
<1>4. CASE op.kind = "sext"
  <2>1. RangeCast(op, x) = Interval(w, x.lo, x.hi) /\ x.lo \in Int /\ x.hi \in Int
    BY <1>0, <1>4 DEF RangeCast, IsRange
  <2>2. ASSUME NEW a \in RangeGamma(x), a.width < w PROVE EvalCast(op, a) \in RangeGamma(Interval(w, x.lo, x.hi))
    <3>1. /\ Signed(a) \in Int /\ x.lo <= Signed(a) /\ Signed(a) <= x.hi
          /\ x.width \in Width /\ x.width < w
      BY <2>1, <2>2, BoundedRange, BoundedShape
    <3>2. Signed(a) \in IntMin(w)..IntMax(w)
      <4>1. /\ IntMin(w) <= IntMin(x.width) /\ IntMax(x.width) <= IntMax(w)
            /\ IntMin(w) \in Int /\ IntMax(w) \in Int /\ IntMin(x.width) \in Int /\ IntMax(x.width) \in Int
        BY <3>1, Wider, Halves
      <4> QED BY <2>1, <3>1, <4>1, BoundedShape
    <3>3. EvalCast(op, a) = Sem(w, Signed(a))
      BY <1>4 DEF EvalCast
    <3>4. Signed(EvalCast(op, a)) = Signed(a)
      BY <3>2, <3>3, SignedSem
    <3> QED BY <1>1, <2>1, <3>1, <3>4, IntervalMeaning
  <2>3. Interval(w, x.lo, x.hi) \in RangeElem
    BY <2>1, IntervalMeaning, RangeKinds
  <2> QED BY <1>4, <2>1, <2>2, <2>3
<1> QED BY <1>2, <1>3, <1>4 DEF Casts

LEMMA CastMonotone ==
  ASSUME NEW op, op.kind \in Casts, op.width \in Width,
         NEW x \in Bounded, NEW x2 \in Bounded, RangeLeq(x, x2)
  PROVE  RangeLeq(RangeCast(op, x), RangeCast(op, x2))
<1> DEFINE w == op.width
<1>1. /\ x.width = x2.width /\ x2.lo <= x.lo /\ x.hi <= x2.hi /\ x.lo <= x.hi
      /\ x.lo \in Int /\ x.hi \in Int /\ x2.lo \in Int /\ x2.hi \in Int
  BY BoundedLeq, BoundedShape
<1>2. CASE op.kind = "trunc"
  <2>1. CASE x2.lo = x2.hi
    <3>1. x.lo = x2.lo /\ x.lo = x.hi
      BY <1>1, <2>1
    <3>2. RangeCast(op, x) = RangeCast(op, x2)
      BY <1>2, <2>1, <3>1 DEF RangeCast
    <3> QED BY <3>2, CastCovers, RangeOrder
  <2>2. CASE x2.lo # x2.hi
    <3>1. RangeCast(op, x2) = Interval(w, IntMin(w), IntMax(w))
      BY <1>2, <2>2 DEF RangeCast, Full
    <3>2. IntMin(w) \in Int /\ IntMax(w) \in Int
      BY Halves
    <3>3. \E l, h \in IntMin(w)..IntMax(w) : RangeCast(op, x) = Interval(w, l, h)
      <4>1. CASE x.lo = x.hi
        <5>1. RangeCast(op, x) = Singleton(w, x.lo)
          BY <1>2, <4>1 DEF RangeCast
        <5> QED BY <1>1, <5>1, SingletonMeaning
      <4>2. CASE x.lo # x.hi
        <5>1. RangeCast(op, x) = Interval(w, IntMin(w), IntMax(w))
          BY <1>2, <4>2 DEF RangeCast, Full
        <5>2. IntMin(w) \in IntMin(w)..IntMax(w) /\ IntMax(w) \in IntMin(w)..IntMax(w)
          <6> DEFINE n == 2^(w - 1)
          <6>1. n \in Nat \ {0} /\ IntMin(w) = -n /\ IntMax(w) = n - 1
            BY Halves
          <6> HIDE DEF n
          <6> QED BY <6>1
        <5> QED BY <5>1, <5>2
      <4> QED BY <4>1, <4>2
    <3>4. PICK l \in IntMin(w)..IntMax(w), h \in IntMin(w)..IntMax(w) : RangeCast(op, x) = Interval(w, l, h)
      BY <3>3
    <3>5. l \in Int /\ h \in Int /\ IntMin(w) <= l /\ h <= IntMax(w)
      BY <3>2
    <3> QED BY <3>1, <3>2, <3>4, <3>5, IntervalMonotone
  <2> QED BY <2>1, <2>2
<1>3. CASE op.kind = "zext"
  <2> DEFINE u == ToUnsigned(x)
             u2 == ToUnsigned(x2)
  <2>1. u2.lo <= u.lo /\ u.hi <= u2.hi
    BY <1>1, UnsignedMonotone
  <2>2. u.lo \in Int /\ u.hi \in Int /\ u2.lo \in Int /\ u2.hi \in Int
    BY UnsignedCovers DEF IsRange
  <2>3. RangeCast(op, x) = Interval(w, u.lo, u.hi) /\ RangeCast(op, x2) = Interval(w, u2.lo, u2.hi)
    BY <1>3 DEF RangeCast
  <2> HIDE DEF u, u2
  <2> QED BY <2>1, <2>2, <2>3, IntervalMonotone
<1>4. CASE op.kind = "sext"
  <2>1. RangeCast(op, x) = Interval(w, x.lo, x.hi) /\ RangeCast(op, x2) = Interval(w, x2.lo, x2.hi)
    BY <1>4 DEF RangeCast
  <2> QED BY <1>1, <2>1, IntervalMonotone
<1> QED BY <1>2, <1>3, <1>4 DEF Casts

-----------------------------------------------------------------------------
(* The results of the instructions have the width they should have *)

(* One more one, above those there are.                                      *)
LEMMA OneMoreBit ==
  ASSUME NEW w \in Width, NEW n \in 0..(w - 1), NEW b \in 0..(2^n - 1)
  PROVE  /\ b + 2^n \in 0..(2^(n + 1) - 1)
         /\ BitsOf(w, b + 2^n) = BitsOf(w, b) \union {n}
<1> DEFINE m == 2^n
<1>1. /\ w \in Nat /\ n \in 0..w /\ n + 1 \in 1..w /\ (n + 1) - 1 = n
      /\ m \in Nat \ {0} /\ 2^(n + 1) = 2 * m /\ b \in 0..(m - 1)
  <2>1. w \in Nat /\ n \in 0..w /\ n + 1 \in 1..w /\ (n + 1) - 1 = n
    BY Powers
  <2>2. m \in Nat \ {0} /\ 2^(n + 1) = 2 * 2^((n + 1) - 1)
    BY <2>1, Powers
  <2> QED BY <2>1, <2>2
<1>2. b + m \in 0..(2 * m - 1)
  <2> HIDE DEF m
  <2> QED BY <1>1
<1>3. ASSUME NEW i \in 0..(w - 1)
      PROVE  (((b + m) \div 2^i) % 2 = 1) <=> ((b \div 2^i) % 2 = 1 \/ i = n)
  <2> DEFINE p == 2^i
  <2>1. i \in Int /\ n \in Int /\ p \in Nat \ {0}
    <3>1. i \in 0..w
      BY <1>1
    <3> QED BY <1>1, <3>1, Powers
  <2>2. CASE i < n
    <3>1. PICK k \in Nat \ {0} : 2^(n - 1) = p * k
      <4>1. i \in 0..w /\ n - 1 \in i..w
        BY <1>1, <2>2
      <4> QED BY <4>1, PowersDivide
    <3>2. m = 2 * 2^(n - 1)
      <4>1. n \in 1..w
        BY <1>1, <2>1, <2>2
      <4> QED BY <4>1, Powers
    <3> DEFINE q == b \div p
               r == b % p
    <3>0. b \in Int
      BY <1>1
    <3>3. q \in Int /\ r \in 0..(p - 1) /\ b = p * q + r
      <4> HIDE DEF p
      <4> QED BY <2>1, <3>0, Remainder
    <3>4. m = p * (2 * k)
      BY <2>1, <3>1, <3>2
    <3> HIDE DEF q, r, p, m
    <3>5. b + m = p * (q + 2 * k) + r /\ q + 2 * k \in Int
      BY <2>1, <3>3, <3>4
    <3>6. (b + m) \div p = q + 2 * k
      <4> DEFINE s == q + 2 * k
      <4>1. b + m = p * s + r /\ s \in Int
        BY <3>5
      <4> HIDE DEF s
      <4>2. (p * s + r) \div p = s
        BY <2>1, <3>3, <4>1, RemainderOf
      <4> QED BY <4>1, <4>2 DEF s
    <3>7. (q + 2 * k) % 2 = q % 2
      BY <3>3
    <3> QED BY <2>2, <2>1, <3>6, <3>7 DEF q, p
  <2>3. CASE i = n
    <3>1. b + m = m * 1 + b
      BY <1>1
    <3> HIDE DEF m
    <3>2. (b + m) \div m = 1
      BY <1>1, <3>1, RemainderOf, 1 \in Int
    <3>3. (b + m) \div p = 1
      BY <2>3, <3>2 DEF m
    <3> QED BY <2>3, <3>3, 1 % 2 = 1 DEF p
  <2>4. CASE i > n
    <3>1. PICK k \in Nat \ {0} : p = 2 * m * k
      <4>1. n + 1 \in 0..w /\ i \in (n + 1)..w
        BY <1>1, <2>1, <2>4
      <4>2. \E k \in Nat \ {0} : p = 2^(n + 1) * k
        BY <4>1, PowersDivide
      <4> QED BY <1>1, <4>2
    <3> HIDE DEF m, p
    <3>2. p >= 2 * m
      <4>1. 2 * m * k = 2 * m + 2 * m * (k - 1) /\ 2 * m * (k - 1) \in Nat
        <5>1. k - 1 \in Nat /\ 2 * m \in Nat
          BY <1>1
        <5> QED BY <5>1
      <4> QED BY <1>1, <3>1, <4>1
    <3>3. b \in 0..(p - 1) /\ b + m \in 0..(p - 1) /\ b = p * 0 + b /\ b + m = p * 0 + (b + m)
      BY <1>1, <1>2, <2>1, <3>2
    <3>4. b \div p = 0 /\ (b + m) \div p = 0
      <4>1. \A r \in 0..(p - 1) : r = p * 0 + r => r \div p = 0
        BY <2>1, RemainderOf
      <4> QED BY <3>3, <4>1
    <3> QED BY <2>1, <2>4, <3>4, 0 % 2 = 0 DEF p
  <2> QED BY <2>1, <2>2, <2>3, <2>4
<1>4. BitsOf(w, b + m) = BitsOf(w, b) \union {n}
  <2> HIDE DEF m
  <2> QED BY <1>3 DEF BitsOf
<1> QED BY <1>1, <1>2, <1>4

(* Every set of positions is that of the ones of a pattern.                  *)
LEMMA PatternsOfAll ==
  ASSUME NEW w \in Width, NEW S \in SUBSET (0..(w - 1))
  PROVE  PatternOf(w, S) \in Pattern(w) /\ BitsOf(w, PatternOf(w, S)) = S
<1> DEFINE Reached(n) == \A R \in SUBSET (0..(n - 1)) : \E b \in 0..(2^n - 1) : BitsOf(w, b) = R
           T == {n \in Nat : n <= w => Reached(n)}
<1>0. w \in Nat \ {0}
  BY Powers
<1>1. 0 \in T
  <2>1. 2^0 = 1 /\ 0..(0 - 1) = {}
    OBVIOUS
  <2>2. BitsOf(w, 0) = {}
    <3>1. ASSUME NEW i \in 0..(w - 1) PROVE (0 \div 2^i) % 2 # 1
      <4>1. 2^i \in Nat \ {0}
        BY <1>0, Powers
      <4>2. 0 \div 2^i = 0
        <5> DEFINE p == 2^i
        <5>1. 0 \in 0..(p - 1) /\ 0 = p * 0 + 0
          BY <4>1
        <5> HIDE DEF p
        <5>2. 0 \div p = 0
          BY <4>1, <5>1, RemainderOf, 0 \in Int DEF p
        <5> QED BY <5>2 DEF p
      <4>3. \A z : z = 0 => z % 2 # 1
        OBVIOUS
      <4> QED BY <4>2, <4>3, Zenon
    <3> QED BY <3>1 DEF BitsOf
  <2>3. Reached(0)
    <3>1. 0 \in 0..(2^0 - 1)
      BY <2>1
    <3> QED BY <2>1, <2>2, <3>1
  <2> HIDE DEF Reached
  <2> QED BY <2>3
<1>2. ASSUME NEW n \in Nat, n \in T PROVE n + 1 \in T
  <2> SUFFICES ASSUME n + 1 <= w, NEW R \in SUBSET (0..n)
               PROVE  \E b \in 0..(2^(n + 1) - 1) : BitsOf(w, b) = R
    <3>1. (n + 1) - 1 = n
      OBVIOUS
    <3> QED BY <3>1
  <2>1. n \in 0..(w - 1) /\ R \ {n} \in SUBSET (0..(n - 1))
    BY <1>0
  <2>2. PICK b \in 0..(2^n - 1) : BitsOf(w, b) = R \ {n}
    <3>1. n <= w
      BY <1>0
    <3>2. Reached(n)
      <4> HIDE DEF Reached
      <4> QED BY <1>2, <3>1
    <3> QED BY <2>1, <3>2, Zenon
  <2>3. /\ b + 2^n \in 0..(2^(n + 1) - 1)
        /\ BitsOf(w, b + 2^n) = BitsOf(w, b) \union {n}
    BY <2>1, OneMoreBit
  <2>4. b \in 0..(2^(n + 1) - 1)
    <3> DEFINE m == 2^n
               m2 == 2^(n + 1)
    <3>1. m \in Nat /\ m2 \in Nat /\ b \in 0..(m - 1) /\ b + m \in 0..(m2 - 1)
      <4>1. n \in 0..w /\ n + 1 \in 0..w
        BY <1>0
      <4> QED BY <2>3, <4>1, Powers
    <3> HIDE DEF m, m2
    <3>2. b \in 0..(m2 - 1)
      BY <3>1
    <3> QED BY <3>2 DEF m2
  <2>5. CASE n \in R
    <3>1. BitsOf(w, b + 2^n) = R
      BY <2>2, <2>3, <2>5
    <3> QED BY <2>3, <3>1
  <2>6. CASE n \notin R
    <3>1. BitsOf(w, b) = R
      BY <2>2, <2>6
    <3> QED BY <2>4, <3>1
  <2> QED BY <2>5, <2>6
<1>3. Nat \subseteq T
  <2> HIDE DEF T
  <2> QED BY <1>1, <1>2, NatsIn
<1>4. \E b \in Pattern(w) : BitsOf(w, b) = S
  <2>1. w \in T
    BY <1>0, <1>3, Zenon
  <2> QED BY <1>0, <2>1 DEF Pattern
<1> QED BY <1>4 DEF PatternOf

LEMMA OperandTyped ==
  ASSUME NEW a \in SemValue, a # Poison
  PROVE  a.bits \in Nat /\ Signed(a) \in Int /\ a.width \in Width /\ a \in IntOf(a.width)
<1>1. a.width \in Width /\ a \in IntOf(a.width) /\ a.bits \in Nat
  BY SemPattern
<1>2. Signed(a) \in Int
  BY <1>1, SignedRange, Halves
<1> QED BY <1>1, <1>2

Results(w) == IntOf(w) \union {Poison}

LEMMA DivisionTyped ==
  ASSUME NEW op, op.kind \in DivRem, NEW a \in SemValue, NEW b \in SemValue, a # Poison, b # Poison,
         NEW r \in EvalDivRem(op, a, b)
  PROVE  r \in Results(a.width) /\ EvalDivRem(op, a, b) = {r}
<1> DEFINE signed == op.kind \in {"sdiv", "srem"}
           x == IF signed THEN Signed(a) ELSE a.bits
           y == IF signed THEN Signed(b) ELSE b.bits
           q == Quotient(x, y)
<1>1. x \in Int /\ y \in Int
  BY OperandTyped
<1>2. EvalDivRem(op, a, b) =
        IF y = 0 \/ (signed /\ x = IntMin(a.width) /\ y = -1) THEN {}
        ELSE IF op.kind \in {"urem", "srem"} THEN {Sem(a.width, x - y * q)}
        ELSE IF "exact" \in op.flags /\ x # y * q THEN {Poison}
        ELSE {Sem(a.width, q)}
  BY DEF EvalDivRem
<1> HIDE DEF x, y
<1>3. y # 0 => q \in Int
  <2> DEFINE d == Magnitude(x) \div Magnitude(y)
  <2>1. y # 0 => Magnitude(x) \in Int /\ Magnitude(y) \in Nat \ {0}
    BY <1>1 DEF Magnitude
  <2>2. y # 0 => d \in Int
    <3> HIDE DEF Magnitude
    <3> QED BY <2>1, Remainder
  <2>3. q = IF (x < 0) = (y < 0) THEN d ELSE -d
    BY DEF Quotient
  <2> HIDE DEF d, q
  <2> QED BY <2>2, <2>3
<1> HIDE DEF q, signed
<1>4. y # 0 => x - y * q \in Int
  BY <1>1, <1>3
<1>5. y # 0 => Sem(a.width, x - y * q) \in IntOf(a.width) /\ Sem(a.width, q) \in IntOf(a.width)
  BY <1>3, <1>4, OperandTyped, SemTyped
<1>6. EvalDivRem(op, a, b) # {}
  OBVIOUS
<1> DEFINE E == EvalDivRem(op, a, b)
           rest == Sem(a.width, x - y * q)
           whole == Sem(a.width, q)
<1>7. y # 0 /\ (E = {rest} \/ E = {whole} \/ E = {Poison})
  BY <1>2, <1>6, Zenon
<1>8. rest \in IntOf(a.width) /\ whole \in IntOf(a.width) /\ r \in E
  BY <1>5, <1>7
<1> HIDE DEF E, rest, whole
<1>9. r \in Results(a.width) /\ E = {r}
  BY <1>7, <1>8 DEF Results
<1> QED BY <1>9 DEF E

LEMMA ShiftTyped ==
  ASSUME NEW op, op.kind \in Shifts, NEW a \in SemValue, NEW b \in SemValue, a # Poison, b # Poison
  PROVE  EvalShift(op, a, b) \in Results(a.width)
<1> DEFINE k == b.bits
           w == a.width
<1>1. k \in Nat /\ w \in Width /\ w \in Nat /\ a.bits \in Int /\ Signed(a) \in Int
  BY OperandTyped, Halves
<1>2. CASE k >= w
  BY <1>2 DEF EvalShift, Results
<1>3. CASE ~(k >= w)
  <2>1. 2^k \in Nat \ {0}
    <3>1. k \in 0..w
      BY <1>1, <1>3
    <3> HIDE DEF k, w
    <3> QED BY <1>1, <3>1, Powers
  <2> DEFINE p == 2^k
  <2>2. p \in Nat \ {0}
    BY <2>1
  <2>3. a.bits * p \in Int /\ a.bits \div p \in Int /\ Signed(a) \div p \in Int
    <3> DEFINE n == a.bits
               s == Signed(a)
    <3>1. n \in Int /\ s \in Int
      BY <1>1
    <3> HIDE DEF p, n, s
    <3>2. n * p \in Int /\ n \div p \in Int /\ s \div p \in Int
      BY <2>2, <3>1, Remainder
    <3> QED BY <3>2 DEF n, s
  <2>4. Sem(w, a.bits * p) \in IntOf(w) /\ Sem(w, a.bits \div p) \in IntOf(w) /\ Sem(w, Signed(a) \div p) \in IntOf(w)
    <3> HIDE DEF p
    <3> QED BY <1>1, <2>3, SemTyped
  <2>5. EvalShift(op, a, b) \in {Poison, Sem(w, a.bits * p), Sem(w, a.bits \div p), Sem(w, Signed(a) \div p)}
    <3>1. CASE op.kind = "shl"
      BY <1>3, <3>1, Zenon DEF EvalShift
    <3>2. CASE op.kind = "lshr"
      BY <1>3, <3>2, Zenon DEF EvalShift
    <3>3. CASE op.kind = "ashr"
      BY <1>3, <3>3, Zenon DEF EvalShift
    <3> QED BY <3>1, <3>2, <3>3 DEF Shifts
  <2> HIDE DEF w, p
  <2> QED BY <2>4, <2>5 DEF Results, w
<1> QED BY <1>2, <1>3

LEMMA LogicTyped ==
  ASSUME NEW op, op.kind \in Logic, NEW a \in SemValue, NEW b \in SemValue, a # Poison, b # Poison
  PROVE  EvalLogic(op, a, b) \in IntOf(a.width)
<1> DEFINE w == a.width
           x == BitsOf(w, a.bits)
           y == BitsOf(w, b.bits)
           S == CASE op.kind = "and" -> x \intersect y
                  [] op.kind = "or"  -> x \union y
                  [] op.kind = "xor" -> (x \ y) \union (y \ x)
<1>1. x \subseteq 0..(w - 1) /\ y \subseteq 0..(w - 1)
  BY DEF BitsOf
<1>2. EvalLogic(op, a, b) = Sem(w, PatternOf(w, S))
  BY DEF EvalLogic
<1> HIDE DEF x, y
<1>3. S \in SUBSET (0..(w - 1))
  BY <1>1 DEF Logic
<1>4. w \in Width
  BY OperandTyped
<1> HIDE DEF S, w
<1>5. PatternOf(w, S) \in Int
  <2>1. PatternOf(w, S) \in Pattern(w)
    BY <1>3, <1>4, PatternsOfAll, Zenon
  <2>2. Pattern(w) \subseteq Int
    BY <1>4, Halves DEF Pattern
  <2> QED BY <2>1, <2>2
<1>6. EvalLogic(op, a, b) \in IntOf(w)
  BY <1>2, <1>4, <1>5, SemTyped
<1> QED BY <1>6 DEF w

LEMMA ArithTyped ==
  ASSUME NEW op, op.kind \in Arith, NEW a \in SemValue, NEW b \in SemValue, a # Poison, b # Poison
  PROVE  EvalArith(op, a, b) \in Results(a.width)
<1> DEFINE s == Exact(op.kind, Signed(a), Signed(b))
<1>1. s \in Int
  <2>1. Signed(a) \in Int /\ Signed(b) \in Int
    BY OperandTyped
  <2> QED BY <2>1 DEF Exact, Arith
<1>2. EvalArith(op, a, b) \in {Poison, Sem(a.width, s)}
  BY DEF EvalArith
<1> HIDE DEF s
<1>3. Sem(a.width, s) \in IntOf(a.width)
  BY <1>1, OperandTyped, SemTyped
<1> QED BY <1>2, <1>3 DEF Results

(* The operands that a binary instruction or a cast is given in verified code. *)
Fitting(op, a, b) ==
  CASE op.kind \in Compare -> op.width = 1
    [] op.kind \in Casts -> IF op.kind = "trunc" THEN a.width > op.width ELSE a.width < op.width
    [] OTHER -> a.width = op.width /\ b.width = op.width

LEMMA DefinedTyped ==
  ASSUME NEW op, op.kind \in Binary \union Casts, op.width \in Width,
         NEW a \in SemValue, NEW b \in SemValue, a # Poison, b # Poison, Fitting(op, a, b),
         NEW r \in EvalDefined(op, a, b)
  PROVE  r \in Results(op.width) /\ EvalDefined(op, a, b) = {r}
<1>0. op.kind \notin Compare \union Casts => a.width = op.width /\ b.width = op.width
  BY DEF Fitting
<1>1. CASE op.kind \in Arith
  <2>0. a.width = op.width
    BY <1>1, <1>0 DEF Arith, Compare, Casts
  <2>1. EvalDefined(op, a, b) = {EvalArith(op, a, b)}
    BY <1>1 DEF EvalDefined, Arith, DivRem, Logic, Shifts, MinMax, Compare, Casts
  <2> QED BY <1>1, <2>0, <2>1, ArithTyped
<1>2. CASE op.kind \in DivRem
  <2>0. a.width = op.width
    BY <1>2, <1>0 DEF DivRem, Compare, Casts
  <2>1. EvalDefined(op, a, b) = EvalDivRem(op, a, b)
    BY <1>2 DEF EvalDefined, Arith, DivRem, Logic, Shifts, MinMax, Compare, Casts
  <2> QED BY <1>2, <2>0, <2>1, DivisionTyped
<1>3. CASE op.kind \in Logic
  <2>0. a.width = op.width
    BY <1>3, <1>0 DEF Logic, Compare, Casts
  <2>1. EvalDefined(op, a, b) = {EvalLogic(op, a, b)}
    BY <1>3 DEF EvalDefined, Arith, DivRem, Logic, Shifts, MinMax, Compare, Casts
  <2> QED BY <1>3, <2>0, <2>1, LogicTyped DEF Results
<1>4. CASE op.kind \in Shifts
  <2>0. a.width = op.width
    BY <1>4, <1>0 DEF Shifts, Compare, Casts
  <2>1. EvalDefined(op, a, b) = {EvalShift(op, a, b)}
    BY <1>4 DEF EvalDefined, Arith, DivRem, Logic, Shifts, MinMax, Compare, Casts
  <2> QED BY <1>4, <2>0, <2>1, ShiftTyped
<1>5. CASE op.kind \in MinMax
  <2>0. a.width = op.width /\ b.width = op.width
    BY <1>5, <1>0 DEF MinMax, Compare, Casts
  <2>1. EvalDefined(op, a, b) = {EvalMinMax(op, a, b)}
    BY <1>5 DEF EvalDefined, Arith, DivRem, Logic, Shifts, MinMax, Compare, Casts
  <2>2. EvalMinMax(op, a, b) \in {a, b}
    BY DEF EvalMinMax
  <2> QED BY <2>0, <2>1, <2>2, OperandTyped DEF Results
<1>6. CASE op.kind \in Compare
  <2>1. EvalDefined(op, a, b) = {Truth(Compares(op.kind, a.width, a.bits, b.bits))} /\ op.width = 1
    BY <1>6 DEF EvalDefined, Fitting, Arith, DivRem, Logic, Shifts, MinMax, Compare, Casts
  <2>2. \A t : Truth(t) \in IntOf(1)
    <3>1. Sem(1, 1) \in IntOf(1) /\ Sem(1, 0) \in IntOf(1)
      BY <2>1, SemTyped
    <3>2. \A t : Truth(t) = Sem(1, 1) \/ Truth(t) = Sem(1, 0)
      BY Zenon DEF Truth
    <3> QED BY <3>1, <3>2, Zenon
  <2> QED BY <2>1, <2>2 DEF Results
<1>7. CASE op.kind \in Casts
  <2>1. EvalDefined(op, a, b) = {EvalCast(op, a)}
    BY <1>7 DEF EvalDefined, Arith, DivRem, Logic, Shifts, MinMax, Compare, Casts
  <2>2. EvalCast(op, a) \in IntOf(op.width)
    BY OperandTyped, SemTyped DEF EvalCast
  <2> QED BY <2>1, <2>2 DEF Results
<1> QED BY <1>1, <1>2, <1>3, <1>4, <1>5, <1>6, <1>7 DEF Binary

LEMMA Arities ==
  ASSUME NEW op, op.kind \in Integral
  PROVE  /\ op.kind \in Binary => ArityOf(op) = 2
         /\ op.kind \in Casts \union {"freeze", "load"} => ArityOf(op) = 1
         /\ op.kind = "select" => ArityOf(op) = 3
  BY DEF ArityOf, Integral, Binary, Arith, DivRem, Logic, Shifts, MinMax, Compare, Casts

(* An instruction that passes poison on, on operands none of which is poison. *)
LEMMA DefinedResult ==
  ASSUME NEW op, op.kind \in Binary \union Casts,
         NEW args, DOMAIN args = 1..ArityOf(op), \A i \in DOMAIN args : args[i] # Poison,
         EvalInst(op, args) # {}
  PROVE  /\ EvalInst(op, args) = EvalDefined(op, args[1], args[ArityOf(op)])
         /\ Fitting(op, args[1], args[ArityOf(op)])
<1>1. WellTyped(op, args)
  BY DEF EvalInst
<1>2. op.kind \notin Opaque \union {"freeze", "select"} /\ op.kind # "load" /\ op.kind \in Integral
  BY DEF Opaque, Integral, Binary, Arith, DivRem, Logic, Shifts, MinMax, Compare, Casts
<1>3. EvalInst(op, args) = EvalDefined(op, args[1], args[ArityOf(op)])
  BY <1>1, <1>2 DEF EvalInst
<1>4. CASE op.kind \in Casts
  <2>1. ArityOf(op) = 1 /\ args[1] # Poison
    BY <1>2, <1>4, Arities
  <2>2. op.kind \notin Opaque /\ op.kind # "select" /\ op.kind # "freeze" /\ op.kind \notin Compare
    BY <1>4 DEF Opaque, Casts, Compare
  <2>3. CASE op.kind = "trunc"
    <3>1. args[1].width > op.width
      BY <1>1, <2>1, <2>2, <2>3 DEF WellTyped
    <3> QED BY <1>3, <1>4, <2>1, <2>2, <2>3, <3>1 DEF Fitting
  <2>4. CASE op.kind \in {"zext", "sext"}
    <3>1. args[1].width < op.width
      BY <1>1, <2>1, <2>2, <2>4 DEF WellTyped
    <3>2. op.kind # "trunc"
      BY <2>4
    <3> QED BY <1>3, <1>4, <2>1, <2>2, <3>1, <3>2 DEF Fitting
  <2> QED BY <1>4, <2>3, <2>4 DEF Casts
<1>5. CASE op.kind \in Compare
  <2>1. op.width = 1
    BY <1>1, <1>5 DEF WellTyped, Opaque, Compare
  <2>2. op.kind \notin Casts
    BY <1>5 DEF Compare, Casts
  <2> QED BY <1>3, <1>5, <2>1, <2>2 DEF Fitting
<1>6. CASE op.kind \notin Casts \union Compare
  <2>1. ArityOf(op) = 2 /\ args[1] # Poison /\ args[2] # Poison
    BY <1>2, <1>6, Arities
  <2>2. op.kind \notin Opaque \union {"select", "freeze", "trunc", "zext", "sext"}
    BY <1>2, <1>6 DEF Casts
  <2>3. args[1].width = op.width /\ args[2].width = op.width
    BY <1>1, <1>6, <2>1, <2>2, Zenon DEF WellTyped
  <2> QED BY <1>3, <1>6, <2>1, <2>3, Zenon DEF Fitting
<1> QED BY <1>4, <1>5, <1>6

LEMMA ResultsTyped ==
  ASSUME NEW op, op.kind \in Integral, op.kind # "load", op.width \in Width,
         NEW args, DOMAIN args = 1..ArityOf(op), \A i \in DOMAIN args : args[i] \in SemValue,
         NEW r \in EvalInst(op, args)
  PROVE  r \in Results(op.width) /\ EvalInst(op, args) = {r}
<1>1. WellTyped(op, args)
  BY DEF EvalInst
<1>2. CASE op.kind \in Binary \union Casts
  <2>1. CASE \E i \in DOMAIN args : args[i] = Poison
    <3>1. op.kind \notin Opaque \union {"freeze", "select"}
      BY <1>2 DEF Opaque, Binary, Arith, DivRem, Logic, Shifts, MinMax, Compare, Casts
    <3>2. EvalInst(op, args) = {Poison}
      BY <1>1, <2>1, <3>1 DEF EvalInst
    <3> QED BY <3>2 DEF Results
  <2>2. CASE \A i \in DOMAIN args : args[i] # Poison
    <3>1. /\ EvalInst(op, args) = EvalDefined(op, args[1], args[ArityOf(op)])
          /\ Fitting(op, args[1], args[ArityOf(op)])
      BY <1>2, <2>2, DefinedResult
    <3>2. 1 \in DOMAIN args /\ ArityOf(op) \in DOMAIN args
      BY <1>2, Arities
    <3> QED BY <1>2, <2>2, <3>1, <3>2, DefinedTyped
  <2> QED BY <2>1, <2>2
<1>3. CASE op.kind = "freeze"
  <2>1. 1 \in DOMAIN args /\ (args[1] # Poison => args[1].width = op.width)
    BY <1>1, <1>3, Arities DEF WellTyped, Opaque, Compare
  <2>2. EvalInst(op, args) = {IF args[1] = Poison THEN Sem(op.width, 0) ELSE args[1]}
    BY <1>1, <1>3 DEF EvalInst, Opaque
  <2>3. Sem(op.width, 0) \in IntOf(op.width)
    BY SemTyped
  <2>4. args[1] # Poison => args[1] \in IntOf(op.width)
    BY <2>1, OperandTyped
  <2> QED BY <2>2, <2>3, <2>4 DEF Results
<1>4. CASE op.kind = "select"
  <2>1. /\ {1, 2, 3} \subseteq DOMAIN args
        /\ args[2] # Poison => args[2].width = op.width
        /\ args[3] # Poison => args[3].width = op.width
    BY <1>1, <1>4, Arities DEF WellTyped, Opaque, Compare
  <2>2. EvalInst(op, args) = {IF args[1] = Poison THEN Poison ELSE IF args[1].bits = 0 THEN args[3] ELSE args[2]}
    BY <1>1, <1>4 DEF EvalInst, Opaque
  <2>3. /\ args[2] # Poison => args[2] \in IntOf(op.width)
        /\ args[3] # Poison => args[3] \in IntOf(op.width)
    BY <2>1, OperandTyped
  <2> QED BY <2>2, <2>3 DEF Results
<1> QED BY <1>2, <1>3, <1>4 DEF Integral

LEMMA ResultsAreValues ==
  ASSUME NEW op \in Opcode, NEW args, DOMAIN args = 1..ArityOf(op),
         \A i \in DOMAIN args : args[i] \in SemValue, NEW r \in EvalInst(op, args)
  PROVE  r \in SemValue
<1>1. op.kind \in Integral /\ op.width \in Width
  BY OpcodeAssumption
<1>2. CASE op.kind = "load"
  BY <1>2 DEF EvalInst, Opaque
<1>3. CASE op.kind # "load"
  <2>1. r \in Results(op.width)
    BY <1>1, <1>3, ResultsTyped
  <2> QED BY <1>1, <2>1 DEF Results, SemValue, Ints
<1> QED BY <1>2, <1>3

-----------------------------------------------------------------------------
(* Transfer over intervals *)

(* What RangeTransfer does with operands none of which is Bottom.            *)
LEMMA RangeTransferCases ==
  ASSUME NEW op, op.kind \in Integral, NEW args, DOMAIN args = 1..ArityOf(op),
         \A i \in DOMAIN args : args[i] \in RangeElem \ {RangeBottom}
  PROVE  /\ op.kind = "load" => RangeTransfer(op, args) = RangeTop
         /\ op.kind \in Arith =>
              /\ {args[1], args[2]} \subseteq Bounded =>
                   RangeTransfer(op, args) = RangeArith(op, args[1], args[2])
              /\ ~({args[1], args[2]} \subseteq Bounded) => RangeTransfer(op, args) = RangeTop
         /\ op.kind \in Logic => RangeTransfer(op, args) = Full(op.width)
         /\ op.kind \in Compare => RangeTransfer(op, args) = RangeIcmp(op, args[1], args[2])
         /\ op.kind \in Casts =>
              /\ args[1] \in Bounded => RangeTransfer(op, args) = RangeCast(op, args[1])
              /\ args[1] \notin Bounded => RangeTransfer(op, args) = RangeTop
         /\ op.kind \notin Arith \union Logic \union Compare \union Casts => RangeTransfer(op, args) = RangeTop
<1> DEFINE some == {args[i] : i \in DOMAIN args}
<1>1. RangeTransfer(op, args) =
        CASE op.kind \in Opaque -> RangeTop
          [] op.kind \notin Opaque /\ RangeBottom \in some -> RangeBottom
          [] OTHER ->
               CASE op.kind \in Arith -> IF RangeTop \in some THEN RangeTop
                                         ELSE RangeArith(op, args[1], args[2])
                 [] op.kind \in Logic -> Full(op.width)
                 [] op.kind \in Compare -> RangeIcmp(op, args[1], args[2])
                 [] op.kind \in Casts -> IF RangeTop \in some THEN RangeTop
                                         ELSE RangeCast(op, args[1])
                 [] OTHER -> RangeTop
  BY DEF RangeTransfer
<1>2. RangeBottom \notin some
  OBVIOUS
<1>3. op.kind \in Arith => (RangeTop \in some <=> ~({args[1], args[2]} \subseteq Bounded))
  <2>1. op.kind \in Arith => DOMAIN args = 1..2
    BY Arities DEF Binary
  <2>2. op.kind \in Arith => some = {args[1], args[2]}
    BY <2>1
  <2>3. some \subseteq RangeElem \ {RangeBottom}
    OBVIOUS
  <2> HIDE DEF some
  <2> QED BY <2>2, <2>3, RangeKinds
<1>4. op.kind \in Casts => (RangeTop \in some <=> args[1] \notin Bounded)
  <2>1. op.kind \in Casts => DOMAIN args = 1..1
    BY Arities
  <2>2. op.kind \in Casts => some = {args[1]}
    BY <2>1
  <2>3. some \subseteq RangeElem \ {RangeBottom}
    OBVIOUS
  <2> HIDE DEF some
  <2> QED BY <2>2, <2>3, RangeKinds
<1> HIDE DEF some
<1>5. op.kind = "load" => RangeTransfer(op, args) = RangeTop
  BY <1>1 DEF Opaque
<1>6. ASSUME op.kind \in Arith
      PROVE  RangeTransfer(op, args) = IF RangeTop \in some THEN RangeTop ELSE RangeArith(op, args[1], args[2])
  BY <1>1, <1>2, <1>6 DEF Opaque, Arith, Logic, Compare, Casts
<1>7. op.kind \in Logic => RangeTransfer(op, args) = Full(op.width)
  BY <1>1, <1>2 DEF Opaque, Arith, Logic, Compare, Casts
<1>8. op.kind \in Compare => RangeTransfer(op, args) = RangeIcmp(op, args[1], args[2])
  BY <1>1, <1>2 DEF Opaque, Arith, Logic, Compare, Casts
<1>9. ASSUME op.kind \in Casts
      PROVE  RangeTransfer(op, args) = IF RangeTop \in some THEN RangeTop ELSE RangeCast(op, args[1])
  BY <1>1, <1>2, <1>9 DEF Opaque, Arith, Logic, Compare, Casts
<1>10. op.kind \notin Arith \union Logic \union Compare \union Casts => RangeTransfer(op, args) = RangeTop
  BY <1>1, <1>2
<1> QED BY <1>3, <1>4, <1>5, <1>6, <1>7, <1>8, <1>9, <1>10

(* A transfer is sound for operands that are not poison.                     *)
LEMMA RangeTransferSound ==
  ASSUME NEW op \in Opcode, NEW args, NEW vals,
         DOMAIN args = 1..ArityOf(op), DOMAIN vals = DOMAIN args,
         \A i \in DOMAIN args : /\ args[i] \in RangeElem
                                /\ vals[i] \in RangeGamma(args[i]) \ {Poison},
         NEW r \in EvalInst(op, vals)
  PROVE  RangeTransfer(op, args) \in RangeElem /\ r \in RangeGamma(RangeTransfer(op, args))
<1>0. op.kind \in Integral /\ op.width \in Width
  BY OpcodeAssumption
<1>1. \A i \in DOMAIN args : args[i] \in RangeElem \ {RangeBottom} /\ vals[i] \in SemValue
  BY RangeKinds, RangeContainment
<1>2. r \in SemValue
  BY <1>1, ResultsAreValues
<1> DEFINE x == args[1]
           y == args[2]
           a == vals[1]
           b == vals[ArityOf(op)]
<1>3. op.kind \in Binary \union Casts =>
        EvalInst(op, vals) = EvalDefined(op, a, b) /\ Fitting(op, a, b)
  BY DefinedResult
<1>4. CASE op.kind \in Arith
  <2>1. ArityOf(op) = 2 /\ {x, y} \subseteq RangeElem
    BY <1>0, <1>4, Arities DEF Binary
  <2>2. CASE {x, y} \subseteq Bounded
    <3>1. RangeTransfer(op, args) = RangeArith(op, x, y)
      BY <1>0, <1>1, <1>4, <2>2, RangeTransferCases
    <3>2. EvalDefined(op, a, b) = {EvalArith(op, a, b)} /\ a.width = op.width /\ b.width = op.width
      <4>1. op.kind \notin Compare \union Casts /\ op.kind \in Binary \union Casts
        BY <1>4 DEF Arith, Compare, Casts, Binary
      <4>2. a.width = op.width /\ b.width = op.width
        BY <1>3, <4>1, Zenon DEF Fitting
      <4>3. EvalDefined(op, a, b) = {EvalArith(op, a, b)}
        BY <1>4 DEF EvalDefined, Arith, DivRem, Logic, Shifts, MinMax, Compare, Casts
      <4> QED BY <4>2, <4>3
    <3>3. r = EvalArith(op, a, b)
      BY <1>3, <1>4, <3>2 DEF Binary
    <3>4. a \in RangeGamma(x) /\ b \in RangeGamma(y)
      BY <2>1
    <3> QED BY <1>0, <1>4, <2>2, <3>1, <3>2, <3>3, <3>4, ArithCovers, ArithElement
  <2>3. CASE ~({x, y} \subseteq Bounded)
    <3>1. RangeTransfer(op, args) = RangeTop
      BY <1>0, <1>1, <1>4, <2>3, RangeTransferCases
    <3> QED BY <1>2, <3>1, RangeKinds
  <2> QED BY <2>2, <2>3
<1>5. CASE op.kind \in Logic
  <2>1. ArityOf(op) = 2
    BY <1>0, <1>5, Arities DEF Binary
  <2>2. EvalDefined(op, a, b) = {EvalLogic(op, a, b)} /\ a.width = op.width
    <3>1. op.kind \notin Compare \union Casts /\ op.kind \in Binary \union Casts
      BY <1>5 DEF Logic, Compare, Casts, Binary
    <3>2. a.width = op.width
      BY <1>3, <3>1, Zenon DEF Fitting
    <3>3. EvalDefined(op, a, b) = {EvalLogic(op, a, b)}
      BY <1>5 DEF EvalDefined, Arith, DivRem, Logic, Shifts, MinMax, Compare, Casts
    <3> QED BY <3>2, <3>3
  <2>3. r = EvalLogic(op, a, b)
    BY <1>3, <1>5, <2>2 DEF Binary
  <2>4. a \in SemValue /\ b \in SemValue /\ a # Poison /\ b # Poison
    BY <1>1, <2>1
  <2>5. r \in IntOf(op.width)
    BY <1>5, <2>2, <2>3, <2>4, LogicTyped
  <2>6. RangeTransfer(op, args) = Full(op.width)
    BY <1>0, <1>1, <1>5, RangeTransferCases
  <2> QED BY <1>0, <2>5, <2>6, FullMeaning, RangeKinds
<1>6. CASE op.kind \in Compare
  <2>1. ArityOf(op) = 2
    BY <1>0, <1>6, Arities DEF Binary
  <2>2. op.width = 1
    <3>1. Fitting(op, a, b)
      BY <1>3, <1>6 DEF Binary
    <3>2. op.kind \notin Casts
      BY <1>6 DEF Compare, Casts
    <3> QED BY <1>6, <3>1, <3>2 DEF Fitting
  <2>3. EvalDefined(op, a, b) = {Truth(Compares(op.kind, a.width, a.bits, b.bits))}
    BY <1>6 DEF EvalDefined, Arith, DivRem, Logic, Shifts, MinMax, Compare, Casts
  <2>4. r = Truth(Compares(op.kind, a.width, a.bits, b.bits))
    BY <1>3, <1>6, <2>3 DEF Binary
  <2>5. RangeTransfer(op, args) = RangeIcmp(op, x, y)
    BY <1>0, <1>1, <1>6, RangeTransferCases
  <2>6. /\ x \in RangeElem \ {RangeBottom} /\ y \in RangeElem \ {RangeBottom}
        /\ a \in RangeGamma(x) /\ b \in RangeGamma(y) /\ Poison \notin {a, b}
    BY <1>1, <2>1
  <2> QED BY <1>0, <1>6, <2>2, <2>4, <2>5, <2>6, IcmpCovers
<1>7. CASE op.kind \in Casts
  <2>1. ArityOf(op) = 1 /\ x \in RangeElem /\ a \in RangeGamma(x) /\ b = a
    BY <1>0, <1>7, Arities
  <2>2. CASE x \in Bounded
    <3>1. RangeTransfer(op, args) = RangeCast(op, x)
      BY <1>0, <1>1, <1>7, <2>2, RangeTransferCases
    <3>2. EvalDefined(op, a, b) = {EvalCast(op, a)}
      BY <1>7 DEF EvalDefined, Arith, DivRem, Logic, Shifts, MinMax, Compare, Casts
    <3>3. r = EvalCast(op, a)
      BY <1>3, <1>7, <3>2
    <3>4. IF op.kind = "trunc" THEN a.width > op.width ELSE a.width < op.width
      BY <1>3, <1>7 DEF Fitting, Casts, Compare
    <3> QED BY <1>0, <1>7, <2>1, <2>2, <3>1, <3>3, <3>4, CastCovers
  <2>3. CASE x \notin Bounded
    <3>1. RangeTransfer(op, args) = RangeTop
      BY <1>0, <1>1, <1>7, <2>3, RangeTransferCases
    <3> QED BY <1>2, <3>1, RangeKinds
  <2> QED BY <2>2, <2>3
<1>8. CASE op.kind \notin Arith \union Logic \union Compare \union Casts
  <2>1. RangeTransfer(op, args) = RangeTop
    BY <1>0, <1>1, <1>8, RangeTransferCases
  <2> QED BY <1>2, <2>1, RangeKinds
<1> QED BY <1>4, <1>5, <1>6, <1>7, <1>8

(* Knowing less of the operands never yields more of the result.             *)
LEMMA RangeTransferMonotone ==
  ASSUME NEW op \in Opcode, op.kind \in Compare => op.width = 1,
         NEW args, NEW args2, DOMAIN args = 1..ArityOf(op), DOMAIN args2 = DOMAIN args,
         \A i \in DOMAIN args : /\ args[i] \in RangeElem \ {RangeBottom} /\ args2[i] \in RangeElem
                                /\ RangeLeq(args[i], args2[i])
  PROVE  /\ RangeTransfer(op, args) \in RangeElem /\ RangeTransfer(op, args2) \in RangeElem
         /\ RangeLeq(RangeTransfer(op, args), RangeTransfer(op, args2))
<1>0. op.kind \in Integral /\ op.width \in Width
  BY OpcodeAssumption
<1>1. \A i \in DOMAIN args : args2[i] \in RangeElem \ {RangeBottom}
  BY RangeKinds DEF RangeLeq
<1> DEFINE x == args[1]
           y == args[2]
           x2 == args2[1]
           y2 == args2[2]
<1>2. CASE op.kind \in Arith
  <2>1. /\ x \in RangeElem /\ y \in RangeElem /\ x2 \in RangeElem /\ y2 \in RangeElem
        /\ RangeLeq(x, x2) /\ RangeLeq(y, y2)
    BY <1>0, <1>2, Arities DEF Binary
  <2>2. ASSUME {x, y} \subseteq Bounded PROVE RangeTransfer(op, args) = RangeArith(op, x, y)
    BY <1>0, <1>2, <2>2, RangeTransferCases
  <2>3. ASSUME ~({x, y} \subseteq Bounded) PROVE RangeTransfer(op, args) = RangeTop
    BY <1>0, <1>2, <2>3, RangeTransferCases
  <2>4. ASSUME {x2, y2} \subseteq Bounded PROVE RangeTransfer(op, args2) = RangeArith(op, x2, y2)
    BY <1>0, <1>1, <1>2, <2>4, RangeTransferCases
  <2>5. ASSUME ~({x2, y2} \subseteq Bounded) PROVE RangeTransfer(op, args2) = RangeTop
    BY <1>0, <1>1, <1>2, <2>5, RangeTransferCases
  <2>6. RangeTransfer(op, args) \in RangeElem /\ RangeTransfer(op, args2) \in RangeElem
    BY <1>0, <1>2, <2>2, <2>3, <2>4, <2>5, ArithElement, RangeKinds
  <2>7. CASE {x2, y2} \subseteq Bounded
    <3>1. x # RangeBottom /\ y # RangeBottom
      BY <1>0, <1>2, Arities DEF Binary
    <3>2. {x, y} \subseteq Bounded
      BY <2>1, <2>7, <3>1, RangeKinds DEF RangeLeq
    <3> QED BY <1>0, <1>2, <2>1, <2>2, <2>4, <2>6, <2>7, <3>2, ArithMonotone
  <2>8. CASE ~({x2, y2} \subseteq Bounded)
    BY <2>5, <2>6, <2>8, RangeOrder
  <2> QED BY <2>6, <2>7, <2>8
<1>3. CASE op.kind \in Logic
  <2>1. RangeTransfer(op, args) = Full(op.width) /\ RangeTransfer(op, args2) = Full(op.width)
    BY <1>0, <1>1, <1>3, RangeTransferCases
  <2> QED BY <1>0, <2>1, FullMeaning, RangeOrder, RangeKinds
<1>4. CASE op.kind \in Compare
  <2>1. /\ RangeTransfer(op, args) = RangeIcmp(op, x, y)
        /\ RangeTransfer(op, args2) = RangeIcmp(op, x2, y2)
    BY <1>0, <1>1, <1>4, RangeTransferCases
  <2>2. /\ x \in RangeElem \ {RangeBottom} /\ y \in RangeElem \ {RangeBottom}
        /\ x2 \in RangeElem \ {RangeBottom} /\ y2 \in RangeElem \ {RangeBottom}
        /\ RangeLeq(x, x2) /\ RangeLeq(y, y2)
    BY <1>0, <1>1, <1>4, Arities DEF Binary
  <2> QED BY <1>0, <1>4, <2>1, <2>2, IcmpCovers, IcmpMonotone
<1>5. CASE op.kind \in Casts
  <2>1. x \in RangeElem \ {RangeBottom} /\ x2 \in RangeElem \ {RangeBottom} /\ RangeLeq(x, x2)
    BY <1>0, <1>1, <1>5, Arities
  <2>2. /\ x \in Bounded => RangeTransfer(op, args) = RangeCast(op, x)
        /\ x \notin Bounded => RangeTransfer(op, args) = RangeTop
        /\ x2 \in Bounded => RangeTransfer(op, args2) = RangeCast(op, x2)
        /\ x2 \notin Bounded => RangeTransfer(op, args2) = RangeTop
    BY <1>0, <1>1, <1>5, RangeTransferCases
  <2>3. RangeTransfer(op, args) \in RangeElem /\ RangeTransfer(op, args2) \in RangeElem
    BY <1>0, <1>5, <2>2, CastCovers, RangeKinds
  <2>4. CASE x2 \in Bounded
    <3>1. x \in Bounded
      BY <2>1, <2>4, RangeKinds DEF RangeLeq
    <3> QED BY <1>0, <1>5, <2>1, <2>2, <2>3, <2>4, <3>1, CastMonotone
  <2>5. CASE x2 \notin Bounded
    BY <2>2, <2>3, <2>5, RangeOrder
  <2> QED BY <2>4, <2>5
<1>6. CASE op.kind \notin Arith \union Logic \union Compare \union Casts
  <2>1. RangeTransfer(op, args) = RangeTop /\ RangeTransfer(op, args2) = RangeTop
    BY <1>0, <1>1, <1>6, RangeTransferCases
  <2> QED BY <2>1, RangeOrder, RangeKinds
<1> QED BY <1>2, <1>3, <1>4, <1>5, <1>6

LEMMA ConstsTyped ==
  ASSUME NEW c \in Consts
  PROVE  /\ ToSem(c) \in SemValue
         /\ c # Poison => /\ c.width \in Width /\ c.value \in Int /\ c = IntConst(c.width, c.value)
                          /\ ToSem(c) = Sem(c.width, c.value) /\ ToSem(c) # Poison
<1>1. CASE c = Poison
  BY <1>1 DEF ToSem, SemValue
<1>2. CASE c # Poison
  <2>0. PICK w \in Width : c \in {IntConst(w, v) : v \in IntMin(w) .. 2^w - 1}
    BY <1>2 DEF Consts
  <2>1. PICK v \in IntMin(w) .. 2^w - 1 : c = IntConst(w, v)
    BY <2>0
  <2>2. v \in Int
    BY Halves
  <2>3. c.width \in Width /\ c.value \in Int /\ c = IntConst(c.width, c.value)
    BY <2>1, <2>2 DEF IntConst
  <2>4. ToSem(c) = Sem(c.width, c.value)
    BY <1>2 DEF ToSem
  <2> QED BY <2>3, <2>4, SemTyped
<1> QED BY <1>1, <1>2

LEMMA RangeAbstractSound ==
  ASSUME NEW c \in Consts
  PROVE  RangeAbstract(c) \in RangeElem /\ ToSem(c) \in RangeGamma(RangeAbstract(c))
<1>1. CASE c = Poison
  BY <1>1, ConstsTyped, RangeKinds DEF RangeAbstract
<1>2. CASE c # Poison
  <2>1. RangeAbstract(c) = Singleton(c.width, c.value)
    BY <1>2 DEF RangeAbstract
  <2> QED BY <1>2, <2>1, ConstsTyped, SingletonMeaning, RangeKinds
<1> QED BY <1>1, <1>2

LEMMA RangeFeasibleSound ==
  ASSUME NEW x \in RangeElem, NEW v \in RangeGamma(x), NEW g, CondHolds(v, g)
  PROVE  RangeFeasible(x, g)
<1> SUFFICES ASSUME g[1] = "is", x \in Bounded, x.width = 1
             PROVE  IF g[2] THEN x.lo <= -1 /\ -1 <= x.hi ELSE x.lo <= 0 /\ 0 <= x.hi
  BY RangeKinds DEF RangeFeasible
<1>1. (v.bits # 0) = g[2]
  BY DEF CondHolds
<1>2. v \in IntOf(1) /\ 1 \in Width /\ x.lo <= Signed(v) /\ Signed(v) <= x.hi
  BY BoundedMeaning, BoundedShape
<1>3. 2^1 = 2 /\ 2^(1 - 1) = 1
  OBVIOUS
<1>4. v.bits \in {0, 1} /\ v.width = 1
  BY <1>2, <1>3 DEF IntOf, Pattern
<1>5. v.bits = 0 => Signed(v) = 0
  BY <1>3, <1>4 DEF Signed, SignedBits
<1>6. v.bits = 1 => Signed(v) = -1
  BY <1>3, <1>4 DEF Signed, SignedBits
<1>7. CASE v.bits = 0
  <2>1. ~g[2]
    BY <1>1, <1>7, Zenon
  <2> QED BY <1>2, <1>5, <1>7, <2>1, Zenon
<1>8. CASE v.bits = 1
  <2>1. v.bits # 0
    BY <1>8
  <2>2. g[2]
    BY <1>1, <2>1, Zenon
  <2> QED BY <1>2, <1>6, <1>8, <2>2, Zenon
<1> QED BY <1>4, <1>7, <1>8

-----------------------------------------------------------------------------
(* The flat lattice of constants *)

LEMMA ConstKinds ==
  /\ ConstBottom # ConstTop /\ ConstBottom \notin Consts /\ ConstTop \notin Consts
  /\ ConstGamma(ConstBottom) = {} /\ ConstGamma(ConstTop) = SemValue
  /\ \A c \in Consts : ConstGamma(c) = {ToSem(c)}
BY ConstAssumption DEF ConstGamma

LEMMA ConstOrder ==
  /\ \A x \in ConstElem : ConstLeq(x, x) /\ ConstLeq(x, ConstTop) /\ ConstGamma(x) \subseteq SemValue
  /\ \A x, y, z \in ConstElem : ConstLeq(x, y) /\ ConstLeq(y, z) => ConstLeq(x, z)
  /\ \A x, y \in ConstElem : ConstLeq(x, y) => ConstGamma(x) \subseteq ConstGamma(y)
<1>1. \A x \in ConstElem : ConstGamma(x) \subseteq SemValue
  BY ConstKinds, ConstsTyped DEF ConstElem
<1>2. \A x, y, z \in ConstElem : ConstLeq(x, y) /\ ConstLeq(y, z) => ConstLeq(x, z)
  BY ConstKinds DEF ConstLeq
<1>3. \A x, y \in ConstElem : ConstLeq(x, y) => ConstGamma(x) \subseteq ConstGamma(y)
  BY <1>1, ConstKinds DEF ConstLeq
<1> QED BY <1>1, <1>2, <1>3 DEF ConstLeq

LEMMA ConstBounds ==
  ASSUME NEW x \in ConstElem, NEW y \in ConstElem
  PROVE  /\ ConstJoin(x, y) \in ConstElem
         /\ ConstLeq(x, ConstJoin(x, y)) /\ ConstLeq(y, ConstJoin(x, y))
         /\ \A z \in ConstElem : ConstLeq(x, z) /\ ConstLeq(y, z) => ConstLeq(ConstJoin(x, y), z)
BY ConstKinds DEF ConstJoin, ConstLeq, ConstElem

(* A result goes back into the pool as the constant it is the value of.      *)
LEMMA FromSemBack ==
  ASSUME NEW w \in Width, NEW r \in Results(w)
  PROVE  FromSem(w, r) \in Consts /\ ToSem(FromSem(w, r)) = r
<1>1. CASE r = Poison
  BY <1>1 DEF FromSem, Consts, ToSem
<1>2. CASE r # Poison
  <2>1. r \in IntOf(w) /\ FromSem(w, r) = IntConst(w, r.bits)
    BY <1>2 DEF Results, FromSem
  <2>2. r.bits \in IntMin(w) .. 2^w - 1 /\ r.bits \in Nat
    <3> DEFINE m == 2^w
               n == 2^(w - 1)
               b == r.bits
    <3>1. b \in 0..(m - 1) /\ m \in Nat /\ n \in Nat /\ IntMin(w) = -n
      BY <2>1, SignedRange, Halves
    <3> HIDE DEF m, n, b
    <3>2. b \in (-n) .. m - 1 /\ b \in Nat
      BY <3>1
    <3> QED BY <3>1, <3>2 DEF m, b
  <2>3. FromSem(w, r) \in Consts
    BY <2>1, <2>2 DEF Consts
  <2>4. FromSem(w, r) # Poison
    <3>1. IntConst(w, r.bits) \in [width : Nat, value : Int]
      BY <2>2, Halves DEF IntConst
    <3> QED BY <2>1, <3>1, PoisonAssumption
  <2>5. ToSem(FromSem(w, r)) = Sem(w, r.bits)
    BY <2>1, <2>4 DEF ToSem, IntConst
  <2> QED BY <2>1, <2>3, <2>5, SemSigned
<1> QED BY <1>1, <1>2

(* Folding is the semantics itself.                                          *)
LEMMA ConstTransferSound ==
  ASSUME NEW op \in Opcode, NEW args, NEW vals,
         DOMAIN args = 1..ArityOf(op), DOMAIN vals = DOMAIN args,
         vals = [i \in DOMAIN vals |-> vals[i]],
         \A i \in DOMAIN args : args[i] \in ConstElem /\ vals[i] \in ConstGamma(args[i]),
         NEW r \in EvalInst(op, vals)
  PROVE  ConstTransfer(op, args) \in ConstElem /\ r \in ConstGamma(ConstTransfer(op, args))
<1>0. op.kind \in Integral /\ op.width \in Width
  BY OpcodeAssumption
<1>1. \A i \in DOMAIN args : args[i] # ConstBottom /\ vals[i] \in SemValue
  BY ConstKinds, ConstOrder
<1>2. r \in SemValue
  BY <1>1, ResultsAreValues
<1> DEFINE elems == {args[i] : i \in DOMAIN args}
           folded == [i \in DOMAIN args |-> ToSem(args[i])]
           results == EvalInst(op, folded)
<1>3. ConstTransfer(op, args) =
        IF op.kind \in Opaque THEN ConstTop
        ELSE IF ConstBottom \in elems THEN ConstBottom
        ELSE IF ConstTop \in elems \/ results = {} THEN ConstTop
        ELSE FromSem(op.width, CHOOSE s \in results : TRUE)
  BY DEF ConstTransfer
<1>4. ConstBottom \notin elems
  BY <1>1
<1>5. CASE op.kind \in Opaque \/ ConstTop \in elems
  <2>1. ConstTransfer(op, args) = ConstTop
    BY <1>3, <1>4, <1>5
  <2> QED BY <1>2, <2>1, ConstKinds DEF ConstElem
<1>6. CASE op.kind \notin Opaque /\ ConstTop \notin elems
  <2>1. \A i \in DOMAIN args : args[i] \in Consts /\ vals[i] = ToSem(args[i])
    BY <1>4, <1>6, ConstKinds DEF ConstElem
  <2>2. vals = folded
    BY <2>1
  <2>3. op.kind # "load"
    BY <1>6 DEF Opaque
  <2>4. r \in Results(op.width) /\ results = {r}
    <3>1. EvalInst(op, vals) = {r} /\ r \in Results(op.width)
      BY <1>0, <1>1, <2>3, ResultsTyped
    <3> QED BY <2>2, <3>1
  <2> HIDE DEF results, elems
  <2>5. (CHOOSE s \in results : TRUE) = r
    BY <2>4
  <2>6. ConstTransfer(op, args) = FromSem(op.width, r)
    BY <1>3, <1>4, <1>6, <2>4, <2>5
  <2>7. FromSem(op.width, r) \in Consts /\ ToSem(FromSem(op.width, r)) = r
    BY <1>0, <2>4, FromSemBack
  <2> QED BY <2>6, <2>7, ConstKinds DEF ConstElem
<1> QED BY <1>5, <1>6

LEMMA ConstTransferMonotone ==
  ASSUME NEW op, NEW args, NEW args2, DOMAIN args2 = DOMAIN args,
         ConstTransfer(op, args) \in ConstElem,
         \A i \in DOMAIN args : /\ args[i] \in ConstElem \ {ConstBottom} /\ args2[i] \in ConstElem
                                /\ ConstLeq(args[i], args2[i])
  PROVE  /\ ConstTransfer(op, args2) \in ConstElem
         /\ ConstLeq(ConstTransfer(op, args), ConstTransfer(op, args2))
<1>1. \A i \in DOMAIN args : args2[i] = ConstTop \/ args2[i] = args[i]
  BY ConstKinds DEF ConstLeq
<1>2. CASE \E i \in DOMAIN args : args2[i] = ConstTop
  <2>1. ConstBottom \notin {args2[i] : i \in DOMAIN args2} /\ ConstTop \in {args2[i] : i \in DOMAIN args2}
    BY <1>1, <1>2, ConstKinds
  <2>2. ConstTransfer(op, args2) = ConstTop
    BY <2>1 DEF ConstTransfer
  <2> QED BY <2>2 DEF ConstLeq, ConstElem
<1>3. CASE \A i \in DOMAIN args : args2[i] = args[i]
  <2>1. {args2[i] : i \in DOMAIN args2} = {args[i] : i \in DOMAIN args}
    BY <1>3
  <2>2. [i \in DOMAIN args2 |-> ToSem(args2[i])] = [i \in DOMAIN args |-> ToSem(args[i])]
    BY <1>3
  <2>3. ConstTransfer(op, args2) = ConstTransfer(op, args)
    <3> DEFINE Folded(elems, vals) ==
                 IF op.kind \in Opaque THEN ConstTop
                 ELSE IF ConstBottom \in elems THEN ConstBottom
                 ELSE IF ConstTop \in elems \/ EvalInst(op, vals) = {} THEN ConstTop
                 ELSE FromSem(op.width, CHOOSE r \in EvalInst(op, vals) : TRUE)
    <3>1. ConstTransfer(op, args2) =
            Folded({args2[i] : i \in DOMAIN args2}, [i \in DOMAIN args2 |-> ToSem(args2[i])])
      BY DEF ConstTransfer
    <3>2. ConstTransfer(op, args) =
            Folded({args[i] : i \in DOMAIN args}, [i \in DOMAIN args |-> ToSem(args[i])])
      BY DEF ConstTransfer
    <3> HIDE DEF Folded
    <3> QED BY <2>1, <2>2, <3>1, <3>2, Zenon
  <2> QED BY <2>3, ConstOrder
<1> QED BY <1>1, <1>2, <1>3

LEMMA ConstFeasibleSound ==
  ASSUME NEW x \in ConstElem, NEW v \in ConstGamma(x), NEW g, CondHolds(v, g)
  PROVE  ConstFeasible(x, g)
<1>1. CASE x = ConstTop
  BY <1>1, ConstKinds DEF ConstFeasible
<1>2. CASE x \in Consts
  <2>1. v = ToSem(x)
    BY <1>2, ConstKinds
  <2>2. CondHolds(ToSem(x), g)
    BY <2>1
  <2> QED BY <1>2, <2>2, ConstKinds, Zenon DEF ConstFeasible
<1> QED BY <1>1, <1>2, ConstKinds DEF ConstElem

-----------------------------------------------------------------------------
(* The bits of an integer *)

LEMMA PowersAdd ==
  ASSUME NEW w \in Width, NEW i \in Nat, NEW j \in Nat, i + j <= w
  PROVE  2^(i + j) = 2^i * 2^j
<1> DEFINE T == {n \in Nat : i + n <= w => 2^(i + n) = 2^i * 2^n}
<1>1. w \in Nat /\ i \in 0..w /\ 2^i \in Nat \ {0}
  <2>1. w \in Nat
    BY Powers
  <2>2. i \in 0..w
    BY <2>1
  <2> QED BY <2>1, <2>2, Powers
<1>2. 0 \in T
  <2>1. 2^(i + 0) = 2^i /\ 2^0 = 1
    OBVIOUS
  <2>2. \A p \in Nat : p = p * 1
    OBVIOUS
  <2> QED BY <1>1, <2>1, <2>2
<1>3. ASSUME NEW n \in Nat, n \in T PROVE n + 1 \in T
  <2>1. CASE i + (n + 1) <= w
    <3>1. 2^(i + n) = 2^i * 2^n
      BY <1>1, <1>3, <2>1
    <3>2. 2^(i + (n + 1)) = 2 * 2^(i + n)
      <4>1. (i + (n + 1)) \in 1..w /\ (i + (n + 1)) - 1 = i + n
        BY <1>1, <2>1
      <4> QED BY <4>1, Powers
    <3>3. 2^(n + 1) = 2 * 2^n /\ 2^n \in Nat
      <4>1. n + 1 \in 1..w /\ (n + 1) - 1 = n /\ n \in 0..w
        BY <1>1, <2>1
      <4> QED BY <4>1, Powers
    <3> DEFINE p == 2^i
               q == 2^n
    <3>4. p \in Nat /\ q \in Nat
      BY <1>1, <3>3
    <3>5. 2 * (p * q) = p * (2 * q)
      <4> HIDE DEF p, q
      <4> QED BY <3>4
    <3>6. 2^(i + (n + 1)) = 2^i * 2^(n + 1)
      BY <3>1, <3>2, <3>3, <3>5
    <3> QED BY <3>6
  <2> QED BY <2>1
<1>4. Nat \subseteq T
  <2> HIDE DEF T
  <2> QED BY <1>2, <1>3, NatsIn
<1> QED BY <1>4

(* One more bit of a remainder.                                              *)
LEMMA Doubled ==
  ASSUME NEW m \in Nat \ {0}, NEW v \in Int
  PROVE  /\ v % (2 * m) = (v % m) + m * ((v \div m) % 2)
         /\ v \div (2 * m) = (v \div m) \div 2
<1> DEFINE q == v \div m
           r == v % m
           e == q % 2
           h == q \div 2
<1>1. r \in 0..(m - 1) /\ q \in Int /\ v = m * q + r
  BY Remainder
<1>2. e \in 0..1 /\ h \in Int /\ q = 2 * h + e
  BY <1>1, 2 \in Nat \ {0}, Remainder
<1> HIDE DEF q, r, e, h
<1>3. 2 * m \in Nat \ {0} /\ m * e + r \in 0..(2 * m - 1)
  <2>1. CASE e = 0
    BY <1>1, <2>1
  <2>2. CASE e = 1
    BY <1>1, <2>2
  <2> QED BY <1>2, <2>1, <2>2
<1>4. v = (2 * m) * h + (m * e + r)
  BY <1>1, <1>2
<1>5. v % (2 * m) = m * e + r /\ v \div (2 * m) = h
  <2> DEFINE s == m * e + r
             d == 2 * m
  <2>1. d \in Nat \ {0} /\ s \in 0..(d - 1) /\ v = d * h + s
    BY <1>3, <1>4
  <2> HIDE DEF s, d
  <2>2. v % d = s /\ v \div d = h
    BY <1>2, <2>1, RemainderOf
  <2> QED BY <2>2 DEF s, d
<1>6. m * e + r = r + m * e
  BY <1>1, <1>2
<1> QED BY <1>5, <1>6 DEF q, r, e, h

Bit(v, i) == (v \div 2^i) % 2

LEMMA BitTyped ==
  ASSUME NEW w \in Width, NEW v \in Int, NEW i \in 0..(w - 1)
  PROVE  /\ 2^i \in Nat \ {0} /\ v \div 2^i \in Int /\ Bit(v, i) \in {0, 1}
         /\ i \in BitsOf(w, v) <=> Bit(v, i) = 1
<1>1. 2^i \in Nat \ {0}
  <2>1. i \in 0..w
    BY Powers
  <2> QED BY <2>1, Powers
<1> DEFINE p == 2^i
<1>2. v \div p \in Int
  <2>1. p \in Nat \ {0}
    BY <1>1
  <2> HIDE DEF p
  <2> QED BY <2>1, Remainder
<1>3. \A z \in Int : z % 2 \in {0, 1}
  OBVIOUS
<1>4. Bit(v, i) \in {0, 1}
  BY <1>2, <1>3 DEF Bit
<1> QED BY <1>1, <1>2, <1>4 DEF Bit, BitsOf

(* What is a multiple of the next power leaves a bit as it is.               *)
LEMMA BitAbove ==
  ASSUME NEW w \in Width, NEW v \in Int, NEW i \in 0..(w - 1), NEW n \in (i + 1)..w, NEW q \in Int
  PROVE  Bit(v + 2^n * q, i) = Bit(v, i)
<1>1. PICK k \in Nat \ {0} : 2^n = 2^(i + 1) * k
  <2>1. i + 1 \in 0..w
    BY Powers
  <2> QED BY <2>1, PowersDivide
<1>2. 2^(i + 1) = 2 * 2^i
  <2>1. i + 1 \in 1..w /\ (i + 1) - 1 = i
    BY Powers
  <2> QED BY <2>1, Powers
<1> DEFINE p == 2^i
           a == v \div p
           r == v % p
<1>3. p \in Nat \ {0}
  BY BitTyped
<1>4. a \in Int /\ r \in 0..(p - 1) /\ v = p * a + r
  <2> HIDE DEF p
  <2> QED BY <1>3, Remainder
<1>5. 2^n * q = (2 * p * k) * q
  BY <1>1, <1>2
<1> DEFINE s == k * q
<1>6. s \in Int /\ 2^n * q = p * (2 * s)
  <2>1. s \in Int
    OBVIOUS
  <2>2. (2 * p * k) * q = p * (2 * (k * q))
    <3> HIDE DEF p
    <3> QED BY <1>3
  <2> QED BY <1>5, <2>1, <2>2
<1> HIDE DEF p, a, r, s
<1>7. v + 2^n * q = p * (a + 2 * s) + r /\ a + 2 * s \in Int
  <2>1. p * (a + 2 * s) = p * a + p * (2 * s) /\ p * a \in Int /\ p * (2 * s) \in Int
    BY <1>3, <1>4, <1>6
  <2> QED BY <1>4, <1>6, <2>1
<1>8. (v + 2^n * q) \div p = a + 2 * s
  <2> DEFINE t == a + 2 * s
             u == v + 2^n * q
  <2>1. t \in Int /\ u = p * t + r
    BY <1>7
  <2> HIDE DEF t, u
  <2>2. u \div p = t
    BY <1>3, <1>4, <2>1, RemainderOf
  <2> QED BY <2>2 DEF t, u
<1>9. (a + 2 * s) % 2 = a % 2
  BY <1>4, <1>6
<1> QED BY <1>8, <1>9 DEF Bit, p, a

LEMMA BitsOfSem ==
  ASSUME NEW w \in Width, NEW v \in Int
  PROVE  BitsOf(w, v % 2^w) = BitsOf(w, v)
<1> DEFINE q == -(v \div 2^w)
<1>1. q \in Int /\ v % 2^w = v + 2^w * q /\ v % 2^w \in Int
  <2> DEFINE m == 2^w
  <2>1. m \in Nat \ {0}
    BY Halves
  <2> HIDE DEF m
  <2>2. v % m \in Int /\ v \div m \in Int /\ v = m * (v \div m) + (v % m)
    BY <2>1, Remainder
  <2>3. -(v \div m) \in Int /\ v % m = v + m * (-(v \div m))
    BY <2>1, <2>2
  <2> QED BY <2>2, <2>3 DEF m
<1> HIDE DEF q
<1>2. ASSUME NEW i \in 0..(w - 1) PROVE Bit(v % 2^w, i) = Bit(v, i)
  <2>1. w \in (i + 1)..w
    BY Powers
  <2> QED BY <1>1, <2>1, BitAbove
<1>3. \A u \in Int : BitsOf(w, u) = {i \in 0..(w - 1) : Bit(u, i) = 1}
  BY DEF BitsOf, Bit
<1> QED BY <1>1, <1>2, <1>3

(* The low bits determine the remainder.                                     *)
LEMMA LowAgree ==
  ASSUME NEW w \in Width, NEW n \in 0..w, NEW u \in Int, NEW v \in Int,
         \A i \in 0..(n - 1) : Bit(u, i) = Bit(v, i)
  PROVE  u % 2^n = v % 2^n
<1> DEFINE T == {k \in Nat : k <= n => u % 2^k = v % 2^k}
<1>0. w \in Nat /\ n \in Nat /\ n <= w
  BY Powers
<1>1. 0 \in T
  <2>1. 2^0 = 1 /\ \A z \in Int : z % 1 = 0
    OBVIOUS
  <2> QED BY <2>1
<1>2. ASSUME NEW k \in Nat, k \in T PROVE k + 1 \in T
  <2> SUFFICES ASSUME k + 1 <= n PROVE u % 2^(k + 1) = v % 2^(k + 1)
    OBVIOUS
  <2>1. u % 2^k = v % 2^k
    BY <1>0, <1>2
  <2>2. 2^(k + 1) = 2 * 2^k /\ 2^k \in Nat \ {0}
    <3>1. k + 1 \in 1..w /\ (k + 1) - 1 = k /\ k \in 0..w
      BY <1>0
    <3> QED BY <3>1, Powers
  <2>3. (u \div 2^k) % 2 = (v \div 2^k) % 2
    <3>1. k \in 0..(n - 1)
      BY <1>0
    <3> QED BY <3>1 DEF Bit
  <2> DEFINE p == 2^k
  <2>4. u % (2 * p) = v % (2 * p)
    <3>1. p \in Nat \ {0} /\ u % p = v % p /\ (u \div p) % 2 = (v \div p) % 2
      BY <2>1, <2>2, <2>3
    <3> HIDE DEF p
    <3>2. /\ u % (2 * p) = (u % p) + p * ((u \div p) % 2)
          /\ v % (2 * p) = (v % p) + p * ((v \div p) % 2)
      BY <3>1, Doubled
    <3> QED BY <3>1, <3>2
  <2> QED BY <2>2, <2>4
<1>3. Nat \subseteq T
  <2> HIDE DEF T
  <2> QED BY <1>1, <1>2, NatsIn
<1> QED BY <1>0, <1>3

LEMMA InRange ==
  ASSUME NEW w \in Width, NEW a \in Pattern(w)
  PROVE  a \in Nat /\ a % 2^w = a /\ BitsOf(w, a) \subseteq Positions(w)
<1> DEFINE m == 2^w
<1>1. m \in Nat \ {0} /\ a \in 0..(m - 1)
  BY Halves DEF Pattern
<1>2. a % m = a
  <2> HIDE DEF m
  <2>1. a = m * 0 + a
    BY <1>1
  <2> QED BY <1>1, <2>1, RemainderOf, 0 \in Int
<1> QED BY <1>1, <1>2 DEF BitsOf, Positions

LEMMA PatternsDiffer ==
  ASSUME NEW w \in Width, NEW a \in Pattern(w), NEW b \in Pattern(w), BitsOf(w, a) = BitsOf(w, b)
  PROVE  a = b
<1>1. a \in Int /\ b \in Int /\ w \in 0..w
  BY InRange, Powers
<1>2. \A i \in 0..(w - 1) : Bit(a, i) = Bit(b, i)
  BY <1>1, BitTyped
<1>3. a % 2^w = b % 2^w
  BY <1>1, <1>2, LowAgree
<1> QED BY <1>3, InRange

LEMMA PatternOfBits ==
  ASSUME NEW w \in Width, NEW a \in Pattern(w)
  PROVE  PatternOf(w, BitsOf(w, a)) = a
<1>1. BitsOf(w, a) \in SUBSET (0..(w - 1))
  BY DEF BitsOf
<1> DEFINE S == BitsOf(w, a)
<1>2. PatternOf(w, S) \in Pattern(w) /\ BitsOf(w, PatternOf(w, S)) = S
  BY <1>1, PatternsOfAll
<1> QED BY <1>2, PatternsDiffer

-----------------------------------------------------------------------------
(* Known bits: order, meaning, join *)

Masked == BitsElem \ {BitsBottom, BitsTop}

LEMMA MaskedShape ==
  ASSUME NEW x \in Masked
  PROVE  /\ x.width \in Width /\ x.zeros \subseteq Positions(x.width) /\ x.ones \subseteq Positions(x.width)
         /\ x.zeros \intersect x.ones = {}
         /\ x = [width |-> x.width, zeros |-> x.zeros, ones |-> x.ones]
<1>1. x \in Masks /\ x.zeros \intersect x.ones = {}
  BY DEF Masked, BitsElem
<1>2. PICK w \in Width :
        x \in {[width |-> w, zeros |-> z, ones |-> o] : z \in SUBSET Positions(w), o \in SUBSET Positions(w)}
  BY <1>1 DEF Masks
<1>3. PICK z \in SUBSET Positions(w), o \in SUBSET Positions(w) : x = [width |-> w, zeros |-> z, ones |-> o]
  BY <1>2
<1> QED BY <1>1, <1>3

LEMMA MaskedRecord ==
  ASSUME NEW w \in Width, NEW z \in SUBSET Positions(w), NEW o \in SUBSET Positions(w), z \intersect o = {}
  PROVE  [width |-> w, zeros |-> z, ones |-> o] \in Masked
<1> DEFINE x == [width |-> w, zeros |-> z, ones |-> o]
<1>1. x \in Masks /\ x.zeros = z /\ x.ones = o
  BY DEF Masks
<1>2. x \notin {BitsBottom, BitsTop}
  <2>1. w \in Nat /\ Positions(w) \subseteq Nat
    BY Powers DEF Positions
  <2>2. x \in [width : Nat, zeros : SUBSET Nat, ones : SUBSET Nat]
    BY <2>1
  <2> QED BY <2>2, BitsAssumption
<1> QED BY <1>1, <1>2 DEF Masked, BitsElem

LEMMA BitsKinds ==
  /\ BitsElem = Masked \union {BitsBottom, BitsTop}
  /\ BitsBottom \notin Masked /\ BitsTop \notin Masked /\ BitsBottom # BitsTop
  /\ BitsGamma(BitsBottom) = {} /\ BitsGamma(BitsTop) = SemValue
BY BitsAssumption DEF BitsElem, Masked, BitsGamma

LEMMA MaskedMeaning ==
  ASSUME NEW x \in Masked
  PROVE  /\ \A c : c \in BitsGamma(x) <=>
                     /\ c \in IntOf(x.width)
                     /\ BitsOf(x.width, c.bits) \intersect x.zeros = {}
                     /\ x.ones \subseteq BitsOf(x.width, c.bits)
         /\ Poison \notin BitsGamma(x) /\ BitsGamma(x) \subseteq SemValue
<1>1. BitsGamma(x) = {c \in IntOf(x.width) :
                        LET set == BitsOf(c.width, c.bits)
                        IN  set \intersect x.zeros = {} /\ x.ones \subseteq set}
  BY BitsKinds DEF BitsGamma
<1>2. \A c \in IntOf(x.width) : c.width = x.width
  BY DEF IntOf
<1>3. \A c : c \in BitsGamma(x) <=>
              /\ c \in IntOf(x.width)
              /\ BitsOf(x.width, c.bits) \intersect x.zeros = {}
              /\ x.ones \subseteq BitsOf(x.width, c.bits)
  BY <1>1, <1>2
<1>4. Poison \notin IntOf(x.width)
  <2>1. \A c \in IntOf(x.width) : c \in [width : Nat, bits : Nat]
    BY MaskedShape, Halves DEF IntOf, Pattern
  <2> QED BY <2>1, PoisonAssumption
<1>5. BitsGamma(x) \subseteq SemValue
  BY <1>3, MaskedShape DEF SemValue, Ints
<1> QED BY <1>3, <1>4, <1>5

(* Whatever set of ones the masks allow for is that of a value.              *)
LEMMA MaskedWitness ==
  ASSUME NEW x \in Masked, NEW S \in SUBSET Positions(x.width), S \intersect x.zeros = {}, x.ones \subseteq S
  PROVE  \E c \in BitsGamma(x) : c.width = x.width /\ BitsOf(x.width, c.bits) = S
<1> DEFINE w == x.width
           c == [width |-> w, bits |-> PatternOf(w, S)]
<1>1. w \in Width
  BY MaskedShape
<1>2. PatternOf(w, S) \in Pattern(w) /\ BitsOf(w, PatternOf(w, S)) = S
  BY <1>1, PatternsOfAll DEF Positions
<1>3. c \in IntOf(w) /\ c.width = w /\ BitsOf(w, c.bits) = S
  BY <1>2 DEF IntOf
<1> HIDE DEF c
<1>4. c \in BitsGamma(x)
  BY <1>3, MaskedMeaning
<1> QED BY <1>3, <1>4

LEMMA MaskedLeq ==
  ASSUME NEW x \in Masked, NEW y \in Masked
  PROVE  BitsLeq(x, y) <=> x.width = y.width /\ y.zeros \subseteq x.zeros /\ y.ones \subseteq x.ones
BY BitsKinds DEF BitsLeq

(* The order is containment of what the elements stand for.                 *)
LEMMA BitsContainment ==
  ASSUME NEW x \in BitsElem, NEW y \in BitsElem
  PROVE  /\ BitsLeq(x, y) <=> BitsGamma(x) \subseteq BitsGamma(y)
         /\ BitsGamma(x) \subseteq SemValue
<1>1. BitsGamma(x) \subseteq SemValue
  BY MaskedMeaning, BitsKinds
<1>2. CASE x = BitsBottom \/ y = BitsTop
  BY <1>1, <1>2, BitsKinds DEF BitsLeq
<1>3. CASE x \in Masked /\ y = BitsBottom
  <2>1. \E c : c \in BitsGamma(x)
    <3>1. x.ones \in SUBSET Positions(x.width) /\ x.ones \intersect x.zeros = {}
      BY <1>3, MaskedShape
    <3> QED BY <1>3, <3>1, MaskedWitness
  <2> QED BY <1>1, <1>3, <2>1, BitsKinds DEF BitsLeq
<1>4. CASE x = BitsTop /\ y # BitsTop
  <2>1. Poison \in BitsGamma(x) /\ Poison \notin BitsGamma(y)
    BY <1>4, BitsKinds, MaskedMeaning DEF SemValue
  <2> QED BY <1>1, <1>4, <2>1, BitsKinds DEF BitsLeq
<1>5. CASE x \in Masked /\ y \in Masked
  <2>1. BitsLeq(x, y) => BitsGamma(x) \subseteq BitsGamma(y)
    BY <1>5, MaskedLeq, MaskedMeaning
  <2>2. ASSUME BitsGamma(x) \subseteq BitsGamma(y) PROVE BitsLeq(x, y)
    <3> DEFINE w == x.width
    <3>1. x.zeros \subseteq Positions(w) /\ x.ones \subseteq Positions(w) /\ x.zeros \intersect x.ones = {}
      BY <1>5, MaskedShape
    <3>2. PICK c \in BitsGamma(x) : c.width = w /\ BitsOf(w, c.bits) = x.ones
      BY <1>5, <3>1, MaskedWitness
    <3>3. y.width = w
      BY <1>5, <2>2, <3>2, MaskedMeaning DEF IntOf
    <3>4. y.ones \subseteq x.ones
      BY <1>5, <2>2, <3>2, <3>3, MaskedMeaning
    <3>5. ASSUME NEW i \in y.zeros, i \notin x.zeros PROVE FALSE
      <4>1. i \in Positions(w)
        BY <1>5, <3>3, MaskedShape
      <4> DEFINE S == x.ones \union {i}
      <4>2. S \in SUBSET Positions(w) /\ S \intersect x.zeros = {} /\ x.ones \subseteq S
        BY <3>1, <3>5, <4>1
      <4>3. PICK d \in BitsGamma(x) : d.width = w /\ BitsOf(w, d.bits) = S
        BY <1>5, <4>2, MaskedWitness
      <4>4. BitsOf(w, d.bits) \intersect y.zeros = {}
        BY <1>5, <2>2, <3>3, MaskedMeaning
      <4> QED BY <4>3, <4>4
    <3> QED BY <1>5, <3>3, <3>4, <3>5, MaskedLeq
  <2> QED BY <1>1, <2>1, <2>2
<1> QED BY <1>2, <1>3, <1>4, <1>5, BitsKinds

LEMMA BitsOrder ==
  /\ \A x \in BitsElem : BitsLeq(x, x) /\ BitsLeq(x, BitsTop)
  /\ \A x, y, z \in BitsElem : BitsLeq(x, y) /\ BitsLeq(y, z) => BitsLeq(x, z)
<1>1. \A x \in BitsElem : BitsLeq(x, x) /\ BitsLeq(x, BitsTop)
  BY BitsContainment DEF BitsLeq
<1>2. ASSUME NEW x \in BitsElem, NEW y \in BitsElem, NEW z \in BitsElem, BitsLeq(x, y), BitsLeq(y, z)
      PROVE  BitsLeq(x, z)
  BY <1>2, BitsContainment
<1> QED BY <1>1, <1>2

(* Masks that some value agrees with, within the width, are no contradiction. *)
LEMMA MakeMeaning ==
  ASSUME NEW w \in Width, NEW z, NEW o, NEW c \in IntOf(w),
         BitsOf(w, c.bits) \intersect z = {}, o \intersect Positions(w) \subseteq BitsOf(w, c.bits)
  PROVE  /\ Make(w, z, o) \in Masked /\ c \in BitsGamma(Make(w, z, o))
         /\ Make(w, z, o) = [width |-> w, zeros |-> z \intersect Positions(w), ones |-> o \intersect Positions(w)]
<1> DEFINE zz == z \intersect Positions(w)
           oo == o \intersect Positions(w)
           x == [width |-> w, zeros |-> zz, ones |-> oo]
<1>1. zz \intersect oo = {} /\ zz \in SUBSET Positions(w) /\ oo \in SUBSET Positions(w)
  OBVIOUS
<1>2. Make(w, z, o) = x
  BY <1>1 DEF Make
<1>3. x \in Masked
  <2> HIDE DEF zz, oo
  <2> QED BY <1>1, MaskedRecord
<1>4. x.width = w /\ x.zeros = zz /\ x.ones = oo
  OBVIOUS
<1>5. BitsOf(w, c.bits) \intersect zz = {} /\ oo \subseteq BitsOf(w, c.bits)
  OBVIOUS
<1> HIDE DEF x, zz, oo
<1>6. c \in BitsGamma(x)
  BY <1>3, <1>4, <1>5, MaskedMeaning
<1> QED BY <1>2, <1>3, <1>6 DEF x, zz, oo

(* Fewer bits known are an element above.                                    *)
LEMMA MakeMonotone ==
  ASSUME NEW w \in Width, NEW z, NEW o, NEW z2, NEW o2, NEW c \in IntOf(w),
         BitsOf(w, c.bits) \intersect z = {}, o \intersect Positions(w) \subseteq BitsOf(w, c.bits),
         z2 \intersect Positions(w) \subseteq z, o2 \intersect Positions(w) \subseteq o
  PROVE  Make(w, z2, o2) \in Masked /\ BitsLeq(Make(w, z, o), Make(w, z2, o2))
<1>1. BitsOf(w, c.bits) \subseteq Positions(w)
  BY DEF BitsOf, Positions
<1>2. BitsOf(w, c.bits) \intersect z2 = {} /\ o2 \intersect Positions(w) \subseteq BitsOf(w, c.bits)
  BY <1>1
<1>3. /\ Make(w, z, o) \in Masked
      /\ Make(w, z, o) = [width |-> w, zeros |-> z \intersect Positions(w), ones |-> o \intersect Positions(w)]
  BY MakeMeaning
<1>4. /\ Make(w, z2, o2) \in Masked
      /\ Make(w, z2, o2) = [width |-> w, zeros |-> z2 \intersect Positions(w), ones |-> o2 \intersect Positions(w)]
  BY <1>2, MakeMeaning
<1>5. BitsLeq(Make(w, z, o), Make(w, z2, o2))
  BY <1>3, <1>4, MaskedLeq
<1> QED BY <1>4, <1>5

LEMMA MaskedJoin ==
  ASSUME NEW x \in Masked, NEW y \in Masked
  PROVE  /\ x.width # y.width => BitsJoin(x, y) = BitsTop
         /\ x.width = y.width =>
              /\ BitsJoin(x, y) \in Masked
              /\ BitsJoin(x, y) = [width |-> x.width, zeros |-> x.zeros \intersect y.zeros,
                                                      ones |-> x.ones \intersect y.ones]
              /\ BitsJoin(x, y).width = x.width
              /\ BitsJoin(x, y).zeros = x.zeros \intersect y.zeros
              /\ BitsJoin(x, y).ones = x.ones \intersect y.ones
<1>1. BitsJoin(x, y) = IF x.width # y.width THEN BitsTop
                       ELSE Make(x.width, x.zeros \intersect y.zeros, x.ones \intersect y.ones)
  BY BitsKinds DEF BitsJoin
<1> DEFINE w == x.width
           z == x.zeros \intersect y.zeros
           o == x.ones \intersect y.ones
<1>2. /\ w \in Width /\ z \in SUBSET Positions(w) /\ o \in SUBSET Positions(w) /\ z \intersect o = {}
  BY MaskedShape
<1>3. Make(w, z, o) = [width |-> w, zeros |-> z, ones |-> o]
  <2>1. z \intersect Positions(w) = z /\ o \intersect Positions(w) = o
    BY <1>2
  <2> HIDE DEF z, o, w
  <2> QED BY <1>2, <2>1 DEF Make
<1>4. Make(w, z, o) \in Masked
  <2> HIDE DEF z, o, w
  <2> QED BY <1>2, <1>3, MaskedRecord
<1>5. x.width = y.width => BitsJoin(x, y) \in Masked /\ BitsJoin(x, y) = [width |-> w, zeros |-> z, ones |-> o]
  BY <1>1, <1>3, <1>4
<1>6. x.width # y.width => BitsJoin(x, y) = BitsTop
  BY <1>1
<1> QED BY <1>5, <1>6

LEMMA BitsJoinCases ==
  ASSUME NEW x \in BitsElem, NEW y \in BitsElem
  PROVE  /\ x = BitsBottom => BitsJoin(x, y) = y
         /\ y = BitsBottom => BitsJoin(x, y) = x
         /\ x # BitsBottom /\ y # BitsBottom /\ BitsTop \in {x, y} => BitsJoin(x, y) = BitsTop
<1>0. BitsTop # BitsBottom
  BY BitsKinds
<1>1. ASSUME x = BitsBottom PROVE BitsJoin(x, y) = y
  <2>1. CASE y = BitsBottom
    BY <1>0, <1>1, <2>1 DEF BitsJoin
  <2>2. CASE y # BitsBottom
    BY <1>0, <1>1, <2>2 DEF BitsJoin
  <2> QED BY <2>1, <2>2
<1>2. ASSUME x # BitsBottom, y = BitsBottom PROVE BitsJoin(x, y) = x
  BY <1>0, <1>2 DEF BitsJoin
<1>3. x # BitsBottom /\ y # BitsBottom /\ BitsTop \in {x, y} => BitsJoin(x, y) = BitsTop
  BY Zenon DEF BitsJoin
<1> QED BY <1>1, <1>2, <1>3

LEMMA BitsBounds ==
  ASSUME NEW x \in BitsElem, NEW y \in BitsElem
  PROVE  /\ BitsJoin(x, y) \in BitsElem
         /\ BitsLeq(x, BitsJoin(x, y)) /\ BitsLeq(y, BitsJoin(x, y))
         /\ BitsWiden(x, y) = BitsJoin(x, y)
<1>1. CASE x = BitsBottom \/ y = BitsBottom
  BY <1>1, BitsJoinCases, BitsOrder DEF BitsLeq, BitsWiden
<1>2. CASE x # BitsBottom /\ y # BitsBottom /\ BitsTop \in {x, y}
  BY <1>2, BitsJoinCases, BitsOrder, BitsKinds DEF BitsWiden
<1>3. CASE x \in Masked /\ y \in Masked
  <2>1. CASE x.width # y.width
    BY <1>3, <2>1, MaskedJoin, BitsOrder, BitsKinds DEF BitsWiden
  <2>2. CASE x.width = y.width
    <3> DEFINE j == BitsJoin(x, y)
    <3>1. /\ j \in Masked /\ j.width = x.width
          /\ j.zeros = x.zeros \intersect y.zeros /\ j.ones = x.ones \intersect y.ones
      BY <1>3, <2>2, MaskedJoin
    <3> HIDE DEF j
    <3>2. BitsLeq(x, j) /\ BitsLeq(y, j)
      BY <1>3, <2>2, <3>1, MaskedLeq
    <3> QED BY <3>1, <3>2, BitsKinds DEF BitsWiden, j
  <2> QED BY <2>1, <2>2
<1> QED BY <1>1, <1>2, <1>3, BitsKinds

LEMMA BitsJoinLeast ==
  ASSUME NEW x \in BitsElem, NEW y \in BitsElem, NEW z \in BitsElem, BitsLeq(x, z), BitsLeq(y, z)
  PROVE  BitsLeq(BitsJoin(x, y), z)
<1>1. CASE x = BitsBottom \/ y = BitsBottom
  BY <1>1, BitsJoinCases
<1>2. CASE z = BitsTop
  BY <1>2 DEF BitsLeq
<1>3. CASE x \in Masked /\ y \in Masked /\ z \in Masked
  <2>1. /\ x.width = z.width /\ z.zeros \subseteq x.zeros /\ z.ones \subseteq x.ones
        /\ y.width = z.width /\ z.zeros \subseteq y.zeros /\ z.ones \subseteq y.ones
    BY <1>3, MaskedLeq
  <2> DEFINE j == BitsJoin(x, y)
  <2>2. /\ j \in Masked /\ j.width = x.width
        /\ j.zeros = x.zeros \intersect y.zeros /\ j.ones = x.ones \intersect y.ones
    BY <1>3, <2>1, MaskedJoin
  <2> HIDE DEF j
  <2>3. BitsLeq(j, z)
    BY <1>3, <2>1, <2>2, MaskedLeq
  <2> QED BY <2>3 DEF j
<1>4. z # BitsBottom \/ (x = BitsBottom /\ y = BitsBottom)
  BY BitsKinds DEF BitsLeq
<1>5. z \in Masked => x # BitsTop /\ y # BitsTop
  <2>1. ASSUME NEW t, t = BitsTop, z \in Masked PROVE ~BitsLeq(t, z)
    BY <2>1, BitsKinds DEF BitsLeq
  <2> QED BY <2>1
<1> QED BY <1>1, <1>2, <1>3, <1>4, <1>5, BitsKinds

(* A join changes nothing exactly when there is nothing to add.              *)
LEMMA BitsAbsorbs ==
  ASSUME NEW x \in BitsElem, NEW y \in BitsElem
  PROVE  (BitsJoin(x, y) = x) <=> BitsLeq(y, x)
<1>1. (BitsJoin(x, y) = x) => BitsLeq(y, x)
  BY BitsBounds
<1>2. ASSUME BitsLeq(y, x) PROVE BitsJoin(x, y) = x
  <2>1. CASE y = BitsBottom
    BY <2>1, BitsJoinCases
  <2>2. CASE y # BitsBottom /\ x = BitsTop
    BY <2>2, BitsJoinCases, BitsKinds
  <2>3. CASE x \in Masked /\ y \in Masked
    <3>1. y.width = x.width /\ x.zeros \subseteq y.zeros /\ x.ones \subseteq y.ones
      BY <1>2, <2>3, MaskedLeq
    <3>2. x.zeros \intersect y.zeros = x.zeros /\ x.ones \intersect y.ones = x.ones
      BY <3>1
    <3>3. BitsJoin(x, y) = [width |-> x.width, zeros |-> x.zeros, ones |-> x.ones]
      <4>1. BitsJoin(x, y) = [width |-> x.width, zeros |-> x.zeros \intersect y.zeros,
                                                 ones |-> x.ones \intersect y.ones]
        BY <2>3, <3>1, MaskedJoin
      <4> QED BY <3>2, <4>1, Zenon
    <3> QED BY <2>3, <3>3, MaskedShape
  <2>4. x # BitsBottom \/ y = BitsBottom
    BY <1>2, BitsKinds DEF BitsLeq
  <2>5. y # BitsTop \/ x = BitsTop
    BY <1>2, BitsKinds DEF BitsLeq
  <2> QED BY <2>1, <2>2, <2>3, <2>4, <2>5, BitsKinds
<1> QED BY <1>1, <1>2

-----------------------------------------------------------------------------
(* Constants and operands *)

LEMMA PatternKnown ==
  ASSUME NEW w \in Width, NEW c \in IntOf(w)
  PROVE  /\ c.width = w /\ c.bits \in Pattern(w) /\ c.bits \in Nat
         /\ BitsOf(w, c.bits) \subseteq Positions(w)
         /\ PatternOf(w, BitsOf(w, c.bits)) = c.bits
         /\ c = [width |-> w, bits |-> c.bits]
<1>1. c.width = w /\ c.bits \in Pattern(w) /\ c = [width |-> w, bits |-> c.bits]
  BY DEF IntOf
<1> QED BY <1>1, InRange, PatternOfBits

LEMMA ConstKnown ==
  ASSUME NEW w \in Width, NEW v \in Int
  PROVE  /\ KnownConst(w, v) \in Masked /\ Sem(w, v) \in BitsGamma(KnownConst(w, v))
         /\ KnownConst(w, v) = [width |-> w, zeros |-> Positions(w) \ BitsOf(w, v), ones |-> BitsOf(w, v)]
<1> DEFINE o == BitsOf(w, v)
           z == Positions(w) \ o
           c == Sem(w, v)
<1>1. c \in IntOf(w) /\ c.bits = v % 2^w
  BY SemTyped
<1>2. BitsOf(w, c.bits) = o /\ BitsOf(w, v % 2^w) = o
  BY <1>1, BitsOfSem
<1>3. KnownConst(w, v) = Make(w, z, o)
  BY <1>2 DEF KnownConst
<1>4. o \subseteq Positions(w)
  BY DEF BitsOf, Positions
<1>5. o \intersect z = {} /\ o \intersect Positions(w) \subseteq o
  OBVIOUS
<1>6. z \intersect Positions(w) = z /\ o \intersect Positions(w) = o
  BY <1>4
<1> HIDE DEF c, o, z
<1>7. /\ Make(w, z, o) \in Masked /\ c \in BitsGamma(Make(w, z, o))
      /\ Make(w, z, o) = [width |-> w, zeros |-> z \intersect Positions(w), ones |-> o \intersect Positions(w)]
  BY <1>1, <1>2, <1>5, MakeMeaning
<1> QED BY <1>3, <1>6, <1>7 DEF c, o, z

LEMMA BitsAbstractSound ==
  ASSUME NEW l \in Consts
  PROVE  BitsAbstract(l) \in BitsElem /\ ToSem(l) \in BitsGamma(BitsAbstract(l))
<1>1. CASE l = Poison
  BY <1>1, BitsKinds DEF BitsAbstract, ToSem, SemValue
<1>2. CASE l # Poison
  <2>1. PICK w \in Width : \E v \in IntMin(w)..2^w - 1 : l = IntConst(w, v)
    BY <1>2 DEF Consts
  <2>2. PICK v \in IntMin(w)..2^w - 1 : l = IntConst(w, v)
    BY <2>1
  <2>3. v \in Int /\ l.width = w /\ l.value = v
    BY <2>2, Halves DEF IntConst
  <2>4. BitsAbstract(l) = KnownConst(w, v) /\ ToSem(l) = Sem(w, v)
    BY <1>2, <2>3 DEF BitsAbstract, ToSem
  <2> QED BY <2>3, <2>4, ConstKnown, BitsKinds
<1> QED BY <1>1, <1>2

(* All bits of a value known are the value.                                  *)
LEMMA FullyKnownValue ==
  ASSUME NEW x \in Masked, FullyKnown(x), NEW c \in BitsGamma(x)
  PROVE  BitsOf(x.width, c.bits) = x.ones /\ ValueOf(x) = c.bits
<1>1. c \in IntOf(x.width) /\ x.width \in Width
  BY MaskedMeaning, MaskedShape
<1>2. BitsOf(x.width, c.bits) = x.ones
  <2> DEFINE S == BitsOf(x.width, c.bits)
  <2>1. S \intersect x.zeros = {} /\ x.ones \subseteq S
    BY MaskedMeaning
  <2>2. S \subseteq Positions(x.width)
    BY <1>1, PatternKnown
  <2>3. x.zeros \union x.ones = Positions(x.width)
    BY DEF FullyKnown
  <2> HIDE DEF S
  <2>4. S = x.ones
    BY <2>1, <2>2, <2>3
  <2> QED BY <2>4 DEF S
<1> QED BY <1>1, <1>2, PatternKnown DEF ValueOf

LEMMA FullyKnownBelow ==
  ASSUME NEW x \in Masked, NEW y \in Masked, BitsLeq(x, y), FullyKnown(y)
  PROVE  x = y
<1>1. x.width = y.width /\ y.zeros \subseteq x.zeros /\ y.ones \subseteq x.ones
  BY MaskedLeq
<1>2. x.zeros \intersect x.ones = {} /\ x.zeros \subseteq Positions(x.width) /\ x.ones \subseteq Positions(x.width)
  BY MaskedShape
<1>3. y.zeros \union y.ones = Positions(y.width)
  BY DEF FullyKnown
<1>4. x.zeros = y.zeros /\ x.ones = y.ones
  BY <1>1, <1>2, <1>3
<1> QED BY <1>1, <1>4, MaskedShape

(* The masks of an operand are an element above it, if it has the width.     *)
LEMMA OperandMasked ==
  ASSUME NEW w \in Width, NEW x \in BitsElem \ {BitsBottom}
  PROVE  /\ OperandMasks(x, w) \in Masked /\ OperandMasks(x, w).width = w
         /\ \A c \in BitsGamma(x) : c # Poison /\ c.width = w => c \in BitsGamma(OperandMasks(x, w))
<1> DEFINE none == [width |-> w, zeros |-> {}, ones |-> {}]
<1>1. none \in Masked /\ none.width = w /\ none.zeros = {} /\ none.ones = {}
  <2>1. {} \in SUBSET Positions(w)
    OBVIOUS
  <2> QED BY <2>1, MaskedRecord
<1>2. CASE x # BitsTop /\ x.width = w
  BY <1>2, BitsKinds DEF OperandMasks
<1>3. CASE ~(x # BitsTop /\ x.width = w)
  <2>1. OperandMasks(x, w) = none
    BY <1>3 DEF OperandMasks
  <2> HIDE DEF none
  <2>2. ASSUME NEW c \in BitsGamma(x), c # Poison, c.width = w PROVE c \in BitsGamma(none)
    <3>1. c \in IntOf(w)
      BY <2>2, BitsContainment, OperandTyped
    <3> QED BY <1>1, <3>1, MaskedMeaning
  <2> QED BY <1>1, <2>1, <2>2
<1> QED BY <1>2, <1>3

LEMMA OperandMasksMonotone ==
  ASSUME NEW w \in Width, NEW x \in BitsElem \ {BitsBottom}, NEW y \in BitsElem \ {BitsBottom}, BitsLeq(x, y)
  PROVE  BitsLeq(OperandMasks(x, w), OperandMasks(y, w))
<1>1. CASE y # BitsTop /\ y.width = w
  <2>1. x # BitsTop /\ x.width = w
    BY <1>1, BitsKinds, MaskedLeq DEF BitsLeq
  <2> QED BY <1>1, <2>1 DEF OperandMasks
<1>2. CASE ~(y # BitsTop /\ y.width = w)
  <2>1. OperandMasks(y, w) = [width |-> w, zeros |-> {}, ones |-> {}]
    BY <1>2 DEF OperandMasks
  <2>2. /\ OperandMasks(x, w) \in Masked /\ OperandMasks(x, w).width = w
        /\ OperandMasks(y, w) \in Masked
    BY OperandMasked
  <2> QED BY <2>1, <2>2, MaskedLeq
<1> QED BY <1>1, <1>2

-----------------------------------------------------------------------------
(* Logic: bit by bit *)

Ones(c) == BitsOf(c.width, c.bits)

LEMMA OnesOf ==
  ASSUME NEW x \in Masked, NEW c \in BitsGamma(x)
  PROVE  /\ c \in IntOf(x.width) /\ c.width = x.width /\ x.width \in Width
         /\ Ones(c) = BitsOf(x.width, c.bits) /\ Ones(c) \subseteq Positions(x.width)
         /\ Ones(c) \intersect x.zeros = {} /\ x.ones \subseteq Ones(c)
<1>1. c \in IntOf(x.width) /\ x.width \in Width
  BY MaskedMeaning, MaskedShape
<1>2. c.width = x.width /\ BitsOf(x.width, c.bits) \subseteq Positions(x.width)
  BY <1>1, PatternKnown
<1> QED BY <1>1, <1>2, MaskedMeaning DEF Ones

LEMMA LogicOnes ==
  ASSUME NEW w \in Width, NEW op, op.kind \in Logic, NEW a \in IntOf(w), NEW b \in IntOf(w)
  PROVE  /\ EvalLogic(op, a, b) \in IntOf(w)
         /\ op.kind = "and" => BitsOf(w, EvalLogic(op, a, b).bits) = Ones(a) \intersect Ones(b)
         /\ op.kind = "or" => BitsOf(w, EvalLogic(op, a, b).bits) = Ones(a) \union Ones(b)
         /\ op.kind = "xor" => BitsOf(w, EvalLogic(op, a, b).bits) = (Ones(a) \ Ones(b)) \union (Ones(b) \ Ones(a))
<1> DEFINE A == Ones(a)
           B == Ones(b)
           S == CASE op.kind = "and" -> A \intersect B
                  [] op.kind = "or"  -> A \union B
                  [] op.kind = "xor" -> (A \ B) \union (B \ A)
<1>1. a.width = w /\ b.width = w
  BY PatternKnown
<1>2. EvalLogic(op, a, b) = Sem(w, PatternOf(w, S))
  BY <1>1 DEF EvalLogic, Ones
<1>3. A \subseteq 0..(w - 1) /\ B \subseteq 0..(w - 1)
  BY <1>1 DEF Ones, BitsOf
<1> HIDE DEF A, B
<1>4. /\ op.kind = "and" => S = A \intersect B
      /\ op.kind = "or" => S = A \union B
      /\ op.kind = "xor" => S = (A \ B) \union (B \ A)
  OBVIOUS
<1> HIDE DEF S
<1>5. S \in SUBSET (0..(w - 1))
  BY <1>3, <1>4 DEF Logic
<1>6. PatternOf(w, S) \in Pattern(w) /\ BitsOf(w, PatternOf(w, S)) = S
  BY <1>5, PatternsOfAll
<1>7. PatternOf(w, S) \in Int
  BY <1>6, InRange
<1>8. Sem(w, PatternOf(w, S)) \in IntOf(w) /\ Sem(w, PatternOf(w, S)).bits = PatternOf(w, S) % 2^w
  BY <1>7, SemTyped
<1>9. BitsOf(w, PatternOf(w, S) % 2^w) = S
  BY <1>6, <1>7, BitsOfSem
<1>10. EvalLogic(op, a, b) \in IntOf(w) /\ BitsOf(w, EvalLogic(op, a, b).bits) = S
  BY <1>2, <1>8, <1>9
<1> QED BY <1>4, <1>10 DEF A, B

(* What a transfer owes: its result holds what the operands may compute, and *)
(* is below what less knowledge of them yields.                              *)
Follow(r, k, k2) ==
  /\ k \in BitsElem /\ k2 \in BitsElem /\ BitsLeq(k, k2)
  /\ r \in BitsGamma(k)

LEMMA MasksFollow ==
  ASSUME NEW w \in Width, NEW z, NEW o, NEW z2, NEW o2, NEW c \in IntOf(w),
         BitsOf(w, c.bits) \intersect z = {}, o \intersect Positions(w) \subseteq BitsOf(w, c.bits),
         z2 \intersect Positions(w) \subseteq z, o2 \intersect Positions(w) \subseteq o
  PROVE  Follow(c, Make(w, z, o), Make(w, z2, o2))
<1>1. Make(w, z, o) \in Masked /\ c \in BitsGamma(Make(w, z, o))
  BY MakeMeaning
<1>2. Make(w, z2, o2) \in Masked /\ BitsLeq(Make(w, z, o), Make(w, z2, o2))
  BY MakeMonotone
<1> QED BY <1>1, <1>2, BitsKinds DEF Follow

LEMMA LogicFollows ==
  ASSUME NEW op, op.kind \in Logic,
         NEW x \in Masked, NEW y \in Masked, NEW x2 \in Masked, NEW y2 \in Masked,
         y.width = x.width, BitsLeq(x, x2), BitsLeq(y, y2),
         NEW a \in BitsGamma(x), NEW b \in BitsGamma(y)
  PROVE  Follow(EvalLogic(op, a, b), LogicKnown(op.kind, x, y), LogicKnown(op.kind, x2, y2))
<1> DEFINE w == x.width
           r == EvalLogic(op, a, b)
<1>1. /\ x2.width = w /\ y2.width = w
      /\ x2.zeros \subseteq x.zeros /\ x2.ones \subseteq x.ones
      /\ y2.zeros \subseteq y.zeros /\ y2.ones \subseteq y.ones
  BY MaskedLeq
<1>2. /\ w \in Width /\ a \in IntOf(w) /\ b \in IntOf(w)
      /\ Ones(a) \intersect x.zeros = {} /\ x.ones \subseteq Ones(a)
      /\ Ones(b) \intersect y.zeros = {} /\ y.ones \subseteq Ones(b)
  BY OnesOf
<1>3. r \in IntOf(w)
  BY <1>2, LogicOnes
<1>4. CASE op.kind = "and"
  <2>1. BitsOf(w, r.bits) = Ones(a) \intersect Ones(b)
    BY <1>2, <1>4, LogicOnes
  <2>2. /\ LogicKnown(op.kind, x, y) = Make(w, x.zeros \union y.zeros, x.ones \intersect y.ones)
        /\ LogicKnown(op.kind, x2, y2) = Make(w, x2.zeros \union y2.zeros, x2.ones \intersect y2.ones)
    BY <1>1, <1>4 DEF LogicKnown
  <2> HIDE DEF w, r
  <2>3. /\ BitsOf(w, r.bits) \intersect (x.zeros \union y.zeros) = {}
        /\ (x.ones \intersect y.ones) \intersect Positions(w) \subseteq BitsOf(w, r.bits)
        /\ (x2.zeros \union y2.zeros) \intersect Positions(w) \subseteq (x.zeros \union y.zeros)
        /\ (x2.ones \intersect y2.ones) \intersect Positions(w) \subseteq (x.ones \intersect y.ones)
    BY <1>1, <1>2, <2>1
  <2> QED BY <1>2, <1>3, <2>2, <2>3, MasksFollow DEF r
<1>5. CASE op.kind = "or"
  <2>1. BitsOf(w, r.bits) = Ones(a) \union Ones(b)
    BY <1>2, <1>5, LogicOnes
  <2>2. /\ LogicKnown(op.kind, x, y) = Make(w, x.zeros \intersect y.zeros, x.ones \union y.ones)
        /\ LogicKnown(op.kind, x2, y2) = Make(w, x2.zeros \intersect y2.zeros, x2.ones \union y2.ones)
    BY <1>1, <1>5 DEF LogicKnown
  <2> HIDE DEF w, r
  <2>3. /\ BitsOf(w, r.bits) \intersect (x.zeros \intersect y.zeros) = {}
        /\ (x.ones \union y.ones) \intersect Positions(w) \subseteq BitsOf(w, r.bits)
        /\ (x2.zeros \intersect y2.zeros) \intersect Positions(w) \subseteq (x.zeros \intersect y.zeros)
        /\ (x2.ones \union y2.ones) \intersect Positions(w) \subseteq (x.ones \union y.ones)
    BY <1>1, <1>2, <2>1
  <2> QED BY <1>2, <1>3, <2>2, <2>3, MasksFollow DEF r
<1>6. CASE op.kind = "xor"
  <2> DEFINE Zeros(p, q) == (p.ones \intersect q.ones) \union (p.zeros \intersect q.zeros)
             OnesIn(p, q) == (p.ones \intersect q.zeros) \union (p.zeros \intersect q.ones)
  <2>1. BitsOf(w, r.bits) = (Ones(a) \ Ones(b)) \union (Ones(b) \ Ones(a))
    BY <1>2, <1>6, LogicOnes
  <2>2. /\ LogicKnown(op.kind, x, y) = Make(w, Zeros(x, y), OnesIn(x, y))
        /\ LogicKnown(op.kind, x2, y2) = Make(w, Zeros(x2, y2), OnesIn(x2, y2))
    BY <1>1, <1>6 DEF LogicKnown
  <2> HIDE DEF w, r
  <2>3. /\ BitsOf(w, r.bits) \intersect Zeros(x, y) = {}
        /\ OnesIn(x, y) \intersect Positions(w) \subseteq BitsOf(w, r.bits)
        /\ Zeros(x2, y2) \intersect Positions(w) \subseteq Zeros(x, y)
        /\ OnesIn(x2, y2) \intersect Positions(w) \subseteq OnesIn(x, y)
    BY <1>1, <1>2, <2>1
  <2> HIDE DEF Zeros, OnesIn
  <2> QED BY <1>2, <1>3, <2>2, <2>3, MasksFollow DEF r
<1> QED BY <1>4, <1>5, <1>6 DEF Logic

-----------------------------------------------------------------------------
(* Addition: the carry into a bit, and what is known of it *)

LEMMA Distributes ==
  ASSUME NEW p \in Int, NEW h \in Int, NEW k \in Int, NEW l \in Int
  PROVE  /\ p * (h + k + l) = p * h + p * k + p * l
         /\ p * h \in Int /\ p * k \in Int /\ p * l \in Int
OBVIOUS

CarryInto(u, v, c, i) == ((u % 2^i) + (v % 2^i) + c) \div 2^i

LEMMA CarryStart ==
  ASSUME NEW u \in Int, NEW v \in Int, NEW c \in {0, 1}
  PROVE  CarryInto(u, v, c, 0) = c
<1>1. 2^0 = 1 /\ u % 1 = 0 /\ v % 1 = 0 /\ (0 + 0 + c) \div 1 = c
  OBVIOUS
<1> QED BY <1>1 DEF CarryInto

LEMMA CarryStep ==
  ASSUME NEW w \in Width, NEW u \in Int, NEW v \in Int, NEW c \in {0, 1}, NEW i \in 0..(w - 1)
  PROVE  /\ CarryInto(u, v, c, i) \in {0, 1}
         /\ Bit(u + v + c, i) = (Bit(u, i) + Bit(v, i) + CarryInto(u, v, c, i)) % 2
         /\ CarryInto(u, v, c, i + 1) = (Bit(u, i) + Bit(v, i) + CarryInto(u, v, c, i)) \div 2
<1> DEFINE p == 2^i
           s == (u % p) + (v % p) + c
           t == s \div p
           rest == s % p
           eu == (u \div p) % 2
           ev == (v \div p) % 2
<1>1. p \in Nat \ {0} /\ 2^(i + 1) = 2 * p
  <2>1. i + 1 \in 1..w /\ (i + 1) - 1 = i
    BY Powers
  <2> QED BY <2>1, BitTyped, Powers
<1>2. /\ CarryInto(u, v, c, i) = t /\ Bit(u, i) = eu /\ Bit(v, i) = ev
      /\ Bit(u + v + c, i) = ((u + v + c) \div p) % 2
      /\ CarryInto(u, v, c, i + 1) = ((u % (2 * p)) + (v % (2 * p)) + c) \div (2 * p)
  BY <1>1 DEF CarryInto, Bit
<1> HIDE DEF p
<1> DEFINE lu == u % p
           lv == v % p
           qu == u \div p
           qv == v \div p
<1>3. /\ lu \in 0..(p - 1) /\ lv \in 0..(p - 1) /\ qu \in Int /\ qv \in Int
      /\ u = p * qu + lu /\ v = p * qv + lv
  BY <1>1, Remainder
<1>4. /\ u % (2 * p) = lu + p * eu /\ v % (2 * p) = lv + p * ev
      /\ eu \in {0, 1} /\ ev \in {0, 1} /\ eu = qu % 2 /\ ev = qv % 2
  <2>1. u % (2 * p) = lu + p * eu /\ v % (2 * p) = lv + p * ev
    BY <1>1, Doubled
  <2>2. \A z \in Int : z % 2 \in {0, 1}
    OBVIOUS
  <2> QED BY <1>3, <2>1, <2>2
<1>5. s = lu + lv + c
  OBVIOUS
<1> HIDE DEF lu, lv, qu, qv, eu, ev, s
<1>6. s \in 0..(2 * p - 1) /\ t \in Int /\ rest \in 0..(p - 1) /\ s = p * t + rest
  <2>1. s \in 0..(2 * p - 1)
    BY <1>1, <1>3, <1>5
  <2> QED BY <1>1, <2>1, Remainder
<1> HIDE DEF t, rest
<1>7. t \in {0, 1}
  <2>1. t >= 2 => p * t >= 2 * p
    <3>1. t >= 2 => p * t = 2 * p + p * (t - 2) /\ p * (t - 2) >= 0
      <4>1. t >= 2 => t - 2 \in Nat
        BY <1>6
      <4>2. t >= 2 => p * (t - 2) \in Nat
        BY <1>1, <4>1
      <4>3. p * t = 2 * p + p * (t - 2)
        BY <1>1, <1>6
      <4> QED BY <4>2, <4>3
    <3>2. p * t \in Int /\ p * (t - 2) \in Int
      BY <1>1, <1>6
    <3> DEFINE pt == p * t
               more == p * (t - 2)
    <3>3. (t >= 2 => pt = 2 * p + more /\ more >= 0) /\ pt \in Int /\ more \in Int
      BY <3>1, <3>2
    <3> HIDE DEF pt, more
    <3>4. t >= 2 => pt >= 2 * p
      BY <1>1, <3>3
    <3> QED BY <3>4 DEF pt
  <2>2. t <= -1 => p * t <= -p
    <3>1. p * t = -p - p * (-1 - t)
      BY <1>1, <1>6
    <3>2. t <= -1 => p * (-1 - t) \in Nat
      <4>1. t <= -1 => -1 - t \in Nat
        BY <1>6
      <4> QED BY <1>1, <4>1
    <3> QED BY <1>1, <3>1, <3>2
  <2>3. p * t \in Int
    BY <1>1, <1>6
  <2> QED BY <1>1, <1>6, <2>1, <2>2, <2>3
<1>8. Bit(u + v + c, i) = (eu + ev + t) % 2
  <2>1. u + v + c = p * (qu + qv + t) + rest
    <3>1. p * (qu + qv + t) = p * qu + p * qv + p * t /\ p * qu \in Int /\ p * qv \in Int /\ p * t \in Int
      BY <1>1, <1>3, <1>6
    <3> QED BY <1>3, <1>5, <1>6, <3>1
  <2> DEFINE q == qu + qv + t
  <2>2. q \in Int /\ u + v + c = p * q + rest
    BY <1>3, <1>6, <2>1
  <2>3. (u + v + c) \div p = q
    <3> DEFINE sum == u + v + c
    <3>1. sum = p * q + rest /\ q \in Int
      BY <2>2
    <3> HIDE DEF sum, q
    <3>2. sum \div p = q
      BY <1>1, <1>6, <3>1, RemainderOf
    <3> QED BY <3>2 DEF sum
  <2>4. q % 2 = (eu + ev + t) % 2
    BY <1>3, <1>4, <1>6
  <2> QED BY <1>2, <2>3, <2>4
<1>9. CarryInto(u, v, c, i + 1) = (eu + ev + t) \div 2
  <2> DEFINE q == eu + ev + t
             sum == (u % (2 * p)) + (v % (2 * p)) + c
  <2>1. q \in Int /\ sum = p * q + rest /\ sum \in Int
    <3>1. sum = (lu + p * eu) + (lv + p * ev) + c
      BY <1>4
    <3>2. p * (eu + ev + t) = p * eu + p * ev + p * t /\ p * eu \in Int /\ p * ev \in Int /\ p * t \in Int
      <4>1. p \in Int /\ eu \in Int /\ ev \in Int /\ t \in Int
        BY <1>1, <1>4, <1>6
      <4> QED BY <4>1, Distributes
    <3> QED BY <1>3, <1>4, <1>5, <1>6, <3>1, <3>2
  <2>2. CarryInto(u, v, c, i + 1) = sum \div (2 * p)
    BY <1>2
  <2> HIDE DEF q, sum
  <2>3. sum \div p = q
    BY <1>1, <1>6, <2>1, RemainderOf
  <2>4. sum \div (2 * p) = q \div 2
    BY <1>1, <2>1, <2>3, Doubled
  <2> QED BY <2>2, <2>4 DEF q
<1> QED BY <1>2, <1>7, <1>8, <1>9

(* The recursion of add_with_carry, unfolded.                                *)
LEMMA CarriesUnfold ==
  ASSUME NEW x, x.width \in Nat, NEW y, NEW c
  PROVE  /\ Carries(x, y, c)[0] = {c}
         /\ \A i \in 0..(x.width - 1) : Carries(x, y, c)[i + 1] = CarryOut(x, y, i, Carries(x, y, c)[i])
<1> DEFINE w == x.width
           step(f, i) == IF i = 0 THEN {c} ELSE CarryOut(x, y, i - 1, f[i - 1])
           Rec(f, n) == f = [i \in 0..n |-> step(f, i)]
           T == {n \in Nat : \E f : Rec(f, n)}
<1>1. 0 \in T
  <2> DEFINE f == [i \in 0..0 |-> {c}]
  <2>1. \A i \in 0..0 : step(f, i) = {c}
    OBVIOUS
  <2>2. Rec(f, 0)
    <3>1. [i \in 0..0 |-> step(f, i)] = [i \in 0..0 |-> {c}]
      BY <2>1
    <3> QED BY <3>1
  <2> HIDE DEF Rec
  <2> QED BY <2>2
<1>2. ASSUME NEW n \in Nat, n \in T PROVE n + 1 \in T
  <2>1. PICK f : Rec(f, n)
    BY <1>2
  <2> DEFINE g == [i \in 0..(n + 1) |-> IF i <= n THEN f[i] ELSE CarryOut(x, y, n, f[n])]
  <2>2. \A i \in 0..n : f[i] = step(f, i) /\ g[i] = f[i]
    <3>1. \A i \in 0..n : f[i] = step(f, i)
      <4> HIDE DEF step
      <4> QED BY <2>1
    <3>2. \A i \in 0..n : g[i] = f[i]
      OBVIOUS
    <3> QED BY <3>1, <3>2
  <2>3. ASSUME NEW i \in 0..(n + 1) PROVE g[i] = step(g, i)
    <3>1. CASE i = 0
      <4>1. f[0] = step(f, 0) /\ g[0] = f[0]
        <5>1. 0 \in 0..n
          OBVIOUS
        <5> HIDE DEF step, g
        <5> QED BY <2>2, <5>1
      <4>2. step(f, 0) = {c} /\ step(g, 0) = {c}
        OBVIOUS
      <4> HIDE DEF step, g
      <4> QED BY <3>1, <4>1, <4>2
    <3>2. CASE i \in 1..n
      <4>1. g[i] = step(f, i) /\ g[i - 1] = f[i - 1]
        <5>1. i \in 0..n /\ i - 1 \in 0..n
          BY <3>2
        <5> HIDE DEF step, g
        <5> QED BY <2>2, <5>1
      <4>2. step(f, i) = CarryOut(x, y, i - 1, f[i - 1]) /\ step(g, i) = CarryOut(x, y, i - 1, g[i - 1])
        BY <3>2
      <4> HIDE DEF step, g
      <4> QED BY <4>1, <4>2
    <3>3. CASE i = n + 1
      <4>1. g[i] = CarryOut(x, y, n, f[n]) /\ i - 1 = n /\ g[n] = f[n] /\ i # 0
        BY <3>3
      <4>2. step(g, i) = CarryOut(x, y, i - 1, g[i - 1])
        BY <4>1
      <4> HIDE DEF step, g
      <4> QED BY <4>1, <4>2
    <3> QED BY <3>1, <3>2, <3>3
  <2>4. Rec(g, n + 1)
    <3> DEFINE h == [i \in 0..(n + 1) |-> step(g, i)]
    <3>1. DOMAIN g = 0..(n + 1) /\ g = [i \in DOMAIN g |-> g[i]]
      OBVIOUS
    <3> HIDE DEF g, step
    <3> QED BY <2>3, <3>1
  <2> HIDE DEF Rec
  <2> QED BY <2>4
<1>3. \E f : Rec(f, w)
  <2>1. Nat \subseteq T
    <3> HIDE DEF T
    <3> QED BY <1>1, <1>2, NatsIn
  <2> HIDE DEF Rec
  <2> QED BY <2>1
<1> DEFINE C == Carries(x, y, c)
<1>4. C = CHOOSE f : Rec(f, w)
  BY DEF Carries
<1>5. Rec(C, w)
  <2> HIDE DEF Rec, C
  <2> QED BY <1>3, <1>4
<1> HIDE DEF C
<1>6. \A i \in 0..w : C[i] = step(C, i)
  <2> HIDE DEF step
  <2> QED BY <1>5
<1>7. C[0] = {c}
  <2>1. C[0] = step(C, 0)
    <3>1. 0 \in 0..w
      OBVIOUS
    <3> HIDE DEF step
    <3> QED BY <1>6, <3>1
  <2> QED BY <2>1
<1>8. ASSUME NEW i \in 0..(w - 1) PROVE C[i + 1] = CarryOut(x, y, i, C[i])
  <2>1. i + 1 \in 0..w /\ i + 1 # 0 /\ (i + 1) - 1 = i
    OBVIOUS
  <2>2. C[i + 1] = step(C, i + 1)
    <3> HIDE DEF step
    <3> QED BY <1>6, <2>1
  <2>3. step(C, i + 1) = CarryOut(x, y, (i + 1) - 1, C[(i + 1) - 1])
    BY <2>1
  <2> HIDE DEF step
  <2> QED BY <2>1, <2>2, <2>3
<1> QED BY <1>7, <1>8 DEF C

(* Three inputs to a bit, of which those a mask knows are as it says.        *)
Agrees(e, x, i) == (i \in x.zeros => e = 0) /\ (i \in x.ones => e = 1)

Fits(u, x, w) == \A i \in 0..(w - 1) : Agrees(Bit(u, i), x, i)

Carry == {{0}, {1}, {0, 1}}

LEMMA CarryOutHolds ==
  ASSUME NEW x, NEW y, NEW i, NEW C \in Carry, NEW e \in {0, 1}, NEW f \in {0, 1}, NEW t \in C,
         Agrees(e, x, i), Agrees(f, y, i)
  PROVE  /\ CarryOut(x, y, i, C) \in Carry
         /\ (e + f + t) \div 2 \in CarryOut(x, y, i, C)
<1> DEFINE g == (e + f + t) \div 2
<1>1. CarryOut(x, y, i, C) \in Carry
  BY DEF CarryOut, Carry
<1>2. t \in {0, 1} /\ g \in {0, 1}
  <2>1. t \in {0, 1}
    BY DEF Carry
  <2> QED BY <2>1
<1>3. ASSUME Majority(i \in x.zeros, i \in y.zeros, C = {0}) PROVE g = 0
  <2>1. (e = 0 /\ f = 0) \/ (e = 0 /\ t = 0) \/ (f = 0 /\ t = 0)
    BY <1>3 DEF Majority, Agrees
  <2> QED BY <1>2, <2>1
<1>4. ASSUME Majority(i \in x.ones, i \in y.ones, C = {1}) PROVE g = 1
  <2>1. (e = 1 /\ f = 1) \/ (e = 1 /\ t = 1) \/ (f = 1 /\ t = 1)
    BY <1>4 DEF Majority, Agrees
  <2> QED BY <1>2, <2>1
<1> HIDE DEF g
<1>5. g \in CarryOut(x, y, i, C)
  BY <1>2, <1>3, <1>4 DEF CarryOut
<1> QED BY <1>1, <1>5 DEF g

Below(x, x2) == x2.zeros \subseteq x.zeros /\ x2.ones \subseteq x.ones

LEMMA CarryOutWithin ==
  ASSUME NEW x, NEW y, NEW x2, NEW y2, NEW i, NEW C \in Carry, NEW C2 \in Carry, C \subseteq C2,
         Below(x, x2), Below(y, y2), NEW e \in {0, 1}, NEW f \in {0, 1}, NEW t \in C,
         Agrees(e, x, i), Agrees(f, y, i)
  PROVE  CarryOut(x, y, i, C) \subseteq CarryOut(x2, y2, i, C2)
<1>1. (C2 = {0} => C = {0}) /\ (C2 = {1} => C = {1})
  BY DEF Carry
<1>2. Majority(i \in x2.zeros, i \in y2.zeros, C2 = {0}) => Majority(i \in x.zeros, i \in y.zeros, C = {0})
  BY <1>1 DEF Majority, Below
<1>3. Majority(i \in x2.ones, i \in y2.ones, C2 = {1}) => Majority(i \in x.ones, i \in y.ones, C = {1})
  BY <1>1 DEF Majority, Below
<1>4. ~(Majority(i \in x.zeros, i \in y.zeros, C = {0}) /\ Majority(i \in x.ones, i \in y.ones, C = {1}))
  <2>1. /\ ~(i \in x.zeros /\ i \in x.ones)
        /\ ~(i \in y.zeros /\ i \in y.ones)
        /\ ~(C = {0} /\ C = {1})
    BY DEF Agrees
  <2> QED BY <2>1 DEF Majority
<1> QED BY <1>2, <1>3, <1>4 DEF CarryOut

LEMMA CarriesHold ==
  ASSUME NEW w \in Width, NEW x, NEW y, NEW x2, NEW y2,
         x.width = w, x2.width = w, Below(x, x2), Below(y, y2),
         NEW u \in Int, NEW v \in Int, NEW c \in {0, 1}, Fits(u, x, w), Fits(v, y, w)
  PROVE  \A i \in 0..w : /\ Carries(x, y, c)[i] \in Carry /\ Carries(x2, y2, c)[i] \in Carry
                         /\ CarryInto(u, v, c, i) \in Carries(x, y, c)[i]
                         /\ Carries(x, y, c)[i] \subseteq Carries(x2, y2, c)[i]
<1> DEFINE A == Carries(x, y, c)
           B == Carries(x2, y2, c)
           Holds(i) == A[i] \in Carry /\ B[i] \in Carry /\ CarryInto(u, v, c, i) \in A[i] /\ A[i] \subseteq B[i]
           T == {n \in Nat : n <= w => Holds(n)}
<1>0. w \in Nat
  BY Powers
<1>1. /\ A[0] = {c} /\ \A i \in 0..(w - 1) : A[i + 1] = CarryOut(x, y, i, A[i])
      /\ B[0] = {c} /\ \A i \in 0..(w - 1) : B[i + 1] = CarryOut(x2, y2, i, B[i])
  BY <1>0, CarriesUnfold
<1> HIDE DEF A, B
<1>2. 0 \in T
  <2>1. Holds(0)
    BY <1>1, CarryStart DEF Carry
  <2> HIDE DEF Holds
  <2> QED BY <2>1
<1>3. ASSUME NEW n \in Nat, n \in T PROVE n + 1 \in T
  <2> SUFFICES ASSUME n + 1 <= w PROVE Holds(n + 1)
    BY DEF T
  <2>1. Holds(n) /\ n \in 0..(w - 1)
    <3>1. n <= w /\ n \in 0..(w - 1)
      BY <1>0
    <3> HIDE DEF Holds
    <3> QED BY <1>3, <3>1
  <2> DEFINE e == Bit(u, n)
             f == Bit(v, n)
             t == CarryInto(u, v, c, n)
  <2>2. e \in {0, 1} /\ f \in {0, 1} /\ Agrees(e, x, n) /\ Agrees(f, y, n)
    BY <2>1, BitTyped DEF Fits
  <2>3. CarryInto(u, v, c, n + 1) = (e + f + t) \div 2
    BY <2>1, CarryStep
  <2>4. t \in A[n] /\ t \in B[n]
    BY <2>1
  <2>5. Agrees(e, x2, n) /\ Agrees(f, y2, n)
    BY <2>2 DEF Agrees, Below
  <2> HIDE DEF e, f, t
  <2>6. A[n + 1] \in Carry /\ CarryInto(u, v, c, n + 1) \in A[n + 1]
    BY <1>1, <2>1, <2>2, <2>3, <2>4, CarryOutHolds
  <2>7. B[n + 1] \in Carry
    BY <1>1, <2>1, <2>2, <2>4, <2>5, CarryOutHolds
  <2>8. A[n + 1] \subseteq B[n + 1]
    BY <1>1, <2>1, <2>2, <2>4, CarryOutWithin
  <2> QED BY <2>6, <2>7, <2>8
<1>4. Nat \subseteq T
  <2> HIDE DEF T
  <2> QED BY <1>2, <1>3, NatsIn
<1>5. \A i \in 0..w : Holds(i)
  <2> HIDE DEF Holds
  <2> QED BY <1>0, <1>4
<1> QED BY <1>5 DEF A, B

OddOf(x, y, C, i) == (i \in x.ones) # ((i \in y.ones) # (C[i] = {1}))

KnownSums(x, y, C) ==
  {i \in (x.zeros \union x.ones) \intersect (y.zeros \union y.ones) : C[i] # {0, 1}}

LEMMA OddSum ==
  ASSUME NEW e \in {0, 1}, NEW f \in {0, 1}, NEW t \in {0, 1}
  PROVE  (e + f + t) % 2 = 1 <=> ((e = 1) # ((f = 1) # (t = 1)))
<1>1. CASE t = 0
  BY <1>1
<1>2. CASE t = 1
  BY <1>2
<1> QED BY <1>1, <1>2

LEMMA AddFollows ==
  ASSUME NEW x \in Masked, NEW y \in Masked, NEW x2 \in Masked, NEW y2 \in Masked,
         y.width = x.width, BitsLeq(x, x2), BitsLeq(y, y2),
         NEW u \in Int, NEW v \in Int, NEW c \in {0, 1}, Fits(u, x, x.width), Fits(v, y, x.width),
         NEW r \in IntOf(x.width), BitsOf(x.width, r.bits) = BitsOf(x.width, u + v + c)
  PROVE  Follow(r, AddWithCarry(x, y, c), AddWithCarry(x2, y2, c))
<1> DEFINE w == x.width
           A == Carries(x, y, c)
           B == Carries(x2, y2, c)
           known == KnownSums(x, y, A)
           known2 == KnownSums(x2, y2, B)
<1>1. /\ x2.width = w /\ y2.width = w /\ y.width = w /\ Below(x, x2) /\ Below(y, y2)
      /\ w \in Width /\ w \in Nat
      /\ x.zeros \subseteq Positions(w) /\ x.ones \subseteq Positions(w) /\ x.zeros \intersect x.ones = {}
      /\ y.zeros \intersect y.ones = {}
      /\ Fits(u, x, w) /\ Fits(v, y, w)
      /\ r \in IntOf(w) /\ BitsOf(w, r.bits) = BitsOf(w, u + v + c) /\ x.width = w
  <2>1. x2.width = w /\ y2.width = w /\ y.width = w /\ Below(x, x2) /\ Below(y, y2)
    BY MaskedLeq DEF Below
  <2> QED BY <2>1, MaskedShape, Powers
<1>2. /\ AddWithCarry(x, y, c) = Make(w, {i \in known : ~OddOf(x, y, A, i)}, {i \in known : OddOf(x, y, A, i)})
      /\ AddWithCarry(x2, y2, c) =
           Make(w, {i \in known2 : ~OddOf(x2, y2, B, i)}, {i \in known2 : OddOf(x2, y2, B, i)})
  BY <1>1 DEF AddWithCarry, KnownSums, OddOf
<1> HIDE DEF w
<1>3. \A i \in 0..w : /\ A[i] \in Carry /\ B[i] \in Carry
                      /\ CarryInto(u, v, c, i) \in A[i] /\ A[i] \subseteq B[i]
  <2>1. /\ w \in Width /\ x.width = w /\ x2.width = w /\ Below(x, x2) /\ Below(y, y2)
        /\ Fits(u, x, w) /\ Fits(v, y, w)
    BY <1>1
  <2> QED BY <2>1, CarriesHold
<1> HIDE DEF A, B
<1>4. known \subseteq 0..(w - 1)
  BY <1>1 DEF KnownSums, Positions
<1>5. ASSUME NEW i \in known
      PROVE  i \in BitsOf(w, r.bits) <=> OddOf(x, y, A, i)
  <2> DEFINE e == Bit(u, i)
             f == Bit(v, i)
             t == CarryInto(u, v, c, i)
  <2>1. i \in 0..(w - 1) /\ i \in 0..w
    BY <1>1, <1>4
  <2>2. e \in {0, 1} /\ f \in {0, 1} /\ Agrees(e, x, i) /\ Agrees(f, y, i)
    BY <1>1, <2>1, BitTyped DEF Fits
  <2>3. t \in {0, 1} /\ Bit(u + v + c, i) = (e + f + t) % 2
    <3>1. w \in Width
      BY <1>1
    <3> QED BY <2>1, <3>1, CarryStep
  <2>4. i \in BitsOf(w, r.bits) <=> Bit(u + v + c, i) = 1
    BY <1>1, <2>1, BitTyped
  <2>5. t \in A[i] /\ A[i] \in Carry /\ A[i] # {0, 1}
    BY <1>3, <2>1 DEF KnownSums
  <2> HIDE DEF e, f, t
  <2>6. (t = 1) <=> (A[i] = {1})
    BY <2>5 DEF Carry
  <2>7. (e = 1) <=> i \in x.ones
    BY <2>2 DEF Agrees, KnownSums
  <2>8. (f = 1) <=> i \in y.ones
    BY <2>2 DEF Agrees, KnownSums
  <2>9. (e + f + t) % 2 = 1 <=> ((e = 1) # ((f = 1) # (t = 1)))
    BY <2>2, <2>3, OddSum
  <2>10. ((e = 1) # ((f = 1) # (t = 1))) <=> OddOf(x, y, A, i)
    BY <2>6, <2>7, <2>8 DEF OddOf
  <2> QED BY <2>3, <2>4, <2>9, <2>10
<1>6. ASSUME NEW i \in known2
      PROVE  i \in known /\ (OddOf(x2, y2, B, i) <=> OddOf(x, y, A, i))
  <2>1. /\ i \in (x2.zeros \union x2.ones) \intersect (y2.zeros \union y2.ones) /\ B[i] # {0, 1}
    BY DEF KnownSums
  <2>2. /\ i \in (x.zeros \union x.ones) \intersect (y.zeros \union y.ones)
        /\ (i \in x2.ones <=> i \in x.ones) /\ (i \in y2.ones <=> i \in y.ones)
    BY <1>1, <2>1 DEF Below
  <2>3. i \in 0..w
    BY <1>1, <2>2 DEF Positions
  <2>4. A[i] = B[i]
    BY <1>3, <2>1, <2>3 DEF Carry
  <2> QED BY <2>1, <2>2, <2>4 DEF KnownSums, OddOf
<1> HIDE DEF known, known2
<1> DEFINE z == {i \in known : ~OddOf(x, y, A, i)}
           o == {i \in known : OddOf(x, y, A, i)}
           z2 == {i \in known2 : ~OddOf(x2, y2, B, i)}
           o2 == {i \in known2 : OddOf(x2, y2, B, i)}
<1>7. /\ BitsOf(w, r.bits) \intersect z = {} /\ o \intersect Positions(w) \subseteq BitsOf(w, r.bits)
      /\ z2 \intersect Positions(w) \subseteq z /\ o2 \intersect Positions(w) \subseteq o
  <2>1. BitsOf(w, r.bits) \intersect z = {} /\ o \subseteq BitsOf(w, r.bits)
    BY <1>5
  <2>2. z2 \subseteq z /\ o2 \subseteq o
    BY <1>6
  <2> QED BY <2>1, <2>2
<1> HIDE DEF z, o, z2, o2
<1>8. Follow(r, Make(w, z, o), Make(w, z2, o2))
  BY <1>1, <1>7, MasksFollow
<1> QED BY <1>2, <1>8 DEF z, o, z2, o2

-----------------------------------------------------------------------------
(* Arithmetic on masks *)

(* The two readings of a pattern differ by a multiple of the next power.     *)
LEMMA SignedOffset ==
  ASSUME NEW w \in Width, NEW a \in IntOf(w)
  PROVE  Signed(a) \in Int /\ \E q \in Int : Signed(a) = a.bits + 2^w * q
<1>0. a.width = w /\ a.bits \in Nat
  BY PatternKnown
<1> DEFINE m == 2^w
<1>1. m \in Nat \ {0}
  BY Halves
<1>2. Signed(a) \in {a.bits, a.bits - m}
  BY <1>0 DEF Signed, SignedBits
<1> HIDE DEF m
<1>3. CASE Signed(a) = a.bits
  <2>1. a.bits = a.bits + m * 0
    BY <1>0, <1>1
  <2> QED BY <1>0, <1>3, <2>1 DEF m
<1>4. CASE Signed(a) = a.bits - m
  <2>1. a.bits - m = a.bits + m * (-1) /\ a.bits - m \in Int /\ -1 \in Int
    BY <1>0, <1>1
  <2> QED BY <1>4, <2>1 DEF m
<1> QED BY <1>2, <1>3, <1>4

(* A value's pattern, read with a sign or without, has the bits of its masks. *)
LEMMA ValuesFit ==
  ASSUME NEW x \in Masked, NEW a \in BitsGamma(x)
  PROVE  /\ a.bits \in Nat /\ Fits(a.bits, x, x.width)
         /\ Signed(a) \in Int /\ Fits(Signed(a), x, x.width)
<1> DEFINE w == x.width
<1>1. w \in Width /\ a \in IntOf(w) /\ a.bits \in Nat /\ a.width = w
  BY OnesOf, PatternKnown
<1>2. Ones(a) = BitsOf(w, a.bits) /\ Ones(a) \intersect x.zeros = {} /\ x.ones \subseteq Ones(a)
  BY OnesOf
<1> HIDE DEF w
<1>3. ASSUME NEW i \in 0..(w - 1) PROVE Agrees(Bit(a.bits, i), x, i)
  <2>1. a.bits \in Int
    BY <1>1
  <2>2. Bit(a.bits, i) \in {0, 1} /\ (i \in BitsOf(w, a.bits) <=> Bit(a.bits, i) = 1)
    BY <1>1, <2>1, BitTyped
  <2> QED BY <1>2, <2>2 DEF Agrees
<1>4. Signed(a) \in Int /\ \E q \in Int : Signed(a) = a.bits + 2^w * q
  BY <1>1, SignedOffset
<1>5. ASSUME NEW i \in 0..(w - 1) PROVE Bit(Signed(a), i) = Bit(a.bits, i)
  <2>1. w \in (i + 1)..w /\ a.bits \in Int
    BY <1>1, Powers
  <2>2. PICK q \in Int : Signed(a) = a.bits + 2^w * q
    BY <1>4
  <2> QED BY <1>1, <2>1, <2>2, BitAbove
<1>6. Fits(a.bits, x, w)
  BY <1>3 DEF Fits
<1>7. Fits(Signed(a), x, w)
  BY <1>3, <1>5 DEF Fits
<1> QED BY <1>1, <1>4, <1>6, <1>7 DEF w

LEMMA ComplementBit ==
  ASSUME NEW w \in Width, NEW v \in Int, NEW i \in 0..(w - 1)
  PROVE  Bit(-1 - v, i) = 1 - Bit(v, i)
<1> DEFINE p == 2^i
           q == v \div p
           r == v % p
<1>1. p \in Nat \ {0}
  BY BitTyped
<1>2. Bit(-1 - v, i) = ((-1 - v) \div p) % 2 /\ Bit(v, i) = q % 2
  BY DEF Bit
<1> HIDE DEF p
<1>3. q \in Int /\ r \in 0..(p - 1) /\ v = p * q + r
  BY <1>1, Remainder
<1> HIDE DEF q, r
<1> DEFINE h == -1 - q
           l == p - 1 - r
<1>4. h \in Int /\ l \in 0..(p - 1) /\ -1 - v = p * h + l
  <2>1. p * (-1 - q) = -p - p * q /\ p * q \in Int
    BY <1>1, <1>3
  <2> QED BY <1>1, <1>3, <2>1
<1>5. (-1 - v) \div p = h
  <2> HIDE DEF h, l
  <2>1. (p * h + l) \div p = h
    BY <1>1, <1>4, RemainderOf
  <2> QED BY <1>4, <2>1
<1>6. h % 2 = 1 - (q % 2)
  BY <1>3
<1> QED BY <1>2, <1>5, <1>6

LEMMA Complements ==
  ASSUME NEW x \in Masked
  PROVE  /\ Complement(x) \in Masked /\ Complement(x).width = x.width
         /\ \A x2 \in Masked : BitsLeq(x, x2) => BitsLeq(Complement(x), Complement(x2))
         /\ \A v \in Int : Fits(v, x, x.width) => Fits(-1 - v, Complement(x), x.width)
<1>1. ASSUME NEW k \in Masked
      PROVE  /\ Complement(k) \in Masked /\ Complement(k).width = k.width
             /\ Complement(k).zeros = k.ones /\ Complement(k).ones = k.zeros
  BY <1>1, MaskedShape, MaskedRecord DEF Complement
<1>2. ASSUME NEW x2 \in Masked, BitsLeq(x, x2) PROVE BitsLeq(Complement(x), Complement(x2))
  BY <1>1, <1>2, MaskedLeq
<1>3. ASSUME NEW v \in Int, Fits(v, x, x.width) PROVE Fits(-1 - v, Complement(x), x.width)
  <2>0. x.width \in Width
    BY MaskedShape
  <2>1. ASSUME NEW i \in 0..(x.width - 1) PROVE Agrees(Bit(-1 - v, i), Complement(x), i)
    <3>1. Bit(-1 - v, i) = 1 - Bit(v, i) /\ Bit(v, i) \in {0, 1}
      BY <2>0, ComplementBit, BitTyped
    <3>2. Agrees(Bit(v, i), x, i)
      BY <1>3 DEF Fits
    <3> QED BY <1>1, <3>1, <3>2 DEF Agrees
  <2> QED BY <2>1 DEF Fits
<1> QED BY <1>1, <1>2, <1>3

SumKnown(kind, x, y) == IF kind = "add" THEN AddWithCarry(x, y, 0) ELSE AddWithCarry(x, Complement(y), 1)

Wrapping(op) == {"nsw", "nuw"} \intersect op.flags = {}

LEMMA WrappedResult ==
  ASSUME NEW w \in Width, NEW op, op.kind \in Arith, Wrapping(op), NEW a \in IntOf(w), NEW b \in IntOf(w)
  PROVE  /\ Exact(op.kind, Signed(a), Signed(b)) \in Int
         /\ EvalArith(op, a, b) = Sem(w, Exact(op.kind, Signed(a), Signed(b)))
         /\ EvalArith(op, a, b) \in IntOf(w)
         /\ BitsOf(w, EvalArith(op, a, b).bits) = BitsOf(w, Exact(op.kind, Signed(a), Signed(b)))
<1> DEFINE e == Exact(op.kind, Signed(a), Signed(b))
<1>1. Signed(a) \in Int /\ Signed(b) \in Int /\ a.width = w
  BY SignedOffset, PatternKnown
<1>2. e \in Int
  <2> DEFINE sa == Signed(a)
             sb == Signed(b)
  <2>1. sa \in Int /\ sb \in Int
    BY <1>1
  <2> HIDE DEF sa, sb
  <2>2. Exact(op.kind, sa, sb) \in Int
    BY <2>1 DEF Exact, Arith
  <2> QED BY <2>2 DEF sa, sb
<1>3. EvalArith(op, a, b) = Sem(w, e)
  BY <1>1 DEF EvalArith, Wrapping
<1> HIDE DEF e
<1>4. Sem(w, e) \in IntOf(w) /\ Sem(w, e).bits = e % 2^w
  BY <1>2, SemTyped
<1>5. BitsOf(w, e % 2^w) = BitsOf(w, e)
  BY <1>2, BitsOfSem
<1> QED BY <1>2, <1>3, <1>4, <1>5 DEF e

LEMMA SumFollows ==
  ASSUME NEW op, op.kind \in {"add", "sub"}, Wrapping(op),
         NEW x \in Masked, NEW y \in Masked, NEW x2 \in Masked, NEW y2 \in Masked,
         y.width = x.width, BitsLeq(x, x2), BitsLeq(y, y2),
         NEW a \in BitsGamma(x), NEW b \in BitsGamma(y)
  PROVE  Follow(EvalArith(op, a, b), SumKnown(op.kind, x, y), SumKnown(op.kind, x2, y2))
<1> DEFINE w == x.width
           u == Signed(a)
           v == Signed(b)
           r == EvalArith(op, a, b)
<1>1. w \in Width /\ a \in IntOf(w) /\ b \in IntOf(w)
  BY OnesOf
<1>2. u \in Int /\ Fits(u, x, w) /\ v \in Int /\ Fits(v, y, w)
  BY ValuesFit
<1>3. r \in IntOf(w) /\ BitsOf(w, r.bits) = BitsOf(w, Exact(op.kind, u, v))
  BY <1>1, WrappedResult DEF Arith
<1> HIDE DEF u, v, r
<1>4. CASE op.kind = "add"
  <2>1. Exact(op.kind, u, v) = u + v + 0
    BY <1>2, <1>4 DEF Exact
  <2>2. Follow(r, AddWithCarry(x, y, 0), AddWithCarry(x2, y2, 0))
    BY <1>2, <1>3, <2>1, AddFollows, 0 \in {0, 1}
  <2> QED BY <1>4, <2>2 DEF SumKnown, r
<1>5. CASE op.kind = "sub"
  <2>1. Exact(op.kind, u, v) = u + (-1 - v) + 1 /\ -1 - v \in Int
    BY <1>2, <1>5 DEF Exact
  <2> DEFINE n == Complement(y)
             n2 == Complement(y2)
  <2>2. n \in Masked /\ n2 \in Masked /\ n.width = w /\ BitsLeq(n, n2) /\ Fits(-1 - v, n, w)
    BY <1>2, Complements
  <2> HIDE DEF n, n2
  <2>3. Follow(r, AddWithCarry(x, n, 1), AddWithCarry(x2, n2, 1))
    BY <1>2, <1>3, <2>1, <2>2, AddFollows, 1 \in {0, 1}
  <2>4. op.kind # "add"
    BY <1>5
  <2> QED BY <2>3, <2>4 DEF SumKnown, r, n, n2
<1> QED BY <1>4, <1>5

LEMMA TrailingZerosIs ==
  ASSUME NEW x \in Masked
  PROVE  /\ TrailingZeros(x) \in 0..x.width
         /\ Positions(TrailingZeros(x)) \subseteq x.zeros /\ TrailingZeros(x) \notin x.zeros
<1> DEFINE w == x.width
           T == {n \in Nat : n \notin x.zeros}
<1>1. w \in Nat /\ x.zeros \subseteq 0..(w - 1)
  BY MaskedShape, Powers DEF Positions
<1> HIDE DEF w
<1>2. w \in T
  BY <1>1
<1>3. PICK t \in T : \A n \in T : t <= n
  <2>1. T \subseteq Nat /\ T # {}
    BY <1>2
  <2> HIDE DEF T
  <2> QED BY <2>1, LeastNat
<1>4. t \in 0..w /\ t \notin x.zeros
  BY <1>1, <1>2, <1>3
<1>5. Positions(t) \subseteq x.zeros
  <2> SUFFICES ASSUME NEW i \in 0..(t - 1), i \notin x.zeros PROVE FALSE
    BY DEF Positions
  <2>1. i \in T /\ i < t
    BY <1>4
  <2> QED BY <1>3, <1>4, <2>1
<1>6. TrailingZeros(x) = CHOOSE n \in 0..w : Positions(n) \subseteq x.zeros /\ n \notin x.zeros
  BY DEF TrailingZeros, w
<1> HIDE DEF T
<1>7. \E n \in 0..w : Positions(n) \subseteq x.zeros /\ n \notin x.zeros
  BY <1>4, <1>5
<1> DEFINE c == CHOOSE n \in 0..w : Positions(n) \subseteq x.zeros /\ n \notin x.zeros
<1>8. c \in 0..w /\ Positions(c) \subseteq x.zeros /\ c \notin x.zeros
  BY <1>7
<1> QED BY <1>6, <1>8 DEF w

LEMMA ZerosShrink ==
  ASSUME NEW x \in Masked, NEW x2 \in Masked, BitsLeq(x, x2)
  PROVE  TrailingZeros(x2) <= TrailingZeros(x)
<1> DEFINE t == TrailingZeros(x)
           t2 == TrailingZeros(x2)
<1>1. /\ t \in 0..x.width /\ t \notin x.zeros /\ x.width \in Nat
      /\ t2 \in 0..x.width /\ Positions(t2) \subseteq x.zeros
  BY TrailingZerosIs, MaskedLeq, MaskedShape, Powers
<1> HIDE DEF t, t2
<1>2. t2 <= t
  BY <1>1 DEF Positions
<1> QED BY <1>2 DEF t, t2

LEMMA ZeroBits ==
  ASSUME NEW w \in Width, NEW i \in 0..(w - 1)
  PROVE  Bit(0, i) = 0
<1> DEFINE p == 2^i
<1>1. p \in Nat \ {0}
  BY BitTyped
<1> HIDE DEF p
<1>2. 0 \div p = 0
  <2>1. p * 0 + 0 = 0 /\ 0 \in 0..(p - 1)
    BY <1>1
  <2> QED BY <1>1, <2>1, RemainderOf, 0 \in Int
<1>3. Bit(0, i) = (0 \div p) % 2
  BY DEF Bit, p
<1> QED BY <1>2, <1>3

LEMMA LowZeros ==
  ASSUME NEW x \in Masked, NEW u \in Int, Fits(u, x, x.width)
  PROVE  \E q \in Int : u = 2^TrailingZeros(x) * q
<1> DEFINE w == x.width
           t == TrailingZeros(x)
<1>1. w \in Width /\ t \in 0..w /\ Positions(t) \subseteq x.zeros
  BY MaskedShape, TrailingZerosIs
<1>2. ASSUME NEW i \in 0..(t - 1) PROVE Bit(u, i) = Bit(0, i)
  <2>1. i \in 0..(w - 1) /\ i \in x.zeros
    BY <1>1, Powers DEF Positions
  <2>2. Bit(u, i) = 0
    BY <2>1 DEF Fits, Agrees
  <2> QED BY <1>1, <2>1, <2>2, ZeroBits
<1> HIDE DEF t, w
<1>3. u % 2^t = 0 % 2^t
  BY <1>1, <1>2, LowAgree, 0 \in Int
<1> DEFINE p == 2^t
<1>4. p \in Nat \ {0} /\ u % p = 0 % p
  BY <1>1, <1>3, Powers
<1> HIDE DEF p
<1>5. u \div p \in Int /\ u = p * (u \div p)
  <2>1. 0 % p = 0
    <3>1. p * 0 + 0 = 0 /\ 0 \in 0..(p - 1)
      BY <1>4
    <3> QED BY <1>4, <3>1, RemainderOf, 0 \in Int
  <2>2. u \div p \in Int /\ u = p * (u \div p) + (u % p)
    BY <1>4, Remainder
  <2>3. p * (u \div p) \in Int
    BY <1>4, <2>2
  <2> QED BY <1>4, <2>1, <2>2, <2>3
<1> QED BY <1>5 DEF p, t

(* The low zeros of the factors add up.                                      *)
LEMMA ProductLow ==
  ASSUME NEW w \in Width, NEW s \in 0..w, NEW t \in 0..w, NEW q \in Int, NEW h \in Int,
         NEW i \in 0..(w - 1), i < s + t
  PROVE  Bit((2^s * q) * (2^t * h), i) = 0
<1> DEFINE prod == (2^s * q) * (2^t * h)
<1>0. w \in Nat /\ 2^s \in Nat /\ 2^t \in Nat /\ s \in Nat /\ t \in Nat
  BY Powers
<1>1. \E n \in (i + 1)..w, d \in Int : prod = 2^n * d
  <2>1. CASE i < s
    <3> DEFINE p == 2^s
               m == 2^t * h
    <3>1. p \in Int /\ m \in Int
      BY <1>0
    <3>2. prod = p * (q * m) /\ q * m \in Int
      <4> HIDE DEF p, m
      <4>1. (p * q) * m = p * (q * m) /\ q * m \in Int
        BY <3>1
      <4> QED BY <4>1 DEF p, m
    <3>3. s \in (i + 1)..w
      BY <1>0, <2>1
    <3> HIDE DEF prod, m
    <3> QED BY <3>2, <3>3
  <2>2. CASE i >= s
    <3> DEFINE j == i + 1 - s
    <3>1. j \in 0..t /\ t \in j..t /\ t \in j..w /\ s + j = i + 1 /\ j \in 0..w /\ j \in Nat
      BY <1>0, <2>2
    <3> HIDE DEF j
    <3>2. PICK k \in Nat \ {0} : 2^t = 2^j * k
      BY <3>1, PowersDivide
    <3>3. 2^(i + 1) = 2^s * 2^j
      BY <1>0, <3>1, PowersAdd
    <3> DEFINE p == 2^s
               m == 2^j
    <3>4. p \in Int /\ m \in Int
      BY <1>0, <3>1, Powers
    <3>5. prod = (p * q) * ((m * k) * h)
      BY <3>2
    <3>6. (p * q) * ((m * k) * h) = (p * m) * (q * (k * h)) /\ q * (k * h) \in Int
      <4> HIDE DEF p, m
      <4>1. k * h \in Int
        OBVIOUS
      <4> DEFINE kh == k * h
      <4>2. (m * k) * h = m * kh /\ kh \in Int
        BY <3>4, <4>1
      <4> HIDE DEF kh
      <4>3. (p * q) * (m * kh) = (p * m) * (q * kh) /\ q * kh \in Int
        BY <3>4, <4>2
      <4> QED BY <4>2, <4>3 DEF kh
    <3>7. prod = 2^(i + 1) * (q * (k * h)) /\ q * (k * h) \in Int /\ (i + 1) \in (i + 1)..w
      BY <1>0, <3>3, <3>5, <3>6
    <3> HIDE DEF prod
    <3> QED BY <3>7
  <2> QED BY <1>0, <2>1, <2>2
<1> HIDE DEF prod
<1>2. PICK n \in (i + 1)..w : \E d \in Int : prod = 2^n * d
  BY <1>1
<1>3. PICK d \in Int : prod = 2^n * d
  BY <1>2
<1>4. Bit(0 + 2^n * d, i) = Bit(0, i)
  BY BitAbove, 0 \in Int
<1>5. 0 + 2^n * d = prod
  <2> DEFINE p == 2^n
  <2>1. p \in Int
    BY <1>0, Powers
  <2>2. 0 + p * d = p * d
    <3> HIDE DEF p
    <3> QED BY <2>1
  <2> QED BY <1>3, <2>2
<1> QED BY <1>4, <1>5, ZeroBits DEF prod

(* Below the product's zeros, whatever the masks allow the factors to be.    *)
LEMMA ProductZeros ==
  ASSUME NEW x \in Masked, NEW y \in Masked, y.width = x.width, NEW u \in Int, NEW v \in Int,
         Fits(u, x, x.width), Fits(v, y, x.width)
  PROVE  BitsOf(x.width, u * v) \intersect Positions(TrailingZeros(x) + TrailingZeros(y)) = {}
<1> DEFINE w == x.width
           s == TrailingZeros(x)
           t == TrailingZeros(y)
<1>1. w \in Width /\ s \in 0..w /\ t \in 0..w /\ s \in Nat /\ t \in Nat
  BY MaskedShape, TrailingZerosIs, Powers
<1>2. \E q \in Int : u = 2^s * q
  BY LowZeros
<1>3. \E h \in Int : v = 2^t * h
  BY LowZeros
<1> HIDE DEF s, t, w
<1>4. PICK q \in Int : u = 2^s * q
  BY <1>2
<1>5. PICK h \in Int : v = 2^t * h
  BY <1>3
<1>6. ASSUME NEW i \in BitsOf(w, u * v), i \in Positions(s + t) PROVE FALSE
  <2>1. i \in 0..(w - 1) /\ i < s + t
    BY <1>1, <1>6 DEF BitsOf, Positions
  <2>2. Bit(u * v, i) = 0
    <3>1. Bit((2^s * q) * (2^t * h), i) = 0
      BY <1>1, <2>1, ProductLow
    <3> QED BY <1>4, <1>5, <3>1, Zenon
  <2>3. u * v \in Int
    OBVIOUS
  <2>4. Bit(u * v, i) = 1
    BY <1>1, <1>6, <2>1, <2>3, BitTyped
  <2> QED BY <2>2, <2>4
<1> QED BY <1>6 DEF s, t, w

(* The unsigned product has the bits of the signed one.                      *)
LEMMA ProductOfPatterns ==
  ASSUME NEW w \in Width, NEW a \in IntOf(w), NEW b \in IntOf(w)
  PROVE  BitsOf(w, Signed(a) * Signed(b)) = BitsOf(w, a.bits * b.bits)
<1> DEFINE m == 2^w
           u == a.bits
           v == b.bits
<1>1. m \in Nat \ {0} /\ u \in Nat /\ v \in Nat
  BY Halves, PatternKnown
<1>2. PICK q \in Int : Signed(a) = u + m * q
  BY SignedOffset
<1>3. PICK h \in Int : Signed(b) = v + m * h
  BY SignedOffset
<1> DEFINE d == u * h + q * v + (m * q) * h
           prod == u * v
<1>4. d \in Int /\ Signed(a) * Signed(b) = prod + m * d /\ prod \in Int
  <2> HIDE DEF u, v, m
  <2>1. (m * q) * h \in Int /\ u * h \in Int /\ q * v \in Int /\ u * v \in Int
    <3>1. m * q \in Int
      BY <1>1
    <3> DEFINE mq == m * q
    <3>2. mq \in Int
      BY <3>1
    <3> HIDE DEF mq
    <3>3. mq * h \in Int
      BY <3>2
    <3> QED BY <1>1, <3>3 DEF mq
  <2>2. (u + m * q) * (v + m * h) = u * v + m * (u * h + q * v + (m * q) * h)
    BY <1>1
  <2> QED BY <1>2, <1>3, <2>1, <2>2
<1> HIDE DEF d, prod
<1>5. ASSUME NEW i \in 0..(w - 1) PROVE Bit(prod + 2^w * d, i) = Bit(prod, i)
  <2>1. w \in (i + 1)..w
    BY Powers
  <2>2. d \in Int /\ prod \in Int
    BY <1>4
  <2> QED BY <2>1, <2>2, BitAbove
<1>6. Signed(a) * Signed(b) \in Int
  BY SignedOffset
<1>7. BitsOf(w, Signed(a) * Signed(b)) = BitsOf(w, prod)
  <2> DEFINE sum == Signed(a) * Signed(b)
  <2>1. \A i \in 0..(w - 1) : Bit(sum, i) = Bit(prod, i)
    BY <1>4, <1>5
  <2>2. \A k \in Int : BitsOf(w, k) = {i \in 0..(w - 1) : Bit(k, i) = 1}
    BY DEF BitsOf, Bit
  <2>3. sum \in Int
    BY <1>6
  <2> HIDE DEF sum
  <2>4. BitsOf(w, sum) = BitsOf(w, prod)
    BY <1>4, <2>1, <2>2, <2>3
  <2> QED BY <2>4 DEF sum
<1> QED BY <1>7 DEF prod, u, v

LEMMA ProductFollows ==
  ASSUME NEW op, op.kind = "mul", Wrapping(op),
         NEW x \in Masked, NEW y \in Masked, NEW x2 \in Masked, NEW y2 \in Masked,
         y.width = x.width, BitsLeq(x, x2), BitsLeq(y, y2),
         NEW a \in BitsGamma(x), NEW b \in BitsGamma(y)
  PROVE  Follow(EvalArith(op, a, b), MulKnown(x, y), MulKnown(x2, y2))
<1> DEFINE w == x.width
           r == EvalArith(op, a, b)
           prod == a.bits * b.bits
           low == Positions(TrailingZeros(x) + TrailingZeros(y))
           low2 == Positions(TrailingZeros(x2) + TrailingZeros(y2))
<1>1. /\ w \in Width /\ a \in IntOf(w) /\ b \in IntOf(w) /\ a.bits \in Nat /\ b.bits \in Nat
      /\ x2.width = w /\ y2.width = w
  BY OnesOf, PatternKnown, MaskedLeq
<1>2. r \in IntOf(w) /\ BitsOf(w, r.bits) = BitsOf(w, prod) /\ prod \in Int
  <2>1. Exact(op.kind, Signed(a), Signed(b)) = Signed(a) * Signed(b)
    BY DEF Exact
  <2>2. r \in IntOf(w) /\ BitsOf(w, r.bits) = BitsOf(w, Signed(a) * Signed(b))
    BY <1>1, <2>1, WrappedResult DEF Arith
  <2>3. BitsOf(w, Signed(a) * Signed(b)) = BitsOf(w, prod)
    BY <1>1, ProductOfPatterns
  <2>4. prod \in Int
    BY <1>1
  <2> QED BY <2>2, <2>3, <2>4
<1>3. BitsOf(w, prod) \intersect low = {}
  <2>1. Fits(a.bits, x, x.width) /\ Fits(b.bits, y, x.width) /\ a.bits \in Int /\ b.bits \in Int
    BY <1>1, ValuesFit
  <2> QED BY <2>1, ProductZeros
<1>4. low2 \subseteq low
  <2>1. TrailingZeros(x2) <= TrailingZeros(x) /\ TrailingZeros(y2) <= TrailingZeros(y)
    BY ZerosShrink
  <2>2. /\ TrailingZeros(x2) \in Nat /\ TrailingZeros(x) \in Nat
        /\ TrailingZeros(y2) \in Nat /\ TrailingZeros(y) \in Nat
    BY TrailingZerosIs, MaskedShape, Powers
  <2> DEFINE s == TrailingZeros(x)
             t == TrailingZeros(y)
             s2 == TrailingZeros(x2)
             t2 == TrailingZeros(y2)
  <2>3. s2 + t2 <= s + t /\ s2 + t2 \in Nat /\ s + t \in Nat
    BY <2>1, <2>2
  <2> HIDE DEF s, t, s2, t2
  <2>4. Positions(s2 + t2) \subseteq Positions(s + t)
    BY <2>3 DEF Positions
  <2> QED BY <2>4 DEF s, t, s2, t2
<1>5. MulKnown(x, y) = IF FullyKnown(x) /\ FullyKnown(y) THEN KnownConst(w, ValueOf(x) * ValueOf(y))
                       ELSE Make(w, low, {})
  BY DEF MulKnown
<1>6. MulKnown(x2, y2) = IF FullyKnown(x2) /\ FullyKnown(y2) THEN KnownConst(w, ValueOf(x2) * ValueOf(y2))
                         ELSE Make(w, low2, {})
  BY <1>1 DEF MulKnown
<1> HIDE DEF w, r, prod, low, low2
<1> DEFINE const == KnownConst(w, prod)
<1>7. /\ const \in Masked
      /\ const = [width |-> w, zeros |-> Positions(w) \ BitsOf(w, prod), ones |-> BitsOf(w, prod)]
  BY <1>1, <1>2, ConstKnown
<1> HIDE DEF const
<1>8. r \in BitsGamma(const)
  <2>1. BitsOf(w, r.bits) \intersect const.zeros = {} /\ const.ones \subseteq BitsOf(w, r.bits) /\ const.width = w
    BY <1>2, <1>7
  <2> QED BY <1>2, <1>7, <2>1, MaskedMeaning
<1>9. FullyKnown(x) /\ FullyKnown(y) => MulKnown(x, y) = const
  <2>1. FullyKnown(x) /\ FullyKnown(y) => ValueOf(x) = a.bits /\ ValueOf(y) = b.bits
    BY FullyKnownValue
  <2> QED BY <1>5, <2>1 DEF const, prod
<1>10. CASE FullyKnown(x2) /\ FullyKnown(y2)
  <2>1. x = x2 /\ y = y2
    BY <1>10, FullyKnownBelow
  <2>2. MulKnown(x, y) = const /\ MulKnown(x2, y2) = const
    BY <1>9, <1>10, <2>1
  <2> QED BY <1>7, <1>8, <2>2, BitsKinds, BitsOrder DEF Follow, r
<1>11. CASE ~(FullyKnown(x2) /\ FullyKnown(y2)) /\ FullyKnown(x) /\ FullyKnown(y)
  <2>1. MulKnown(x, y) = const /\ MulKnown(x2, y2) = Make(w, low2, {})
    BY <1>6, <1>9, <1>11
  <2>2. /\ Make(w, low2, {}) \in Masked
        /\ Make(w, low2, {}) = [width |-> w, zeros |-> low2 \intersect Positions(w), ones |-> {} \intersect Positions(w)]
    <3>1. BitsOf(w, r.bits) \intersect low2 = {} /\ {} \intersect Positions(w) \subseteq BitsOf(w, r.bits)
      BY <1>2, <1>3, <1>4
    <3> QED BY <1>1, <1>2, <3>1, MakeMeaning
  <2>3. BitsLeq(const, Make(w, low2, {}))
    <3>1. low2 \intersect Positions(w) \subseteq Positions(w) \ BitsOf(w, prod)
      BY <1>3, <1>4
    <3> QED BY <1>7, <2>2, <3>1, MaskedLeq
  <2> QED BY <1>7, <1>8, <2>1, <2>2, <2>3, BitsKinds DEF Follow, r
<1>12. CASE ~(FullyKnown(x2) /\ FullyKnown(y2)) /\ ~(FullyKnown(x) /\ FullyKnown(y))
  <2>1. MulKnown(x, y) = Make(w, low, {}) /\ MulKnown(x2, y2) = Make(w, low2, {})
    BY <1>5, <1>6, <1>12
  <2>2. BitsOf(w, r.bits) \intersect low = {} /\ low2 \intersect Positions(w) \subseteq low
    BY <1>2, <1>3, <1>4
  <2>3. {} \intersect Positions(w) \subseteq BitsOf(w, r.bits) /\ {} \intersect Positions(w) \subseteq {}
    OBVIOUS
  <2>4. Follow(r, Make(w, low, {}), Make(w, low2, {}))
    BY <1>1, <1>2, <2>2, <2>3, MasksFollow
  <2> QED BY <2>1, <2>4 DEF r
<1> QED BY <1>10, <1>11, <1>12

-----------------------------------------------------------------------------
(* Shifts and casts: bits moved, and bits filled *)

LEMMA TwoDivisions ==
  ASSUME NEW p \in Nat \ {0}, NEW q \in Nat \ {0}, NEW v \in Int
  PROVE  (v \div p) \div q = v \div (p * q)
<1> DEFINE h == v \div p
           r == v % p
           g == h \div q
           s == h % q
<1>1. h \in Int /\ r \in 0..(p - 1) /\ v = p * h + r
  BY Remainder
<1> HIDE DEF h, r
<1>2. g \in Int /\ s \in 0..(q - 1) /\ h = q * g + s
  BY <1>1, Remainder
<1> HIDE DEF g, s
<1> DEFINE m == p * q
           l == p * s + r
<1>3. m \in Nat \ {0}
  OBVIOUS
<1>4. l \in 0..(m - 1)
  <2>1. p * s \in Nat /\ p * (q - 1 - s) \in Nat
    <3>1. s \in Nat /\ q - 1 - s \in Nat
      BY <1>2
    <3> QED BY <3>1
  <2>2. p * (q - 1 - s) = p * q - p - p * s /\ p * q \in Int
    BY <1>2
  <2> QED BY <1>1, <2>1, <2>2
<1>5. v = m * g + l
  <2>1. p * (q * g + s) = (p * q) * g + p * s /\ (p * q) * g \in Int /\ p * s \in Int
    BY <1>2
  <2> QED BY <1>1, <1>2, <2>1
<1> HIDE DEF m, l
<1>6. v \div m = g
  BY <1>2, <1>3, <1>4, <1>5, RemainderOf
<1> QED BY <1>6 DEF m, g, h

LEMMA BitShifted ==
  ASSUME NEW w \in Width, NEW v \in Int, NEW k \in Nat, NEW i \in Nat, i + k < w
  PROVE  /\ v \div 2^k \in Int /\ Bit(v \div 2^k, i) = Bit(v, i + k)
         /\ v * 2^k \in Int /\ Bit(v * 2^k, i + k) = Bit(v, i)
<1> DEFINE p == 2^k
           q == 2^i
<1>1. /\ p \in Nat \ {0} /\ q \in Nat \ {0} /\ i + k \in 0..(w - 1)
      /\ 2^(i + k) = p * q
  <2>1. w \in Nat /\ i \in 0..w /\ k \in 0..w /\ i + k \in 0..(w - 1) /\ k + i <= w /\ k + i = i + k
    BY Powers
  <2>2. 2^(k + i) = 2^k * 2^i
    BY <2>1, PowersAdd
  <2> QED BY <2>1, <2>2, Powers
<1>2. ASSUME NEW u \in Int PROVE u \div p \in Int /\ Bit(u \div p, i) = Bit(u, i + k)
  <2>1. Bit(u, i + k) = (u \div (p * q)) % 2 /\ Bit(u \div p, i) = ((u \div p) \div q) % 2
    BY <1>1 DEF Bit
  <2> HIDE DEF p, q
  <2>2. (u \div p) \div q = u \div (p * q)
    BY <1>1, TwoDivisions
  <2>3. u \div p \in Int
    BY <1>1, Remainder
  <2> QED BY <2>1, <2>2, <2>3
<1>3. v * p \in Int /\ (v * p) \div p = v
  <2> HIDE DEF p
  <2>1. v * p = p * v + 0 /\ 0 \in 0..(p - 1) /\ v * p \in Int
    BY <1>1
  <2>2. (p * v + 0) \div p = v
    BY <1>1, <2>1, RemainderOf
  <2> QED BY <2>1, <2>2
<1> DEFINE vp == v * p
<1>4. Bit(vp \div p, i) = Bit(vp, i + k)
  <2>1. vp \in Int
    BY <1>3
  <2> HIDE DEF vp, p
  <2> QED BY <1>2, <2>1
<1> QED BY <1>2, <1>3, <1>4

(* Above its magnitude a number has the bits of its sign.                    *)
LEMMA HighBits ==
  ASSUME NEW w \in Width, NEW m \in 0..(w - 1), NEW i \in m..(w - 1), NEW n \in Int,
         -(2^m) <= n, n < 2^m
  PROVE  Bit(n, i) = IF n < 0 THEN 1 ELSE 0
<1> DEFINE low == 2^m
           p == 2^i
<1>1. p \in Nat \ {0} /\ low \in Nat \ {0} /\ m \in 0..w /\ i \in m..w
  <2>1. m \in 0..w /\ i \in 0..w /\ i \in m..w
    BY Powers
  <2> QED BY <2>1, Powers
<1>2. low <= p
  <2>1. PICK c \in Nat \ {0} : 2^i = 2^m * c
    BY <1>1, PowersDivide
  <2>2. p = low * c
    BY <2>1
  <2> HIDE DEF low, p
  <2>3. low * c = low + low * (c - 1) /\ low * (c - 1) \in Nat
    <3>1. c - 1 \in Nat
      OBVIOUS
    <3> QED BY <1>1, <3>1
  <2> QED BY <1>1, <2>2, <2>3
<1>3. -low <= n /\ n < low /\ Bit(n, i) = (n \div p) % 2
  BY DEF Bit
<1> HIDE DEF low, p
<1>4. CASE n < 0
  <2>1. n = p * (-1) + (n + p) /\ n + p \in 0..(p - 1) /\ -1 \in Int
    BY <1>1, <1>2, <1>3, <1>4
  <2> DEFINE r == n + p
  <2>2. r \in 0..(p - 1) /\ n = p * (-1) + r
    BY <2>1
  <2> HIDE DEF r
  <2>3. (p * (-1) + r) \div p = -1
    BY <1>1, <2>1, <2>2, RemainderOf
  <2>4. (-1) % 2 = 1
    <3>1. 2 * (-1) + 1 = -1 /\ 2 \in Nat \ {0} /\ 1 \in 0..(2 - 1) /\ -1 \in Int
      OBVIOUS
    <3>2. (2 * (-1) + 1) % 2 = 1
      BY <3>1, RemainderOf
    <3> QED BY <3>1, <3>2
  <2> QED BY <1>3, <1>4, <2>2, <2>3, <2>4
<1>5. CASE n >= 0
  <2>1. n = p * 0 + n /\ n \in 0..(p - 1)
    BY <1>1, <1>2, <1>3, <1>5
  <2>2. (p * 0 + n) \div p = 0
    BY <1>1, <2>1, RemainderOf, 0 \in Int
  <2> QED BY <1>3, <1>5, <2>1, <2>2
<1> QED BY <1>4, <1>5

LEMMA QuotientWithin ==
  ASSUME NEW p \in Nat \ {0}, NEW m \in Nat \ {0}, NEW v \in Int, -(p * m) <= v, v < p * m
  PROVE  v \div p \in Int /\ -m <= v \div p /\ v \div p < m /\ (v \div p < 0 <=> v < 0)
<1> DEFINE q == v \div p
           r == v % p
           pm == p * m
           pq == p * q
<1>1. q \in Int /\ r \in 0..(p - 1) /\ v = p * q + r
  BY Remainder
<1> HIDE DEF q, r
<1>2. pm \in Int /\ pq \in Int /\ v = pq + r /\ -pm <= v /\ v < pm
  BY <1>1
<1>3. q >= m => pq >= pm
  <2>1. p * (q - m) = p * q - p * m
    BY <1>1
  <2>2. q >= m => p * (q - m) \in Nat
    <3>1. q >= m => q - m \in Nat
      BY <1>1
    <3> QED BY <3>1
  <2> QED BY <1>2, <2>1, <2>2
<1>4. q <= -m - 1 => pq <= -pm - p
  <2>1. p * (-m - 1 - q) = -(p * m) - p - p * q
    BY <1>1
  <2>2. q <= -m - 1 => p * (-m - 1 - q) \in Nat
    <3>1. q <= -m - 1 => -m - 1 - q \in Nat
      BY <1>1
    <3> QED BY <3>1
  <2> QED BY <1>2, <2>1, <2>2
<1>5. q >= 0 => pq >= 0
  BY <1>1
<1>6. q < 0 => pq <= -p
  <2>1. p * (-1 - q) = -p - p * q
    BY <1>1
  <2>2. q < 0 => p * (-1 - q) \in Nat
    <3>1. q < 0 => -1 - q \in Nat
      BY <1>1
    <3> QED BY <3>1
  <2> QED BY <1>2, <2>1, <2>2
<1> HIDE DEF pm, pq
<1>7. -m <= q /\ q < m /\ (q < 0 <=> v < 0)
  BY <1>1, <1>2, <1>3, <1>4, <1>5, <1>6
<1> QED BY <1>1, <1>7 DEF q

LEMMA ShiftedBits ==
  ASSUME NEW w \in Width, NEW a \in IntOf(w), NEW k \in 0..(w - 1), NEW i \in 0..(w - 1)
  PROVE  /\ a.bits * 2^k \in Int /\ a.bits \div 2^k \in Int /\ Signed(a) \div 2^k \in Int
         /\ i < k => Bit(a.bits * 2^k, i) = 0
         /\ i >= k => Bit(a.bits * 2^k, i) = Bit(a.bits, i - k)
         /\ i + k < w => /\ Bit(a.bits \div 2^k, i) = Bit(a.bits, i + k)
                         /\ Bit(Signed(a) \div 2^k, i) = Bit(Signed(a), i + k)
         /\ i + k >= w => /\ Bit(a.bits \div 2^k, i) = 0
                          /\ Bit(Signed(a) \div 2^k, i) = Bit(Signed(a), w - 1)
<1> DEFINE p == 2^k
           v == a.bits
           s == Signed(a)
<1>1. /\ w \in Nat \ {0} /\ k \in 0..w /\ k \in Nat /\ i \in Nat /\ p \in Nat \ {0}
      /\ v \in Nat /\ v <= 2^w - 1 /\ s \in Int /\ -(2^(w - 1)) <= s /\ s < 2^(w - 1)
  <2>1. w \in Nat \ {0} /\ k \in 0..w /\ k \in Nat /\ i \in Nat
    BY Powers
  <2>2. 2^w \in Nat \ {0} /\ 2^(w - 1) \in Nat \ {0} /\ IntMin(w) = -(2^(w - 1)) /\ IntMax(w) = 2^(w - 1) - 1
    BY Halves
  <2>3. v \in Nat /\ v \in 0..(2^w - 1) /\ s \in IntMin(w)..IntMax(w) /\ s \in Int
    BY PatternKnown, SignedRange, SignedOffset
  <2>4. p \in Nat \ {0}
    BY <2>1, Powers
  <2> DEFINE m == 2^w
             h == 2^(w - 1)
  <2>5. v <= m - 1 /\ -h <= s /\ s < h
    <3>1. m \in Nat /\ h \in Nat /\ v \in 0..(m - 1) /\ s \in (-h)..(h - 1)
      BY <2>2, <2>3
    <3> HIDE DEF m, h, v, s
    <3> QED BY <3>1
  <2> QED BY <2>1, <2>3, <2>4, <2>5
<1>2. v * p \in Int /\ v \div p \in Int /\ s \div p \in Int
  <2> HIDE DEF p, v, s
  <2> QED BY <1>1, Remainder
<1>3. ASSUME i < k PROVE Bit(v * 2^k, i) = 0
  <2>1. k \in (i + 1)..w
    BY <1>1, <1>3
  <2>2. Bit(0 + 2^k * v, i) = Bit(0, i)
    <3>1. v \in Int
      BY <1>1
    <3> HIDE DEF v, s, p
    <3> QED BY <2>1, <3>1, BitAbove, 0 \in Int
  <2>3. 0 + 2^k * v = v * 2^k
    <3>1. 0 + p * v = v * p
      <4> HIDE DEF p, v
      <4> QED BY <1>1
    <3> QED BY <3>1
  <2> QED BY <2>2, <2>3, ZeroBits
<1>4. ASSUME i >= k PROVE Bit(v * 2^k, i) = Bit(v, i - k)
  <2> DEFINE j == i - k
  <2>1. j \in Nat /\ j + k < w /\ j + k = i
    BY <1>1, <1>4
  <2> HIDE DEF j
  <2>2. Bit(v * 2^k, j + k) = Bit(v, j)
    <3>1. v \in Int
      BY <1>1
    <3> HIDE DEF v, s, p
    <3> QED BY <1>1, <2>1, <3>1, BitShifted
  <2> QED BY <2>1, <2>2 DEF j
<1>5. ASSUME i + k < w
      PROVE  Bit(v \div 2^k, i) = Bit(v, i + k) /\ Bit(s \div 2^k, i) = Bit(s, i + k)
  <2>1. v \in Int /\ s \in Int
    BY <1>1
  <2> HIDE DEF v, s, p
  <2> QED BY <1>1, <1>5, <2>1, BitShifted
<1>6. ASSUME i + k >= w PROVE Bit(v \div 2^k, i) = 0
  <2> DEFINE n == w - k
             m == 2^n
  <2>1. n \in 0..(w - 1) /\ i \in n..(w - 1) /\ n \in 0..w /\ n \in Nat /\ k + n <= w /\ k + n = w
    BY <1>1, <1>6
  <2>2. m \in Nat \ {0} /\ 2^w = p * m
    <3> HIDE DEF n
    <3>1. 2^(k + n) = 2^k * 2^n
      BY <1>1, <2>1, PowersAdd
    <3> QED BY <2>1, <3>1, Powers
  <2> DEFINE q == v \div p
  <2>3. q \in Int /\ -m <= q /\ q < m /\ ~(q < 0)
    <3> HIDE DEF p, m, n, v
    <3> DEFINE pm == p * m
    <3>1. pm \in Nat
      BY <1>1, <2>2
    <3>2. -pm <= v /\ v < pm
      <4>1. v <= pm - 1
        BY <1>1, <2>2
      <4> HIDE DEF pm
      <4> QED BY <1>1, <3>1, <4>1
    <3>3. v \in Int /\ ~(v < 0)
      BY <1>1
    <3>4. v \div p \in Int /\ -m <= v \div p /\ v \div p < m /\ (v \div p < 0 <=> v < 0)
      BY <1>1, <2>2, <3>2, <3>3, QuotientWithin
    <3> QED BY <3>3, <3>4
  <2>4. Bit(q, i) = IF q < 0 THEN 1 ELSE 0
    <3>1. q \in Int /\ -(2^n) <= q /\ q < 2^n
      BY <2>3
    <3> HIDE DEF q, n
    <3> QED BY <2>1, <3>1, HighBits
  <2> QED BY <2>3, <2>4
<1>7. ASSUME i + k >= w PROVE Bit(s \div 2^k, i) = Bit(s, w - 1)
  <2> DEFINE n == w - 1 - k
             m == 2^n
             h == 2^(w - 1)
  <2>1. n \in 0..(w - 1) /\ i \in n..(w - 1) /\ n \in 0..w /\ n \in Nat /\ k + n <= w /\ k + n = w - 1
    BY <1>1, <1>7
  <2>2. m \in Nat \ {0} /\ h = p * m
    <3> HIDE DEF n
    <3>1. 2^(k + n) = 2^k * 2^n
      BY <1>1, <2>1, PowersAdd
    <3> QED BY <2>1, <3>1, Powers
  <2> DEFINE q == s \div p
  <2>3. q \in Int /\ -m <= q /\ q < m /\ (q < 0 <=> s < 0)
    <3>1. -h <= s /\ s < h
      BY <1>1
    <3> HIDE DEF p, m, n, s, h
    <3>2. -(p * m) <= s /\ s < p * m
      BY <2>2, <3>1
    <3> QED BY <1>1, <2>2, <3>2, QuotientWithin
  <2>4. Bit(q, i) = IF q < 0 THEN 1 ELSE 0
    <3>1. q \in Int /\ -(2^n) <= q /\ q < 2^n
      BY <2>3
    <3> HIDE DEF q, n
    <3> QED BY <2>1, <3>1, HighBits
  <2>5. Bit(s, w - 1) = IF s < 0 THEN 1 ELSE 0
    <3>1. w - 1 \in 0..(w - 1) /\ w - 1 \in (w - 1)..(w - 1)
      BY <1>1
    <3> HIDE DEF s
    <3> QED BY <1>1, <3>1, HighBits
  <2> QED BY <2>3, <2>4, <2>5
<1> QED BY <1>2, <1>3, <1>4, <1>5, <1>6, <1>7

(* Masks that a number agrees with, and fewer of them.                       *)
LEMMA FitsFollow ==
  ASSUME NEW w \in Width, NEW n \in Int, NEW z, NEW o, NEW z2, NEW o2,
         \A i \in 0..(w - 1) : (i \in z => Bit(n, i) = 0) /\ (i \in o => Bit(n, i) = 1),
         z2 \intersect Positions(w) \subseteq z, o2 \intersect Positions(w) \subseteq o
  PROVE  Follow(Sem(w, n), Make(w, z, o), Make(w, z2, o2))
<1>1. Sem(w, n) \in IntOf(w) /\ BitsOf(w, Sem(w, n).bits) = BitsOf(w, n)
  BY SemTyped, BitsOfSem
<1>2. \A i \in 0..(w - 1) : i \in BitsOf(w, n) <=> Bit(n, i) = 1
  BY BitTyped
<1>3. BitsOf(w, n) \intersect z = {}
  <2>1. BitsOf(w, n) \subseteq 0..(w - 1)
    BY DEF BitsOf
  <2> QED BY <1>2, <2>1
<1>4. o \intersect Positions(w) \subseteq BitsOf(w, n)
  BY <1>2 DEF Positions
<1> QED BY <1>1, <1>3, <1>4, MasksFollow

Filled(S, sign, new) == IF sign \in S THEN new ELSE {}

LEMMA ShiftedMembers ==
  ASSUME NEW w \in Nat, NEW S \in SUBSET (0..(w - 1)), NEW k \in Nat, NEW i \in 0..(w - 1)
  PROVE  /\ i \in ShiftedBy(S, k) <=> i >= k /\ i - k \in S
         /\ i \in ShiftedBy(S, -k) <=> i + k \in S
<1>1. ASSUME i \in ShiftedBy(S, k) PROVE i >= k /\ i - k \in S
  <2>1. PICK j \in S : i = j + k
    BY <1>1 DEF ShiftedBy
  <2> QED BY <2>1
<1>2. ASSUME i - k \in S PROVE i \in ShiftedBy(S, k)
  <2>1. i = (i - k) + k
    OBVIOUS
  <2> QED BY <1>2, <2>1 DEF ShiftedBy
<1>3. ASSUME i \in ShiftedBy(S, -k) PROVE i + k \in S
  <2>1. PICK j \in S : i = j + (-k)
    BY <1>3 DEF ShiftedBy
  <2> QED BY <2>1
<1>4. ASSUME i + k \in S PROVE i \in ShiftedBy(S, -k)
  <2>1. i = (i + k) + (-k)
    OBVIOUS
  <2> QED BY <1>4, <2>1 DEF ShiftedBy
<1> QED BY <1>1, <1>2, <1>3, <1>4

LEMMA ShiftedWithin ==
  ASSUME NEW S, NEW S2, S2 \subseteq S, NEW k
  PROVE  ShiftedBy(S2, k) \subseteq ShiftedBy(S, k)
BY DEF ShiftedBy

(* By an amount known to both analyses.                                      *)
LEMMA ShiftByFollows ==
  ASSUME NEW op, op.kind \in Shifts, op.kind = "shl" => Wrapping(op),
         op.kind \in {"lshr", "ashr"} => "exact" \notin op.flags,
         NEW x \in Masked, NEW x2 \in Masked, BitsLeq(x, x2), NEW y \in Masked, y.width = x.width,
         NEW a \in BitsGamma(x), NEW b \in BitsGamma(y), FullyKnown(y), b.bits < x.width
  PROVE  Follow(EvalShift(op, a, b), ShiftKnown(op.kind, x, y), ShiftKnown(op.kind, x2, y))
<1> DEFINE w == x.width
           k == b.bits
           vacated == w - k .. w - 1
           sign == w - 1
           r == EvalShift(op, a, b)
<1>1. /\ w \in Width /\ w \in Nat \ {0} /\ a \in IntOf(w) /\ a.width = w /\ a.bits \in Nat
      /\ k \in Nat /\ k \in 0..(w - 1) /\ ValueOf(y) = k /\ ~(k >= w)
      /\ x2.width = w /\ x2.zeros \subseteq x.zeros /\ x2.ones \subseteq x.ones
      /\ x.zeros \subseteq 0..(w - 1) /\ x.ones \subseteq 0..(w - 1)
  <2>1. w \in Width /\ w \in Nat \ {0} /\ a \in IntOf(w) /\ b \in IntOf(w)
    BY OnesOf, Powers
  <2>2. a.width = w /\ a.bits \in Nat /\ k \in Nat
    BY <2>1, PatternKnown
  <2>3. k \in 0..(w - 1) /\ ~(k >= w)
    BY <2>1, <2>2
  <2>4. ValueOf(y) = k
    BY FullyKnownValue
  <2>5. x2.width = w /\ x2.zeros \subseteq x.zeros /\ x2.ones \subseteq x.ones
    BY MaskedLeq
  <2>6. x.zeros \subseteq 0..(w - 1) /\ x.ones \subseteq 0..(w - 1)
    BY MaskedShape DEF Positions
  <2> QED BY <2>1, <2>2, <2>3, <2>4, <2>5, <2>6
<1>2. /\ Fits(a.bits, x, w) /\ Fits(Signed(a), x, w) /\ Signed(a) \in Int
  BY ValuesFit
<1>3. /\ op.kind = "shl" => r = Sem(w, a.bits * 2^k)
      /\ op.kind = "lshr" => r = Sem(w, a.bits \div 2^k)
      /\ op.kind = "ashr" => r = Sem(w, Signed(a) \div 2^k)
  <2> HIDE DEF w
  <2>1. ~(b.bits >= a.width)
    BY <1>1
  <2>2. op.kind = "shl" => r = Sem(w, a.bits * 2^k)
    BY <1>1, <2>1 DEF EvalShift, Wrapping
  <2>3. op.kind = "lshr" => r = Sem(w, a.bits \div 2^k)
    BY <1>1, <2>1 DEF EvalShift
  <2>4. op.kind = "ashr" => r = Sem(w, Signed(a) \div 2^k)
    BY <1>1, <2>1 DEF EvalShift
  <2> QED BY <2>2, <2>3, <2>4
<1>4. /\ op.kind = "shl" =>
           /\ ShiftKnown(op.kind, x, y) = Make(w, ShiftedBy(x.zeros, k) \union Positions(k), ShiftedBy(x.ones, k))
           /\ ShiftKnown(op.kind, x2, y) = Make(w, ShiftedBy(x2.zeros, k) \union Positions(k), ShiftedBy(x2.ones, k))
      /\ op.kind = "lshr" =>
           /\ ShiftKnown(op.kind, x, y) = Make(w, ShiftedBy(x.zeros, -k) \union vacated, ShiftedBy(x.ones, -k))
           /\ ShiftKnown(op.kind, x2, y) = Make(w, ShiftedBy(x2.zeros, -k) \union vacated, ShiftedBy(x2.ones, -k))
      /\ op.kind = "ashr" =>
           /\ ShiftKnown(op.kind, x, y) = Make(w, ShiftedBy(x.zeros, -k) \union Filled(x.zeros, sign, vacated),
                                                  ShiftedBy(x.ones, -k) \union Filled(x.ones, sign, vacated))
           /\ ShiftKnown(op.kind, x2, y) = Make(w, ShiftedBy(x2.zeros, -k) \union Filled(x2.zeros, sign, vacated),
                                                   ShiftedBy(x2.ones, -k) \union Filled(x2.ones, sign, vacated))
  <2> HIDE DEF k
  <2> QED BY <1>1 DEF ShiftKnown, Filled
<1>5. /\ ShiftedBy(x2.zeros, k) \subseteq ShiftedBy(x.zeros, k)
      /\ ShiftedBy(x2.ones, k) \subseteq ShiftedBy(x.ones, k)
      /\ ShiftedBy(x2.zeros, -k) \subseteq ShiftedBy(x.zeros, -k)
      /\ ShiftedBy(x2.ones, -k) \subseteq ShiftedBy(x.ones, -k)
      /\ Filled(x2.zeros, sign, vacated) \subseteq Filled(x.zeros, sign, vacated)
      /\ Filled(x2.ones, sign, vacated) \subseteq Filled(x.ones, sign, vacated)
  <2> HIDE DEF k, sign, vacated
  <2> QED BY <1>1, ShiftedWithin DEF Filled
<1>6. \A i \in 0..(w - 1) :
        /\ i \in ShiftedBy(x.zeros, k) <=> i >= k /\ i - k \in x.zeros
        /\ i \in ShiftedBy(x.ones, k) <=> i >= k /\ i - k \in x.ones
        /\ i \in ShiftedBy(x.zeros, -k) <=> i + k \in x.zeros
        /\ i \in ShiftedBy(x.ones, -k) <=> i + k \in x.ones
        /\ i \in vacated <=> i + k >= w
        /\ i \in Positions(k) <=> i < k
  <2> SUFFICES ASSUME NEW i \in 0..(w - 1)
               PROVE  /\ i \in ShiftedBy(x.zeros, k) <=> i >= k /\ i - k \in x.zeros
                      /\ i \in ShiftedBy(x.ones, k) <=> i >= k /\ i - k \in x.ones
                      /\ i \in ShiftedBy(x.zeros, -k) <=> i + k \in x.zeros
                      /\ i \in ShiftedBy(x.ones, -k) <=> i + k \in x.ones
                      /\ i \in vacated <=> i + k >= w
                      /\ i \in Positions(k) <=> i < k
    OBVIOUS
  <2> HIDE DEF w, k
  <2>1. w \in Nat /\ x.zeros \in SUBSET (0..(w - 1)) /\ x.ones \in SUBSET (0..(w - 1)) /\ k \in Nat
    BY <1>1
  <2>2. i \in vacated <=> i + k >= w
    BY <1>1
  <2>3. i \in Positions(k) <=> i < k
    BY <1>1 DEF Positions
  <2> QED BY <2>1, <2>2, <2>3, ShiftedMembers
<1> HIDE DEF w, k, vacated, sign, r
<1>7. ASSUME NEW i \in 0..(w - 1)
      PROVE  /\ i \in x.zeros => Bit(a.bits, i) = 0 /\ Bit(Signed(a), i) = 0
             /\ i \in x.ones => Bit(a.bits, i) = 1 /\ Bit(Signed(a), i) = 1
  BY <1>2 DEF Fits, Agrees
<1>8. ASSUME NEW i \in 0..(w - 1)
      PROVE  /\ a.bits * 2^k \in Int /\ a.bits \div 2^k \in Int /\ Signed(a) \div 2^k \in Int
             /\ i < k => Bit(a.bits * 2^k, i) = 0
             /\ i >= k => Bit(a.bits * 2^k, i) = Bit(a.bits, i - k)
             /\ i + k < w => /\ Bit(a.bits \div 2^k, i) = Bit(a.bits, i + k)
                             /\ Bit(Signed(a) \div 2^k, i) = Bit(Signed(a), i + k)
             /\ i + k >= w => /\ Bit(a.bits \div 2^k, i) = 0
                              /\ Bit(Signed(a) \div 2^k, i) = Bit(Signed(a), w - 1)
  BY <1>1, ShiftedBits
<1>9. CASE op.kind = "shl"
  <2> DEFINE n == a.bits * 2^k
             z == ShiftedBy(x.zeros, k) \union Positions(k)
             o == ShiftedBy(x.ones, k)
             z2 == ShiftedBy(x2.zeros, k) \union Positions(k)
             o2 == ShiftedBy(x2.ones, k)
  <2>1. ASSUME NEW i \in 0..(w - 1) PROVE (i \in z => Bit(n, i) = 0) /\ (i \in o => Bit(n, i) = 1)
    <3>1. /\ i \in ShiftedBy(x.zeros, k) <=> i >= k /\ i - k \in x.zeros
          /\ i \in ShiftedBy(x.ones, k) <=> i >= k /\ i - k \in x.ones
          /\ i \in Positions(k) <=> i < k
          /\ i < k => Bit(n, i) = 0
          /\ i >= k => Bit(n, i) = Bit(a.bits, i - k)
      BY <1>6, <1>8
    <3>2. i >= k => i - k \in 0..(w - 1)
      BY <1>1
    <3>3. i >= k => (i - k \in x.zeros => Bit(a.bits, i - k) = 0) /\ (i - k \in x.ones => Bit(a.bits, i - k) = 1)
      BY <1>7, <3>2
    <3> HIDE DEF n
    <3> QED BY <3>1, <3>3
  <2>2. z2 \intersect Positions(w) \subseteq z /\ o2 \intersect Positions(w) \subseteq o
    BY <1>5
  <2>3. n \in Int
    <3>1. 0 \in 0..(w - 1)
      BY <1>1
    <3> QED BY <1>8, <3>1
  <2> HIDE DEF n, z, o, z2, o2
  <2>4. Follow(Sem(w, n), Make(w, z, o), Make(w, z2, o2))
    BY <1>1, <2>1, <2>2, <2>3, FitsFollow
  <2> QED BY <1>3, <1>4, <1>9, <2>4 DEF n, z, o, z2, o2, r
<1>10. CASE op.kind = "lshr"
  <2> DEFINE n == a.bits \div 2^k
             z == ShiftedBy(x.zeros, -k) \union vacated
             o == ShiftedBy(x.ones, -k)
             z2 == ShiftedBy(x2.zeros, -k) \union vacated
             o2 == ShiftedBy(x2.ones, -k)
  <2>1. ASSUME NEW i \in 0..(w - 1) PROVE (i \in z => Bit(n, i) = 0) /\ (i \in o => Bit(n, i) = 1)
    <3>1. /\ i \in ShiftedBy(x.zeros, -k) <=> i + k \in x.zeros
          /\ i \in ShiftedBy(x.ones, -k) <=> i + k \in x.ones
          /\ i \in vacated <=> i + k >= w
          /\ i + k < w => Bit(n, i) = Bit(a.bits, i + k)
          /\ i + k >= w => Bit(n, i) = 0
      BY <1>6, <1>8
    <3>2. i + k \in 0..(w - 1) => i + k < w
      BY <1>1
    <3>3. /\ i + k \in x.zeros => i + k < w /\ Bit(a.bits, i + k) = 0
          /\ i + k \in x.ones => i + k < w /\ Bit(a.bits, i + k) = 1
      BY <1>1, <1>7, <3>2
    <3> HIDE DEF n
    <3> QED BY <3>1, <3>3
  <2>2. z2 \intersect Positions(w) \subseteq z /\ o2 \intersect Positions(w) \subseteq o
    BY <1>5
  <2>3. n \in Int
    <3>1. 0 \in 0..(w - 1)
      BY <1>1
    <3> QED BY <1>8, <3>1
  <2> HIDE DEF n, z, o, z2, o2
  <2>4. Follow(Sem(w, n), Make(w, z, o), Make(w, z2, o2))
    BY <1>1, <2>1, <2>2, <2>3, FitsFollow
  <2> QED BY <1>3, <1>4, <1>10, <2>4 DEF n, z, o, z2, o2, r
<1>11. CASE op.kind = "ashr"
  <2> DEFINE n == Signed(a) \div 2^k
             z == ShiftedBy(x.zeros, -k) \union Filled(x.zeros, sign, vacated)
             o == ShiftedBy(x.ones, -k) \union Filled(x.ones, sign, vacated)
             z2 == ShiftedBy(x2.zeros, -k) \union Filled(x2.zeros, sign, vacated)
             o2 == ShiftedBy(x2.ones, -k) \union Filled(x2.ones, sign, vacated)
  <2>1. ASSUME NEW i \in 0..(w - 1) PROVE (i \in z => Bit(n, i) = 0) /\ (i \in o => Bit(n, i) = 1)
    <3>1. /\ i \in ShiftedBy(x.zeros, -k) <=> i + k \in x.zeros
          /\ i \in ShiftedBy(x.ones, -k) <=> i + k \in x.ones
          /\ i \in vacated <=> i + k >= w
          /\ i + k < w => Bit(n, i) = Bit(Signed(a), i + k)
          /\ i + k >= w => Bit(n, i) = Bit(Signed(a), sign)
      BY <1>6, <1>8 DEF sign
    <3>2. (i + k \in 0..(w - 1) => i + k < w) /\ sign \in 0..(w - 1)
      BY <1>1 DEF sign
    <3>3. /\ i + k \in x.zeros => i + k < w /\ Bit(Signed(a), i + k) = 0
          /\ i + k \in x.ones => i + k < w /\ Bit(Signed(a), i + k) = 1
          /\ sign \in x.zeros => Bit(Signed(a), sign) = 0
          /\ sign \in x.ones => Bit(Signed(a), sign) = 1
      BY <1>1, <1>7, <3>2
    <3> HIDE DEF n
    <3> QED BY <3>1, <3>3 DEF Filled
  <2>2. z2 \intersect Positions(w) \subseteq z /\ o2 \intersect Positions(w) \subseteq o
    BY <1>5
  <2>3. n \in Int
    <3>1. 0 \in 0..(w - 1)
      BY <1>1
    <3> QED BY <1>8, <3>1
  <2> HIDE DEF n, z, o, z2, o2
  <2>4. Follow(Sem(w, n), Make(w, z, o), Make(w, z2, o2))
    BY <1>1, <2>1, <2>2, <2>3, FitsFollow
  <2> QED BY <1>3, <1>4, <1>11, <2>4 DEF n, z, o, z2, o2, r
<1> QED BY <1>9, <1>10, <1>11 DEF Shifts

LEMMA TopFollows ==
  ASSUME NEW k \in BitsElem, NEW r \in BitsGamma(k)
  PROVE  Follow(r, k, BitsTop)
BY BitsKinds, BitsOrder DEF Follow

LEMMA ShiftFollows ==
  ASSUME NEW op, op.kind \in Shifts, op.kind = "shl" => Wrapping(op),
         op.kind \in {"lshr", "ashr"} => "exact" \notin op.flags,
         NEW x \in Masked, NEW y \in Masked, NEW x2 \in Masked, NEW y2 \in Masked,
         y.width = x.width, BitsLeq(x, x2), BitsLeq(y, y2),
         NEW a \in BitsGamma(x), NEW b \in BitsGamma(y)
  PROVE  Follow(EvalShift(op, a, b), ShiftKnown(op.kind, x, y), ShiftKnown(op.kind, x2, y2))
<1> DEFINE r == EvalShift(op, a, b)
           k == ShiftKnown(op.kind, x, y)
           Fixed(p, q) == FullyKnown(q) /\ ~(ValueOf(q) >= p.width)
<1>1. \A p, q : ~Fixed(p, q) => ShiftKnown(op.kind, p, q) = BitsTop
  BY DEF ShiftKnown
<1>2. x2.width = x.width /\ x.width \in Nat /\ b.bits \in Nat
  BY MaskedLeq, MaskedShape, Powers, ValuesFit
<1>3. k \in BitsElem /\ r \in BitsGamma(k)
  <2>1. CASE Fixed(x, y)
    <3>1. b.bits < x.width
      BY <1>2, <2>1, FullyKnownValue
    <3>2. BitsLeq(x, x)
      BY BitsOrder, BitsKinds
    <3>3. FullyKnown(y)
      BY <2>1
    <3> HIDE DEF Fixed
    <3>4. Follow(r, k, k)
      BY <3>1, <3>2, <3>3, ShiftByFollows
    <3> QED BY <3>4 DEF Follow
  <2>2. CASE ~Fixed(x, y)
    <3>1. k = BitsTop
      BY <1>1, <2>2
    <3>2. a \in SemValue /\ b \in SemValue /\ a # Poison /\ b # Poison /\ a.width \in Width
      BY MaskedMeaning, OnesOf
    <3>3. r \in SemValue
      BY <3>2, ShiftTyped DEF Results, SemValue, Ints
    <3> QED BY <3>1, <3>3, BitsKinds
  <2> QED BY <2>1, <2>2
<1>4. CASE ~Fixed(x2, y2)
  <2>1. ShiftKnown(op.kind, x2, y2) = BitsTop
    BY <1>1, <1>4
  <2> HIDE DEF k, r
  <2>2. Follow(r, k, BitsTop)
    BY <1>3, TopFollows
  <2> QED BY <2>1, <2>2 DEF k, r
<1>5. CASE Fixed(x2, y2)
  <2>1. y = y2
    BY <1>5, FullyKnownBelow
  <2>2. FullyKnown(y) /\ b.bits < x.width
    BY <1>2, <1>5, <2>1, FullyKnownValue
  <2> HIDE DEF Fixed
  <2> QED BY <2>1, <2>2, ShiftByFollows
<1> QED BY <1>4, <1>5

LEMMA CastFollows ==
  ASSUME NEW op, op.kind \in Casts, op.width \in Width,
         NEW x \in Masked, NEW x2 \in Masked, BitsLeq(x, x2), NEW a \in BitsGamma(x),
         IF op.kind = "trunc" THEN a.width > op.width ELSE a.width < op.width
  PROVE  Follow(EvalCast(op, a), CastKnown(op, x), CastKnown(op, x2))
<1> DEFINE w == x.width
           v == op.width
           new == w .. v - 1
           sign == w - 1
           r == EvalCast(op, a)
<1>1. /\ w \in Width /\ w \in Nat \ {0} /\ v \in Nat \ {0} /\ a \in IntOf(w) /\ a.width = w /\ a.bits \in Nat
      /\ x2.width = w /\ x2.zeros \subseteq x.zeros /\ x2.ones \subseteq x.ones
      /\ x.zeros \subseteq 0..(w - 1) /\ x.ones \subseteq 0..(w - 1)
  <2>1. w \in Width /\ w \in Nat \ {0} /\ v \in Nat \ {0} /\ a \in IntOf(w)
    BY OnesOf, Powers
  <2>2. a.width = w /\ a.bits \in Nat
    BY <2>1, PatternKnown
  <2>3. x2.width = w /\ x2.zeros \subseteq x.zeros /\ x2.ones \subseteq x.ones
    BY MaskedLeq
  <2>4. x.zeros \subseteq 0..(w - 1) /\ x.ones \subseteq 0..(w - 1)
    BY MaskedShape DEF Positions
  <2> QED BY <2>1, <2>2, <2>3, <2>4
<1>2. /\ Fits(a.bits, x, w) /\ Fits(Signed(a), x, w) /\ Signed(a) \in Int
  BY ValuesFit
<1>3. r = Sem(v, IF op.kind = "sext" THEN Signed(a) ELSE a.bits)
  BY DEF EvalCast
<1>4. /\ op.kind = "trunc" =>
           /\ CastKnown(op, x) = Make(v, x.zeros, x.ones)
           /\ CastKnown(op, x2) = Make(v, x2.zeros, x2.ones)
      /\ op.kind = "zext" =>
           /\ CastKnown(op, x) = Make(v, x.zeros \union new, x.ones)
           /\ CastKnown(op, x2) = Make(v, x2.zeros \union new, x2.ones)
      /\ op.kind = "sext" =>
           /\ CastKnown(op, x) = Make(v, x.zeros \union Filled(x.zeros, sign, new),
                                         x.ones \union Filled(x.ones, sign, new))
           /\ CastKnown(op, x2) = Make(v, x2.zeros \union Filled(x2.zeros, sign, new),
                                          x2.ones \union Filled(x2.ones, sign, new))
  BY <1>1 DEF CastKnown, Filled
<1>5. IF op.kind = "trunc" THEN w > v ELSE w < v
  BY <1>1
<1>6. /\ 2^w \in Nat \ {0} /\ 2^(w - 1) \in Nat \ {0} /\ a.bits < 2^w
      /\ -(2^(w - 1)) <= Signed(a) /\ Signed(a) < 2^(w - 1)
  <2> DEFINE m == 2^w
             h == 2^(w - 1)
             s == Signed(a)
             u == a.bits
  <2>1. m \in Nat \ {0} /\ h \in Nat \ {0} /\ IntMin(w) = -h /\ IntMax(w) = h - 1
    BY <1>1, Halves
  <2>2. u \in 0..(m - 1) /\ s \in IntMin(w)..IntMax(w)
    BY <1>1, SignedRange
  <2> HIDE DEF m, h, s, u
  <2>3. u < m /\ -h <= s /\ s < h
    BY <2>1, <2>2
  <2> QED BY <2>1, <2>3 DEF m, h, s, u
<1> HIDE DEF w, v, r
<1>7. ASSUME NEW i \in 0..(w - 1)
      PROVE  /\ i \in x.zeros => Bit(a.bits, i) = 0 /\ Bit(Signed(a), i) = 0
             /\ i \in x.ones => Bit(a.bits, i) = 1 /\ Bit(Signed(a), i) = 1
  BY <1>2 DEF Fits, Agrees
<1>8. x.zeros \subseteq 0..(w - 1) /\ x.ones \subseteq 0..(w - 1) /\ v \in Width /\ a.bits \in Int
  BY <1>1 DEF v
<1>9. CASE op.kind = "trunc"
  <2>1. \A i \in 0..(v - 1) : (i \in x.zeros => Bit(a.bits, i) = 0) /\ (i \in x.ones => Bit(a.bits, i) = 1)
    BY <1>7, <1>8
  <2>2. x2.zeros \intersect Positions(v) \subseteq x.zeros /\ x2.ones \intersect Positions(v) \subseteq x.ones
    BY <1>1
  <2>3. Follow(Sem(v, a.bits), Make(v, x.zeros, x.ones), Make(v, x2.zeros, x2.ones))
    BY <1>8, <2>1, <2>2, FitsFollow
  <2> QED BY <1>3, <1>4, <1>9, <2>3 DEF r
<1>10. CASE op.kind = "zext"
  <2> DEFINE z == x.zeros \union new
             z2 == x2.zeros \union new
  <2>1. ASSUME NEW i \in 0..(v - 1)
        PROVE  (i \in z => Bit(a.bits, i) = 0) /\ (i \in x.ones => Bit(a.bits, i) = 1)
    <3>1. i \in new => Bit(a.bits, i) = 0
      <4>1. ASSUME i \in new PROVE Bit(a.bits, i) = 0
        <5>1. w \in 0..(v - 1) /\ i \in w..(v - 1)
          BY <1>1, <4>1
        <5>2. -(2^w) <= a.bits /\ a.bits < 2^w /\ ~(a.bits < 0)
          <6> DEFINE m == 2^w
                     u == a.bits
          <6>1. m \in Nat /\ u \in Nat /\ u < m
            BY <1>1, <1>6
          <6> HIDE DEF m, u
          <6>2. -m <= u /\ u < m /\ ~(u < 0)
            BY <6>1
          <6> QED BY <6>2 DEF m, u
        <5>3. Bit(a.bits, i) = IF a.bits < 0 THEN 1 ELSE 0
          BY <1>8, <5>1, <5>2, HighBits
        <5> QED BY <5>2, <5>3
      <4> QED BY <4>1
    <3> QED BY <1>7, <1>8, <3>1
  <2>2. z2 \intersect Positions(v) \subseteq z /\ x2.ones \intersect Positions(v) \subseteq x.ones
    BY <1>1
  <2> HIDE DEF z, z2
  <2>3. Follow(Sem(v, a.bits), Make(v, z, x.ones), Make(v, z2, x2.ones))
    BY <1>8, <2>1, <2>2, FitsFollow
  <2> QED BY <1>3, <1>4, <1>10, <2>3 DEF r, z, z2
<1>11. CASE op.kind = "sext"
  <2> DEFINE n == Signed(a)
             z == x.zeros \union Filled(x.zeros, sign, new)
             o == x.ones \union Filled(x.ones, sign, new)
             z2 == x2.zeros \union Filled(x2.zeros, sign, new)
             o2 == x2.ones \union Filled(x2.ones, sign, new)
  <2>1. ASSUME NEW i \in 0..(v - 1) PROVE (i \in z => Bit(n, i) = 0) /\ (i \in o => Bit(n, i) = 1)
    <3>1. i \in new => Bit(n, i) = Bit(n, sign)
      <4>1. ASSUME i \in new PROVE Bit(n, i) = Bit(n, sign)
        <5>1. sign \in 0..(v - 1) /\ i \in sign..(v - 1) /\ sign \in 0..(w - 1) /\ sign \in sign..(w - 1)
          BY <1>1, <1>5, <1>11, <4>1
        <5>2. n \in Int /\ -(2^sign) <= n /\ n < 2^sign
          BY <1>2, <1>6
        <5> HIDE DEF n, sign
        <5>3. Bit(n, i) = IF n < 0 THEN 1 ELSE 0
          BY <1>8, <5>1, <5>2, HighBits
        <5>4. Bit(n, sign) = IF n < 0 THEN 1 ELSE 0
          BY <1>1, <5>1, <5>2, HighBits
        <5> QED BY <5>3, <5>4
      <4> QED BY <4>1
    <3>2. sign \in 0..(w - 1)
      BY <1>1
    <3>3. /\ i \in x.zeros => Bit(n, i) = 0
          /\ i \in x.ones => Bit(n, i) = 1
          /\ sign \in x.zeros => Bit(n, sign) = 0
          /\ sign \in x.ones => Bit(n, sign) = 1
      BY <1>7, <1>8, <3>2
    <3> HIDE DEF n, sign, new
    <3> QED BY <3>1, <3>3 DEF Filled
  <2>2. z2 \intersect Positions(v) \subseteq z /\ o2 \intersect Positions(v) \subseteq o
    BY <1>1 DEF Filled
  <2>3. n \in Int
    BY <1>2
  <2> HIDE DEF n, z, o, z2, o2
  <2>4. Follow(Sem(v, n), Make(v, z, o), Make(v, z2, o2))
    BY <1>8, <2>1, <2>2, <2>3, FitsFollow
  <2> QED BY <1>3, <1>4, <1>11, <2>4 DEF n, z, o, z2, o2, r
<1> QED BY <1>9, <1>10, <1>11 DEF Casts

-----------------------------------------------------------------------------
(* Comparisons, and the transfer *)

Answer(b) == KnownConst(1, IF b THEN 1 ELSE 0)

Conflict(x, y) == x.ones \intersect y.zeros # {} \/ x.zeros \intersect y.ones # {}

LEMMA AnswerHolds ==
  ASSUME 1 \in Width, NEW b \in BOOLEAN
  PROVE  Answer(b) \in Masked /\ Truth(b) \in BitsGamma(Answer(b)) /\ Truth(b) \in SemValue
<1>1. (IF b THEN 1 ELSE 0) \in Int
  OBVIOUS
<1> QED BY <1>1, ConstKnown, SemTyped DEF Answer, Truth

LEMMA ComparisonCases ==
  ASSUME NEW op, NEW x \in BitsElem \ {BitsBottom}, NEW y \in BitsElem \ {BitsBottom}
  PROVE  /\ {x, y} \subseteq Masked /\ x.width = y.width /\ FullyKnown(x) /\ FullyKnown(y) =>
              IcmpKnown(op, x, y) = Answer(Compares(op.kind, x.width, ValueOf(x), ValueOf(y)))
         /\ {x, y} \subseteq Masked /\ x.width = y.width /\ ~(FullyKnown(x) /\ FullyKnown(y))
              /\ Conflict(x, y) /\ op.kind \in {"eq", "ne"} =>
              IcmpKnown(op, x, y) = Answer(op.kind = "ne")
         /\ ~({x, y} \subseteq Masked /\ x.width = y.width
              /\ ((FullyKnown(x) /\ FullyKnown(y)) \/ (Conflict(x, y) /\ op.kind \in {"eq", "ne"}))) =>
              IcmpKnown(op, x, y) = BitsTop
<1>1. {x, y} \subseteq Masked <=> BitsTop \notin {x, y}
  BY BitsKinds
<1>2. CASE BitsTop \in {x, y}
  <2>1. IcmpKnown(op, x, y) = BitsTop
    BY <1>2 DEF IcmpKnown
  <2> QED BY <1>1, <1>2, <2>1
<1>3. CASE BitsTop \notin {x, y} /\ x.width # y.width
  <2>1. IcmpKnown(op, x, y) = BitsTop
    BY <1>3 DEF IcmpKnown
  <2> QED BY <1>1, <1>3, <2>1
<1>4. CASE BitsTop \notin {x, y} /\ x.width = y.width /\ FullyKnown(x) /\ FullyKnown(y)
  <2>1. IcmpKnown(op, x, y) = Answer(Compares(op.kind, x.width, ValueOf(x), ValueOf(y)))
    BY <1>4 DEF IcmpKnown, Answer
  <2> QED BY <1>1, <1>4, <2>1
<1>5. CASE BitsTop \notin {x, y} /\ x.width = y.width /\ ~(FullyKnown(x) /\ FullyKnown(y))
  <2>1. IcmpKnown(op, x, y) = IF Conflict(x, y) /\ op.kind \in {"eq", "ne"} THEN Answer(op.kind = "ne")
                              ELSE BitsTop
    BY <1>5 DEF IcmpKnown, Answer, Conflict
  <2> QED BY <1>1, <1>5, <2>1
<1> QED BY <1>2, <1>3, <1>4, <1>5

(* Two values that a bit tells apart are not equal.                          *)
LEMMA ConflictDecides ==
  ASSUME NEW op, op.kind \in {"eq", "ne"}, NEW x \in Masked, NEW y \in Masked, x.width = y.width, Conflict(x, y),
         NEW a \in BitsGamma(x), NEW b \in BitsGamma(y)
  PROVE  Compares(op.kind, a.width, a.bits, b.bits) = (op.kind = "ne")
<1>1. a.bits # b.bits
  <2>1. Ones(a) # Ones(b)
    BY OnesOf DEF Conflict
  <2>2. Ones(a) = BitsOf(x.width, a.bits) /\ Ones(b) = BitsOf(x.width, b.bits)
    BY OnesOf
  <2> QED BY <2>1, <2>2
<1>2. CASE op.kind = "eq"
  <2>1. Compares(op.kind, a.width, a.bits, b.bits) = (a.bits = b.bits)
    BY <1>2 DEF Compares
  <2> QED BY <1>1, <1>2, <2>1
<1>3. CASE op.kind = "ne"
  <2>1. Compares(op.kind, a.width, a.bits, b.bits) = (a.bits # b.bits)
    BY <1>3 DEF Compares
  <2> QED BY <1>1, <1>3, <2>1
<1> QED BY <1>2, <1>3

LEMMA ComparisonFollows ==
  ASSUME NEW op, op.kind \in Compare, 1 \in Width,
         NEW x \in BitsElem, NEW y \in BitsElem, NEW x2 \in BitsElem, NEW y2 \in BitsElem,
         BitsLeq(x, x2), BitsLeq(y, y2),
         NEW a \in BitsGamma(x), NEW b \in BitsGamma(y), a # Poison, b # Poison
  PROVE  Follow(Truth(Compares(op.kind, a.width, a.bits, b.bits)), IcmpKnown(op, x, y), IcmpKnown(op, x2, y2))
<1> DEFINE holds == Compares(op.kind, a.width, a.bits, b.bits)
           k == IcmpKnown(op, x, y)
           k2 == IcmpKnown(op, x2, y2)
           Decided(p, q) == {p, q} \subseteq Masked /\ p.width = q.width /\ FullyKnown(p) /\ FullyKnown(q)
           Differ(p, q) == {p, q} \subseteq Masked /\ p.width = q.width /\ Conflict(p, q) /\ op.kind \in {"eq", "ne"}
<1>1. /\ x # BitsBottom /\ y # BitsBottom /\ x2 # BitsBottom /\ y2 # BitsBottom
      /\ a \in SemValue /\ b \in SemValue /\ a \in BitsGamma(x2) /\ b \in BitsGamma(y2)
  <2>1. a \in BitsGamma(x2) /\ b \in BitsGamma(y2) /\ a \in SemValue /\ b \in SemValue
    BY BitsContainment
  <2> QED BY <2>1, BitsKinds
<1>2. holds \in BOOLEAN
  BY <1>1, ComparesTyped
<1>3. /\ Answer(holds) \in Masked /\ Truth(holds) \in BitsGamma(Answer(holds)) /\ Truth(holds) \in SemValue
  <2> HIDE DEF holds
  <2> QED BY <1>2, AnswerHolds
<1>4. ASSUME NEW p \in BitsElem, NEW q \in BitsElem, a \in BitsGamma(p), b \in BitsGamma(q),
             p # BitsBottom, q # BitsBottom
      PROVE  IcmpKnown(op, p, q) = IF Decided(p, q) \/ Differ(p, q) THEN Answer(holds) ELSE BitsTop
  <2>1. CASE Decided(p, q)
    <3>1. IcmpKnown(op, p, q) = Answer(Compares(op.kind, p.width, ValueOf(p), ValueOf(q)))
      BY <1>4, <2>1, ComparisonCases
    <3>2. ValueOf(p) = a.bits /\ ValueOf(q) = b.bits /\ a.width = p.width
      BY <1>4, <2>1, FullyKnownValue, OnesOf
    <3> QED BY <2>1, <3>1, <3>2
  <2>2. CASE ~Decided(p, q) /\ Differ(p, q)
    <3>1. IcmpKnown(op, p, q) = Answer(op.kind = "ne")
      BY <1>4, <2>2, ComparisonCases
    <3>2. holds = (op.kind = "ne")
      BY <1>4, <2>2, ConflictDecides
    <3> QED BY <2>2, <3>1, <3>2
  <2>3. CASE ~Decided(p, q) /\ ~Differ(p, q)
    <3>1. IcmpKnown(op, p, q) = BitsTop
      BY <1>4, <2>3, ComparisonCases
    <3> QED BY <2>3, <3>1
  <2> QED BY <2>1, <2>2, <2>3
<1>5. /\ k = IF Decided(x, y) \/ Differ(x, y) THEN Answer(holds) ELSE BitsTop
      /\ k2 = IF Decided(x2, y2) \/ Differ(x2, y2) THEN Answer(holds) ELSE BitsTop
  <2> HIDE DEF Decided, Differ, holds
  <2> QED BY <1>1, <1>4
<1>6. Decided(x2, y2) \/ Differ(x2, y2) => Decided(x, y) \/ Differ(x, y)
  <2>1. ASSUME {x2, y2} \subseteq Masked, x2.width = y2.width PROVE {x, y} \subseteq Masked /\ x.width = y.width
    <3>1. x # BitsTop /\ y # BitsTop
      BY <2>1, BitsKinds DEF BitsLeq
    <3>2. x \in Masked /\ y \in Masked
      BY <1>1, <3>1, BitsKinds
    <3> QED BY <2>1, <3>2, MaskedLeq
  <2>2. ASSUME Decided(x2, y2) PROVE Decided(x, y)
    <3>1. x = x2 /\ y = y2
      BY <2>1, <2>2, FullyKnownBelow
    <3> QED BY <2>2, <3>1
  <2>3. ASSUME Differ(x2, y2) PROVE Differ(x, y)
    <3>1. {x, y} \subseteq Masked /\ x.width = y.width
      BY <2>1, <2>3
    <3>2. /\ x2.zeros \subseteq x.zeros /\ x2.ones \subseteq x.ones
          /\ y2.zeros \subseteq y.zeros /\ y2.ones \subseteq y.ones
      BY <2>3, <3>1, MaskedLeq
    <3>3. Conflict(x, y)
      BY <2>3, <3>2 DEF Conflict
    <3> QED BY <2>3, <3>1, <3>3
  <2> QED BY <2>2, <2>3
<1> HIDE DEF Decided, Differ, k, k2, holds
<1>7. k \in {Answer(holds), BitsTop} /\ (k2 = k \/ k2 = BitsTop)
  BY <1>5, <1>6
<1>8. k \in BitsElem /\ Truth(holds) \in BitsGamma(k)
  BY <1>3, <1>7, BitsKinds
<1>9. BitsLeq(k, k2) /\ k2 \in BitsElem
  BY <1>7, <1>8, BitsOrder, BitsKinds
<1> QED BY <1>8, <1>9 DEF Follow, k, k2, holds

LEMMA BinaryFollows ==
  ASSUME NEW op, op.kind \in Binary \ Compare,
         NEW x \in Masked, NEW y \in Masked, NEW x2 \in Masked, NEW y2 \in Masked,
         y.width = x.width, BitsLeq(x, x2), BitsLeq(y, y2),
         NEW a \in BitsGamma(x), NEW b \in BitsGamma(y), NEW r \in EvalDefined(op, a, b), r \in SemValue
  PROVE  Follow(r, BinKnown(op, x, y), BinKnown(op, x2, y2))
<1> DEFINE exact == "exact" \in op.flags
           handled == \/ op.kind \in Logic
                      \/ op.kind \in {"add", "sub", "mul", "shl"} /\ Wrapping(op)
                      \/ op.kind \in {"lshr", "ashr"} /\ ~exact
<1>1. CASE op.kind \in Logic
  <2>1. \A p, q : BinKnown(op, p, q) = LogicKnown(op.kind, p, q)
    BY <1>1 DEF BinKnown, Logic
  <2>2. r = EvalLogic(op, a, b)
    BY <1>1 DEF EvalDefined, Arith, DivRem, Logic, Shifts, MinMax, Compare, Casts
  <2> QED BY <1>1, <2>1, <2>2, LogicFollows
<1>2. CASE op.kind \in {"add", "sub"} /\ Wrapping(op)
  <2>1. \A p, q : BinKnown(op, p, q) = SumKnown(op.kind, p, q)
    BY <1>2 DEF BinKnown, SumKnown, Wrapping, Logic
  <2>2. r = EvalArith(op, a, b)
    BY <1>2 DEF EvalDefined, Arith, DivRem, Logic, Shifts, MinMax, Compare, Casts
  <2> QED BY <1>2, <2>1, <2>2, SumFollows
<1>3. CASE op.kind = "mul" /\ Wrapping(op)
  <2>1. \A p, q : BinKnown(op, p, q) = MulKnown(p, q)
    BY <1>3 DEF BinKnown, Wrapping, Logic
  <2>2. r = EvalArith(op, a, b)
    BY <1>3 DEF EvalDefined, Arith, DivRem, Logic, Shifts, MinMax, Compare, Casts
  <2> QED BY <1>3, <2>1, <2>2, ProductFollows
<1>4. CASE \/ op.kind = "shl" /\ Wrapping(op)
           \/ op.kind \in {"lshr", "ashr"} /\ ~exact
  <2>1. \A p, q : BinKnown(op, p, q) = ShiftKnown(op.kind, p, q)
    BY <1>4 DEF BinKnown, Wrapping, Logic
  <2>2. r = EvalShift(op, a, b)
    BY <1>4 DEF EvalDefined, Arith, DivRem, Logic, Shifts, MinMax, Compare, Casts
  <2>3. op.kind \in Shifts /\ (op.kind = "shl" => Wrapping(op)) /\ (op.kind \in {"lshr", "ashr"} => ~exact)
    BY <1>4 DEF Shifts
  <2> QED BY <2>1, <2>2, <2>3, ShiftFollows
<1>5. CASE ~handled
  <2>1. \A p, q : BinKnown(op, p, q) = BitsTop
    BY <1>5 DEF BinKnown, Wrapping
  <2> QED BY <2>1, TopFollows, BitsKinds
<1>6. handled => \/ op.kind \in Logic
                 \/ op.kind \in {"add", "sub"} /\ Wrapping(op)
                 \/ op.kind = "mul" /\ Wrapping(op)
                 \/ op.kind = "shl" /\ Wrapping(op)
                 \/ op.kind \in {"lshr", "ashr"} /\ ~exact
  <2> HIDE DEF exact
  <2> QED BY Zenon
<1> HIDE DEF handled, exact
<1> QED BY <1>1, <1>2, <1>3, <1>4, <1>5, <1>6, Zenon

LEMMA BitsTransferCases ==
  ASSUME NEW op, op.kind \in Integral, NEW args, DOMAIN args = 1..ArityOf(op),
         \A i \in DOMAIN args : args[i] \in BitsElem \ {BitsBottom}
  PROVE  /\ op.kind \in Compare => BitsTransfer(op, args) = IcmpKnown(op, args[1], args[2])
         /\ op.kind \in Casts =>
              BitsTransfer(op, args) = IF args[1] = BitsTop THEN BitsTop ELSE CastKnown(op, args[1])
         /\ op.kind \in Binary \ Compare =>
              BitsTransfer(op, args) =
                BinKnown(op, OperandMasks(args[1], op.width), OperandMasks(args[2], op.width))
         /\ op.kind \notin Binary \union Casts => BitsTransfer(op, args) = BitsTop
<1> DEFINE some == {args[i] : i \in DOMAIN args}
<1>1. BitsTransfer(op, args) =
        CASE op.kind \in Opaque -> BitsTop
          [] op.kind \notin Opaque /\ BitsBottom \in some -> BitsBottom
          [] OTHER ->
               CASE op.kind \in Compare -> IcmpKnown(op, args[1], args[2])
                 [] op.kind \in Casts -> IF BitsTop \in some THEN BitsTop ELSE CastKnown(op, args[1])
                 [] op.kind \in Binary \ Compare ->
                      BinKnown(op, OperandMasks(args[1], op.width), OperandMasks(args[2], op.width))
                 [] OTHER -> BitsTop
  BY DEF BitsTransfer
<1>2. BitsBottom \notin some
  OBVIOUS
<1>3. op.kind \in Casts => (BitsTop \in some <=> args[1] = BitsTop)
  <2>1. op.kind \in Casts => DOMAIN args = 1..1
    BY Arities
  <2>2. op.kind \in Casts => some = {args[1]}
    BY <2>1
  <2> HIDE DEF some
  <2> QED BY <2>2
<1> HIDE DEF some
<1>4. op.kind \in Compare => BitsTransfer(op, args) = IcmpKnown(op, args[1], args[2])
  BY <1>1, <1>2 DEF Opaque, Compare, Casts
<1>5. ASSUME op.kind \in Casts
      PROVE  BitsTransfer(op, args) = IF BitsTop \in some THEN BitsTop ELSE CastKnown(op, args[1])
  <2>1. op.kind \notin Opaque /\ op.kind \notin Compare
    BY <1>5 DEF Opaque, Compare, Casts
  <2>2. op.kind \notin Binary \ Compare
    BY <1>5 DEF Binary, Arith, DivRem, Logic, Shifts, MinMax, Casts
  <2> QED BY <1>1, <1>2, <1>5, <2>1, <2>2
<1>6. ASSUME op.kind \in Binary \ Compare
      PROVE  BitsTransfer(op, args) =
               BinKnown(op, OperandMasks(args[1], op.width), OperandMasks(args[2], op.width))
  <2>1. op.kind \notin Opaque /\ op.kind \notin Casts /\ op.kind \notin Compare
    BY <1>6 DEF Binary, Opaque, Arith, DivRem, Logic, Shifts, MinMax, Casts
  <2> QED BY <1>1, <1>2, <1>6, <2>1
<1>7. ASSUME op.kind \notin Binary \union Casts PROVE BitsTransfer(op, args) = BitsTop
  <2>1. op.kind \notin Compare
    BY <1>7 DEF Binary
  <2> QED BY <1>1, <1>2, <1>7, <2>1
<1> QED BY <1>3, <1>4, <1>5, <1>6, <1>7

(* The transfer is sound and monotone on operands that are not poison.       *)
LEMMA BitsTransferFollows ==
  ASSUME NEW op \in Opcode, NEW args, NEW args2, NEW vals,
         DOMAIN args = 1..ArityOf(op), DOMAIN args2 = DOMAIN args, DOMAIN vals = DOMAIN args,
         \A i \in DOMAIN args : /\ args[i] \in BitsElem /\ args2[i] \in BitsElem /\ BitsLeq(args[i], args2[i])
                                /\ vals[i] \in BitsGamma(args[i]) \ {Poison},
         NEW r \in EvalInst(op, vals)
  PROVE  Follow(r, BitsTransfer(op, args), BitsTransfer(op, args2))
<1>0. op.kind \in Integral /\ op.width \in Width
  BY OpcodeAssumption
<1>1. \A i \in DOMAIN args : /\ args[i] \in BitsElem \ {BitsBottom} /\ args2[i] \in BitsElem \ {BitsBottom}
                             /\ vals[i] \in SemValue /\ vals[i] \in BitsGamma(args2[i]) /\ vals[i] # Poison
  <2> SUFFICES ASSUME NEW i \in DOMAIN args
               PROVE  /\ args[i] \in BitsElem \ {BitsBottom} /\ args2[i] \in BitsElem \ {BitsBottom}
                      /\ vals[i] \in SemValue /\ vals[i] \in BitsGamma(args2[i]) /\ vals[i] # Poison
    OBVIOUS
  <2>1. BitsGamma(args[i]) \subseteq BitsGamma(args2[i]) /\ BitsGamma(args[i]) \subseteq SemValue
    BY BitsContainment
  <2> QED BY <2>1, BitsKinds
<1>2. r \in SemValue
  BY <1>1, ResultsAreValues
<1>3. CASE op.kind \notin Binary \union Casts
  <2>1. BitsTransfer(op, args) = BitsTop /\ BitsTransfer(op, args2) = BitsTop
    BY <1>0, <1>1, <1>3, BitsTransferCases
  <2> QED BY <1>2, <2>1, TopFollows, BitsKinds
<1> DEFINE a == vals[1]
           b == vals[ArityOf(op)]
<1>4. ASSUME op.kind \in Binary \union Casts PROVE r \in EvalDefined(op, a, b) /\ Fitting(op, a, b)
  <2>1. EvalInst(op, vals) # {}
    OBVIOUS
  <2> QED BY <1>1, <1>4, <2>1, DefinedResult
<1>5. CASE op.kind \in Casts
  <2>1. 1 \in DOMAIN args
    BY <1>0, <1>5, Arities
  <2>2. /\ BitsTransfer(op, args) = IF args[1] = BitsTop THEN BitsTop ELSE CastKnown(op, args[1])
        /\ BitsTransfer(op, args2) = IF args2[1] = BitsTop THEN BitsTop ELSE CastKnown(op, args2[1])
    BY <1>0, <1>1, <1>5, BitsTransferCases
  <2>3. r = EvalCast(op, a) /\ (IF op.kind = "trunc" THEN a.width > op.width ELSE a.width < op.width)
    <3>1. r \in EvalDefined(op, a, b) /\ Fitting(op, a, b)
      BY <1>4, <1>5
    <3> HIDE DEF a, b
    <3> QED BY <1>5, <3>1 DEF EvalDefined, Fitting, Arith, DivRem, Logic, Shifts, MinMax, Compare, Casts
  <2>4. CASE args[1] = BitsTop
    <3>1. args2[1] = BitsTop
      <4>1. BitsLeq(args[1], args2[1]) /\ args[1] # BitsBottom
        BY <1>1, <2>1
      <4> QED BY <2>4, <4>1 DEF BitsLeq
    <3> QED BY <1>2, <2>2, <2>4, <3>1, TopFollows, BitsKinds
  <2>5. CASE args[1] # BitsTop
    <3>1. args[1] \in Masked /\ a \in BitsGamma(args[1])
      BY <1>1, <2>1, <2>5, BitsKinds
    <3>2. CASE args2[1] = BitsTop
      <4>1. BitsLeq(args[1], args[1])
        BY <3>1, BitsOrder, BitsKinds
      <4>2. Follow(r, CastKnown(op, args[1]), CastKnown(op, args[1]))
        BY <1>0, <1>5, <2>3, <3>1, <4>1, CastFollows
      <4>3. Follow(r, CastKnown(op, args[1]), BitsTop)
        BY <4>2, TopFollows DEF Follow
      <4> QED BY <2>2, <2>5, <3>2, <4>3
    <3>3. CASE args2[1] # BitsTop
      <4>1. args2[1] \in Masked /\ BitsLeq(args[1], args2[1])
        BY <1>1, <2>1, <3>3, BitsKinds
      <4>2. Follow(r, CastKnown(op, args[1]), CastKnown(op, args2[1]))
        BY <1>0, <1>5, <2>3, <3>1, <4>1, CastFollows
      <4> QED BY <2>2, <2>5, <3>3, <4>2
    <3> QED BY <3>2, <3>3
  <2> QED BY <2>4, <2>5
<1>6. ASSUME op.kind \in Binary
      PROVE  /\ ArityOf(op) = 2 /\ 1 \in DOMAIN args /\ 2 \in DOMAIN args
             /\ r \in EvalDefined(op, a, vals[2]) /\ Fitting(op, a, vals[2])
  <2>1. ArityOf(op) = 2
    BY <1>0, <1>6, Arities
  <2> QED BY <1>4, <1>6, <2>1
<1>7. CASE op.kind \in Compare
  <2> DEFINE c == vals[2]
  <2>1. op.kind \in Binary
    BY <1>7 DEF Binary
  <2>2. /\ BitsTransfer(op, args) = IcmpKnown(op, args[1], args[2])
        /\ BitsTransfer(op, args2) = IcmpKnown(op, args2[1], args2[2])
    BY <1>0, <1>1, <1>7, BitsTransferCases
  <2>3. r = Truth(Compares(op.kind, a.width, a.bits, c.bits)) /\ 1 \in Width
    <3>1. r \in EvalDefined(op, a, c) /\ Fitting(op, a, c)
      BY <1>6, <2>1
    <3>2. op.width = 1
      <4> HIDE DEF a, c
      <4>1. op.kind \notin Casts
        BY <1>7 DEF Compare, Casts
      <4> QED BY <1>7, <3>1, <4>1 DEF Fitting
    <3>3. r = Truth(Compares(op.kind, a.width, a.bits, c.bits))
      <4> HIDE DEF a, c
      <4> QED BY <1>7, <3>1 DEF EvalDefined, Arith, DivRem, Logic, Shifts, MinMax, Compare, Casts
    <3> QED BY <1>0, <3>2, <3>3
  <2>4. 1 \in DOMAIN args /\ 2 \in DOMAIN args
    BY <1>6, <2>1
  <2>5. /\ args[1] \in BitsElem /\ args2[1] \in BitsElem /\ BitsLeq(args[1], args2[1])
        /\ args[2] \in BitsElem /\ args2[2] \in BitsElem /\ BitsLeq(args[2], args2[2])
        /\ a \in BitsGamma(args[1]) /\ c \in BitsGamma(args[2]) /\ a # Poison /\ c # Poison
    BY <2>4
  <2> HIDE DEF a, c
  <2> QED BY <1>7, <2>2, <2>3, <2>5, ComparisonFollows
<1>8. CASE op.kind \in Binary \ Compare
  <2> DEFINE c == vals[2]
             w == op.width
             x == OperandMasks(args[1], w)
             y == OperandMasks(args[2], w)
             x2 == OperandMasks(args2[1], w)
             y2 == OperandMasks(args2[2], w)
  <2>1. /\ BitsTransfer(op, args) = BinKnown(op, x, y)
        /\ BitsTransfer(op, args2) = BinKnown(op, x2, y2)
    BY <1>0, <1>1, <1>8, BitsTransferCases
  <2>2. r \in EvalDefined(op, a, c) /\ Fitting(op, a, c) /\ 1 \in DOMAIN args /\ 2 \in DOMAIN args
    BY <1>6, <1>8
  <2>3. a.width = w /\ c.width = w
    <3>1. op.kind \notin Casts
      BY <1>8 DEF Binary, Arith, DivRem, Logic, Shifts, MinMax, Casts
    <3> QED BY <1>8, <2>2, <3>1 DEF Fitting
  <2>4. /\ args[1] \in BitsElem \ {BitsBottom} /\ args2[1] \in BitsElem \ {BitsBottom} /\ BitsLeq(args[1], args2[1])
        /\ args[2] \in BitsElem \ {BitsBottom} /\ args2[2] \in BitsElem \ {BitsBottom} /\ BitsLeq(args[2], args2[2])
        /\ a \in BitsGamma(args[1]) /\ c \in BitsGamma(args[2]) /\ a # Poison /\ c # Poison
    BY <1>1, <2>2
  <2> HIDE DEF a, c
  <2>5. /\ x \in Masked /\ y \in Masked /\ x2 \in Masked /\ y2 \in Masked
        /\ x.width = w /\ y.width = w
        /\ a \in BitsGamma(x) /\ c \in BitsGamma(y)
    BY <1>0, <2>3, <2>4, OperandMasked
  <2>6. BitsLeq(x, x2) /\ BitsLeq(y, y2)
    BY <1>0, <2>4, OperandMasksMonotone
  <2> HIDE DEF x, y, x2, y2
  <2> QED BY <1>2, <1>8, <2>1, <2>2, <2>5, <2>6, BinaryFollows
<1> QED BY <1>3, <1>5, <1>7, <1>8

-----------------------------------------------------------------------------
(* What the walk needs of a domain *)

Domains == {"const", "range", "bits"}

Elem(d) == CASE d = "const" -> ConstElem [] d = "range" -> RangeElem [] d = "bits" -> BitsElem

LEMMA DomainOperators ==
  /\ Top("const") = ConstTop /\ Top("range") = RangeTop /\ Top("bits") = BitsTop
  /\ \A x, y : /\ Join("const", x, y) = ConstJoin(x, y)
               /\ Join("range", x, y) = RangeJoin(x, y)
               /\ Join("bits", x, y) = BitsJoin(x, y)
               /\ Widen("const", x, y) = ConstJoin(x, y)
               /\ Widen("range", x, y) = RangeWiden(x, y)
               /\ Widen("bits", x, y) = BitsJoin(x, y)
               /\ Leq("const", x, y) <=> ConstLeq(x, y)
               /\ Leq("range", x, y) <=> RangeLeq(x, y)
               /\ Leq("bits", x, y) <=> BitsLeq(x, y)
  /\ \A x : /\ Gamma("const", x) = ConstGamma(x)
            /\ Gamma("range", x) = RangeGamma(x)
            /\ Gamma("bits", x) = BitsGamma(x)
  /\ \A l : /\ Abstract("const", l) = l
            /\ Abstract("range", l) = RangeAbstract(l)
            /\ Abstract("bits", l) = BitsAbstract(l)
  /\ \A op, s : /\ Transfer("const", op, s) = ConstTransfer(op, s)
                /\ Transfer("range", op, s) = RangeTransfer(op, s)
                /\ Transfer("bits", op, s) = BitsTransfer(op, s)
  /\ \A x, g : /\ Feasible("const", x, g) <=> ConstFeasible(x, g)
               /\ Feasible("range", x, g) <=> RangeFeasible(x, g)
               /\ Feasible("bits", x, g)
  /\ Elem("const") = ConstElem /\ Elem("range") = RangeElem /\ Elem("bits") = BitsElem
<1>1. Top("const") = ConstTop /\ Top("range") = RangeTop /\ Top("bits") = BitsTop
  BY DEF Top
<1>2. \A x, y : /\ Join("const", x, y) = ConstJoin(x, y)
                /\ Join("range", x, y) = RangeJoin(x, y)
                /\ Join("bits", x, y) = BitsJoin(x, y)
  BY DEF Join
<1>3. \A x, y : /\ Widen("const", x, y) = ConstJoin(x, y)
                /\ Widen("range", x, y) = RangeWiden(x, y)
                /\ Widen("bits", x, y) = BitsJoin(x, y)
  BY DEF Widen, ConstWiden, BitsWiden
<1>4. \A x, y : /\ Leq("const", x, y) <=> ConstLeq(x, y)
                /\ Leq("range", x, y) <=> RangeLeq(x, y)
                /\ Leq("bits", x, y) <=> BitsLeq(x, y)
  BY DEF Leq
<1>5. \A x : /\ Gamma("const", x) = ConstGamma(x)
             /\ Gamma("range", x) = RangeGamma(x)
             /\ Gamma("bits", x) = BitsGamma(x)
  BY DEF Gamma
<1>6. \A l : /\ Abstract("const", l) = l
             /\ Abstract("range", l) = RangeAbstract(l)
             /\ Abstract("bits", l) = BitsAbstract(l)
  BY DEF Abstract, ConstAbstract
<1>7. \A op, s : /\ Transfer("const", op, s) = ConstTransfer(op, s)
                 /\ Transfer("range", op, s) = RangeTransfer(op, s)
                 /\ Transfer("bits", op, s) = BitsTransfer(op, s)
  BY DEF Transfer
<1>8. \A x, g : /\ Feasible("const", x, g) <=> ConstFeasible(x, g)
                /\ Feasible("range", x, g) <=> RangeFeasible(x, g)
                /\ Feasible("bits", x, g)
  BY DEF Feasible, BitsFeasible
<1>9. Elem("const") = ConstElem /\ Elem("range") = RangeElem /\ Elem("bits") = BitsElem
  BY DEF Elem
<1> QED BY <1>1, <1>2, <1>3, <1>4, <1>5, <1>6, <1>7, <1>8, <1>9

(* A lattice whose order is containment of gamma; join is its least upper     *)
(* bound and widening an upper bound.                                        *)
LEMMA DomainLattice ==
  ASSUME NEW d \in Domains
  PROVE  /\ Top(d) \in Elem(d)
         /\ \A x \in Elem(d) : Leq(d, x, x) /\ Leq(d, x, Top(d)) /\ Gamma(d, x) \subseteq SemValue
         /\ \A x, y, z \in Elem(d) : Leq(d, x, y) /\ Leq(d, y, z) => Leq(d, x, z)
         /\ \A x, y \in Elem(d) : Leq(d, x, y) => Gamma(d, x) \subseteq Gamma(d, y)
         /\ \A x, y \in Elem(d) :
              /\ Join(d, x, y) \in Elem(d) /\ Widen(d, x, y) \in Elem(d)
              /\ Leq(d, x, Join(d, x, y)) /\ Leq(d, y, Join(d, x, y))
              /\ Leq(d, x, Widen(d, x, y)) /\ Leq(d, y, Widen(d, x, y))
         /\ \A x, y, z \in Elem(d) : Leq(d, x, z) /\ Leq(d, y, z) => Leq(d, Join(d, x, y), z)
         /\ \A l \in Consts : Abstract(d, l) \in Elem(d) /\ ToSem(l) \in Gamma(d, Abstract(d, l))
<1>1. Top(d) \in Elem(d)
  <2>1. CASE d = "const"
    BY <2>1, DomainOperators DEF ConstElem
  <2>2. CASE d = "range"
    BY <2>2, DomainOperators, RangeKinds
  <2>3. CASE d = "bits"
    BY <2>3, DomainOperators, BitsKinds
  <2> QED BY <2>1, <2>2, <2>3 DEF Domains
<1>2. \A x \in Elem(d) : Leq(d, x, x) /\ Leq(d, x, Top(d)) /\ Gamma(d, x) \subseteq SemValue
  <2>1. CASE d = "const"
    BY <2>1, DomainOperators, ConstOrder
  <2>2. CASE d = "range"
    BY <2>2, DomainOperators, RangeOrder, RangeContainment
  <2>3. CASE d = "bits"
    BY <2>3, DomainOperators, BitsOrder, BitsContainment
  <2> QED BY <2>1, <2>2, <2>3 DEF Domains
<1>3. \A x, y, z \in Elem(d) : Leq(d, x, y) /\ Leq(d, y, z) => Leq(d, x, z)
  <2>1. CASE d = "const"
    BY <2>1, DomainOperators, ConstOrder
  <2>2. CASE d = "range"
    BY <2>2, DomainOperators, RangeOrder
  <2>3. CASE d = "bits"
    BY <2>3, DomainOperators, BitsOrder
  <2> QED BY <2>1, <2>2, <2>3 DEF Domains
<1>4. \A x, y \in Elem(d) : Leq(d, x, y) => Gamma(d, x) \subseteq Gamma(d, y)
  <2>1. CASE d = "const"
    BY <2>1, DomainOperators, ConstOrder
  <2>2. CASE d = "range"
    BY <2>2, DomainOperators, RangeContainment
  <2>3. CASE d = "bits"
    BY <2>3, DomainOperators, BitsContainment
  <2> QED BY <2>1, <2>2, <2>3 DEF Domains
<1>5. ASSUME NEW x \in Elem(d), NEW y \in Elem(d)
      PROVE  /\ Join(d, x, y) \in Elem(d) /\ Widen(d, x, y) \in Elem(d)
             /\ Leq(d, x, Join(d, x, y)) /\ Leq(d, y, Join(d, x, y))
             /\ Leq(d, x, Widen(d, x, y)) /\ Leq(d, y, Widen(d, x, y))
  <2>1. CASE d = "const"
    BY <2>1, DomainOperators, ConstBounds
  <2>2. CASE d = "range"
    BY <2>2, DomainOperators, RangeBounds
  <2>3. CASE d = "bits"
    BY <2>3, DomainOperators, BitsBounds
  <2> QED BY <2>1, <2>2, <2>3 DEF Domains
<1>6. ASSUME NEW x \in Elem(d), NEW y \in Elem(d), NEW z \in Elem(d), Leq(d, x, z), Leq(d, y, z)
      PROVE  Leq(d, Join(d, x, y), z)
  <2>1. CASE d = "const"
    BY <2>1, <1>6, DomainOperators, ConstBounds
  <2>2. CASE d = "range"
    BY <2>2, <1>6, DomainOperators, RangeJoinLeast
  <2>3. CASE d = "bits"
    BY <2>3, <1>6, DomainOperators, BitsJoinLeast
  <2> QED BY <2>1, <2>2, <2>3 DEF Domains
<1>7. \A l \in Consts : Abstract(d, l) \in Elem(d) /\ ToSem(l) \in Gamma(d, Abstract(d, l))
  <2>1. CASE d = "const"
    BY <2>1, DomainOperators, ConstKinds DEF ConstElem
  <2>2. CASE d = "range"
    BY <2>2, DomainOperators, RangeAbstractSound
  <2>3. CASE d = "bits"
    BY <2>3, DomainOperators, BitsAbstractSound
  <2> QED BY <2>1, <2>2, <2>3 DEF Domains
<1> QED BY <1>1, <1>2, <1>3, <1>4, <1>5, <1>6, <1>7

(* Transfer is sound and monotone.                                           *)
LEMMA DomainTransfer ==
  ASSUME NEW d \in Domains, NEW op \in Opcode, NEW args, NEW args2, NEW vals,
         DOMAIN args = 1..ArityOf(op), DOMAIN args2 = DOMAIN args, DOMAIN vals = DOMAIN args,
         vals = [i \in DOMAIN vals |-> vals[i]],
         \A i \in DOMAIN args : /\ args[i] \in Elem(d) /\ args2[i] \in Elem(d) /\ Leq(d, args[i], args2[i])
                                /\ vals[i] \in Gamma(d, args[i])
                                /\ d # "const" => vals[i] # Poison,
         NEW r \in EvalInst(op, vals)
  PROVE  /\ Transfer(d, op, args) \in Elem(d) /\ Transfer(d, op, args2) \in Elem(d)
         /\ Leq(d, Transfer(d, op, args), Transfer(d, op, args2))
         /\ r \in Gamma(d, Transfer(d, op, args))
<1>1. CASE d = "const"
  <2>1. \A i \in DOMAIN args : /\ args[i] \in ConstElem /\ args2[i] \in ConstElem
                               /\ ConstLeq(args[i], args2[i]) /\ vals[i] \in ConstGamma(args[i])
    BY <1>1, DomainOperators
  <2>2. ConstTransfer(op, args) \in ConstElem /\ r \in ConstGamma(ConstTransfer(op, args))
    BY <2>1, ConstTransferSound
  <2>3. \A i \in DOMAIN args : args[i] # ConstBottom
    BY <2>1, ConstKinds
  <2>4. /\ ConstTransfer(op, args2) \in ConstElem
        /\ ConstLeq(ConstTransfer(op, args), ConstTransfer(op, args2))
    BY <2>1, <2>2, <2>3, ConstTransferMonotone
  <2> QED BY <1>1, <2>2, <2>4, DomainOperators
<1>2. CASE d = "range"
  <2>1. \A i \in DOMAIN args : /\ args[i] \in RangeElem /\ args2[i] \in RangeElem
                               /\ RangeLeq(args[i], args2[i]) /\ vals[i] \in RangeGamma(args[i]) \ {Poison}
    BY <1>2, DomainOperators
  <2>2. RangeTransfer(op, args) \in RangeElem /\ r \in RangeGamma(RangeTransfer(op, args))
    BY <2>1, RangeTransferSound
  <2>3. \A i \in DOMAIN args : args[i] # RangeBottom
    BY <2>1, RangeKinds
  <2>4. op.kind \in Compare => op.width = 1
    <3>1. WellTyped(op, vals)
      BY DEF EvalInst
    <3> QED BY <3>1 DEF WellTyped, Opaque, Compare
  <2>5. /\ RangeTransfer(op, args2) \in RangeElem
        /\ RangeLeq(RangeTransfer(op, args), RangeTransfer(op, args2))
    BY <2>1, <2>3, <2>4, RangeTransferMonotone
  <2> QED BY <1>2, <2>2, <2>5, DomainOperators
<1>3. CASE d = "bits"
  <2>1. \A i \in DOMAIN args : /\ args[i] \in BitsElem /\ args2[i] \in BitsElem
                               /\ BitsLeq(args[i], args2[i]) /\ vals[i] \in BitsGamma(args[i]) \ {Poison}
    BY <1>3, DomainOperators
  <2>2. Follow(r, BitsTransfer(op, args), BitsTransfer(op, args2))
    BY <2>1, BitsTransferFollows
  <2> QED BY <1>3, <2>2, DomainOperators DEF Follow
<1> QED BY <1>1, <1>2, <1>3 DEF Domains

(* The taken edge is feasible.                                               *)
LEMMA DomainFeasible ==
  ASSUME NEW d \in Domains, NEW x \in Elem(d), NEW v \in Gamma(d, x), NEW g, CondHolds(v, g)
  PROVE  Feasible(d, x, g)
<1>1. CASE d = "const"
  BY <1>1, DomainOperators, ConstFeasibleSound
<1>2. CASE d = "range"
  BY <1>2, DomainOperators, RangeFeasibleSound
<1>3. CASE d = "bits"
  BY <1>3, DomainOperators
<1> QED BY <1>1, <1>2, <1>3 DEF Domains

(* Each operand is the value, or the literal beside it.                      *)
LEMMA OperandsAre ==
  ASSUME NEW op \in Opcode, NEW v, NEW u, NEW place \in DOMAIN OperandLists(op, v, u)
  PROVE  /\ \A x, y : /\ DOMAIN OperandLists(op, x, y)[place] = 1..ArityOf(op)
                      /\ OperandLists(op, x, y)[place] =
                           [i \in DOMAIN OperandLists(op, x, y)[place] |-> OperandLists(op, x, y)[place][i]]
         /\ \A i \in 1..ArityOf(op) : \/ \A x, y : OperandLists(op, x, y)[place][i] = x
                                      \/ \A x, y : OperandLists(op, x, y)[place][i] = y
<1>1. ArityOf(op) \in {1, 2, 3}
  BY OpcodeAssumption, Arities DEF Integral
<1>2. CASE ArityOf(op) = 1
  <2>1. \A x, y : OperandLists(op, x, y) = <<<<x>>>>
    BY <1>2 DEF OperandLists
  <2>2. \A x, y : OperandLists(op, x, y)[place] = <<x>>
    BY <2>1
  <2> QED BY <1>2, <2>2
<1>3. CASE ArityOf(op) = 2
  <2>1. \A x, y : OperandLists(op, x, y) = <<<<x, y>>, <<y, x>>, <<x, x>>>>
    BY <1>3 DEF OperandLists
  <2>2. place \in {1, 2, 3}
    BY <2>1
  <2>3. CASE place = 1
    <3>1. \A x, y : OperandLists(op, x, y)[place] = <<x, y>>
      BY <2>1, <2>3
    <3> QED BY <1>3, <3>1
  <2>4. CASE place = 2
    <3>1. \A x, y : OperandLists(op, x, y)[place] = <<y, x>>
      BY <2>1, <2>4
    <3> QED BY <1>3, <3>1
  <2>5. CASE place = 3
    <3>1. \A x, y : OperandLists(op, x, y)[place] = <<x, x>>
      BY <2>1, <2>5
    <3> QED BY <1>3, <3>1
  <2> QED BY <2>2, <2>3, <2>4, <2>5
<1>4. CASE ArityOf(op) = 3
  <2>1. \A x, y : OperandLists(op, x, y) = <<<<x, y, y>>>>
    BY <1>4 DEF OperandLists
  <2>2. \A x, y : OperandLists(op, x, y)[place] = <<x, y, y>>
    BY <2>1
  <2> QED BY <1>4, <2>2
<1> QED BY <1>1, <1>2, <1>3, <1>4

-----------------------------------------------------------------------------
(* The walk *)

(* The value is one that the first analysis allows for, and the second one   *)
(* claims no more than the first.                                            *)
Follows ==
  /\ domain \in Domain /\ domain \in Domains
  /\ value \in SemValue
  /\ fine \in Elem(domain) /\ coarse \in Elem(domain)
  /\ Leq(domain, fine, coarse)
  /\ value \in Gamma(domain, fine)

LEMMA LiteralsKnown ==
  ASSUME domain \in Domains, NEW l \in Literal
  PROVE  /\ l \in Consts /\ ToSem(l) \in SemValue
         /\ Abstract(domain, l) \in Elem(domain) /\ ToSem(l) \in Gamma(domain, Abstract(domain, l))
         /\ \A known \in Known(l) : known \in Elem(domain) /\ Leq(domain, Abstract(domain, l), known)
<1>1. l \in Consts
  BY LiteralAssumption
<1>2. ToSem(l) \in SemValue
  BY <1>1, ConstsTyped
<1>3. Abstract(domain, l) \in Elem(domain) /\ ToSem(l) \in Gamma(domain, Abstract(domain, l))
  BY <1>1, DomainLattice
<1>4. \A known \in Known(l) : known \in Elem(domain) /\ Leq(domain, Abstract(domain, l), known)
  BY <1>3, DomainLattice DEF Known
<1> QED BY <1>1, <1>2, <1>3, <1>4

LEMMA FollowsInit ==
  ASSUME Init
  PROVE  Follows
<1>1. domain \in Domain /\ domain \in Domains
  BY DomainAssumption DEF Init, Domains
<1>2. PICK l \in Literal : value = ToSem(l) /\ fine = Abstract(domain, l) /\ coarse \in Known(l)
  BY DEF Init
<1> QED BY <1>1, <1>2, LiteralsKnown DEF Follows

LEMMA FollowsMerge ==
  ASSUME Follows, NEW l \in Literal, Merge(l) \/ MergeAtHeader(l)
  PROVE  Follows'
<1> DEFINE a == Abstract(domain, l)
           fine2 == Join(domain, fine, a)
<1>1. /\ domain' = domain /\ domain \in Domain /\ domain \in Domains
      /\ value' \in {value, ToSem(l)} /\ fine' = fine2
  BY DEF Follows, Merge, MergeAtHeader
<1>2. /\ fine \in Elem(domain) /\ coarse \in Elem(domain) /\ Leq(domain, fine, coarse)
      /\ value \in SemValue /\ value \in Gamma(domain, fine)
  BY DEF Follows
<1>3. a \in Elem(domain) /\ ToSem(l) \in Gamma(domain, a) /\ ToSem(l) \in SemValue
  BY <1>1, LiteralsKnown
<1>4. fine2 \in Elem(domain) /\ Leq(domain, fine, fine2) /\ Leq(domain, a, fine2)
  <2> HIDE DEF a
  <2> QED BY <1>1, <1>2, <1>3, DomainLattice
<1>5. value' \in SemValue /\ value' \in Gamma(domain, fine2)
  <2>1. Gamma(domain, fine) \subseteq Gamma(domain, fine2) /\ Gamma(domain, a) \subseteq Gamma(domain, fine2)
    <3> HIDE DEF a, fine2
    <3> QED BY <1>1, <1>2, <1>3, <1>4, DomainLattice
  <2> HIDE DEF a, fine2
  <2> QED BY <1>1, <1>2, <1>3, <2>1
<1>6. coarse' \in Elem(domain) /\ Leq(domain, fine, coarse') /\ Leq(domain, a, coarse')
  <2>1. CASE Merge(l)
    <3>1. PICK known \in Known(l) : coarse' = Join(domain, coarse, known)
      BY <2>1 DEF Merge
    <3>2. known \in Elem(domain) /\ Leq(domain, a, known)
      BY <1>1, LiteralsKnown
    <3> HIDE DEF a
    <3>3. /\ coarse' \in Elem(domain)
          /\ Leq(domain, coarse, coarse') /\ Leq(domain, known, coarse')
      BY <1>1, <1>2, <3>1, <3>2, DomainLattice
    <3> QED BY <1>1, <1>2, <1>3, <3>2, <3>3, DomainLattice
  <2>2. CASE MergeAtHeader(l)
    <3> DEFINE j == Join(domain, coarse, a)
    <3>1. coarse' = Widen(domain, coarse, j)
      BY <2>2 DEF MergeAtHeader
    <3> HIDE DEF a
    <3>2. j \in Elem(domain) /\ Leq(domain, a, j)
      BY <1>1, <1>2, <1>3, DomainLattice
    <3> HIDE DEF j
    <3>3. coarse' \in Elem(domain) /\ Leq(domain, coarse, coarse') /\ Leq(domain, j, coarse')
      BY <1>1, <1>2, <3>1, <3>2, DomainLattice
    <3> QED BY <1>1, <1>2, <1>3, <3>2, <3>3, DomainLattice
  <2> QED BY <2>1, <2>2
<1>7. Leq(domain, fine2, coarse')
  <2> HIDE DEF a
  <2> QED BY <1>1, <1>2, <1>3, <1>6, DomainLattice
<1> QED BY <1>1, <1>4, <1>5, <1>6, <1>7 DEF Follows

LEMMA FollowsCompute ==
  ASSUME PoisonOperands => Domain \subseteq {"const"}, Follows, NEW op \in Opcode, NEW l \in Literal, Compute(op, l)
  PROVE  Follows'
<1> DEFINE a == Abstract(domain, l)
           u == ToSem(l)
<1>1. /\ domain' = domain /\ domain \in Domain /\ domain \in Domains
      /\ domain # "const" => Poison \notin {value, u}
  BY DEF Follows, Compute
<1>2. PICK known \in Known(l), place \in DOMAIN OperandLists(op, value, u) :
        /\ value' \in EvalInst(op, OperandLists(op, value, u)[place])
        /\ fine' = Transfer(domain, op, OperandLists(op, fine, a)[place])
        /\ coarse' = Transfer(domain, op, OperandLists(op, coarse, known)[place])
  BY DEF Compute
<1>3. /\ fine \in Elem(domain) /\ coarse \in Elem(domain) /\ Leq(domain, fine, coarse)
      /\ value \in SemValue /\ value \in Gamma(domain, fine)
  BY DEF Follows
<1>4. /\ a \in Elem(domain) /\ u \in Gamma(domain, a) /\ u \in SemValue
      /\ known \in Elem(domain) /\ Leq(domain, a, known)
  BY <1>1, LiteralsKnown
<1> DEFINE vals == OperandLists(op, value, u)[place]
           args == OperandLists(op, fine, a)[place]
           args2 == OperandLists(op, coarse, known)[place]
<1>5. /\ DOMAIN args = 1..ArityOf(op) /\ DOMAIN args2 = DOMAIN args /\ DOMAIN vals = DOMAIN args
      /\ vals = [i \in DOMAIN vals |-> vals[i]]
  <2>1. \A x, y : /\ DOMAIN OperandLists(op, x, y)[place] = 1..ArityOf(op)
                  /\ OperandLists(op, x, y)[place] =
                       [i \in DOMAIN OperandLists(op, x, y)[place] |-> OperandLists(op, x, y)[place][i]]
    <3> HIDE DEF u
    <3> QED BY OperandsAre
  <2>2. DOMAIN vals = 1..ArityOf(op) /\ vals = [i \in DOMAIN vals |-> vals[i]]
    BY <2>1, Zenon
  <2>3. DOMAIN args = 1..ArityOf(op) /\ DOMAIN args2 = 1..ArityOf(op)
    BY <2>1, Zenon
  <2> HIDE DEF vals, args, args2
  <2> QED BY <2>2, <2>3
<1>6. ASSUME NEW i \in DOMAIN args
      PROVE  \/ vals[i] = value /\ args[i] = fine /\ args2[i] = coarse
             \/ vals[i] = u /\ args[i] = a /\ args2[i] = known
  <2>1. i \in 1..ArityOf(op)
    BY <1>5
  <2> HIDE DEF a, u
  <2> QED BY <2>1, OperandsAre
<1> HIDE DEF a, u, vals, args, args2
<1>7. \A i \in DOMAIN args :
        /\ args[i] \in Elem(domain) /\ args2[i] \in Elem(domain) /\ Leq(domain, args[i], args2[i])
        /\ vals[i] \in Gamma(domain, args[i]) /\ vals[i] \in SemValue
        /\ domain # "const" => vals[i] # Poison
  BY <1>1, <1>3, <1>4, <1>6
<1>8. /\ value' \in EvalInst(op, vals)
      /\ fine' = Transfer(domain, op, args) /\ coarse' = Transfer(domain, op, args2)
  BY <1>2 DEF vals, args, args2, a, u
<1>9. value' \in SemValue
  BY <1>5, <1>7, <1>8, ResultsAreValues
<1>10. /\ fine' \in Elem(domain) /\ coarse' \in Elem(domain) /\ Leq(domain, fine', coarse')
       /\ value' \in Gamma(domain, fine')
  BY <1>1, <1>5, <1>7, <1>8, DomainTransfer
<1> QED BY <1>1, <1>9, <1>10 DEF Follows

LEMMA FollowsAlways ==
  ASSUME PoisonOperands => Domain \subseteq {"const"}
  PROVE  Spec => []Follows
<1>1. Init => Follows
  BY FollowsInit
<1>2. Follows /\ [Next]_vars => Follows'
  <2> SUFFICES ASSUME Follows, [Next]_vars PROVE Follows'
    OBVIOUS
  <2>1. CASE \E l \in Literal, op \in Opcode : Compute(op, l)
    BY <2>1, FollowsCompute
  <2>2. CASE \E l \in Literal : Merge(l) \/ MergeAtHeader(l)
    BY <2>2, FollowsMerge
  <2>3. CASE UNCHANGED vars
    BY <2>3 DEF vars, Follows
  <2> QED BY <2>1, <2>2, <2>3 DEF Next
<1> QED BY <1>1, <1>2, PTL DEF Spec

(* The value lies in the meaning of what both analyses claim of it, after     *)
(* any instructions and merges, on integers of any widths: every transfer of  *)
(* the constant domain is sound, and every one of the intervals and the known *)
(* bits whose operands are not poison (constants.rs, ranges.rs and            *)
(* known_bits.rs, fn transfer).                                               *)
THEOREM DomainsSound ==
  ASSUME PoisonOperands => Domain \subseteq {"const"}
  PROVE  Spec => []Sound
<1>1. Follows => Sound
  BY DomainLattice DEF Follows, Sound
<1> QED BY <1>1, FollowsAlways, PTL

(* The analysis that knows less of the operands claims no more of the result: *)
(* transfer, join and widen of the three domains are monotone, and their order is  *)
(* contained in that of the meanings (the walk's second analysis).            *)
THEOREM DomainsMonotone ==
  ASSUME PoisonOperands => Domain \subseteq {"const"}
  PROVE  Spec => []Monotone
<1>1. Follows => Monotone
  BY DomainLattice DEF Follows, Monotone
<1> QED BY <1>1, FollowsAlways, PTL

(* An edge that the concrete condition takes is never pruned (edge_feasible), *)
(* whatever the condition was computed from.                                  *)
THEOREM TakenEdgeKept ==
  ASSUME PoisonOperands => Domain \subseteq {"const"}
  PROVE  Spec => []TakenEdgeFeasible
<1>1. Follows => TakenEdgeFeasible
  BY DomainFeasible DEF Follows, TakenEdgeFeasible
<1> QED BY <1>1, FollowsAlways, PTL

(* A literal is below an interval or a pair of masks exactly when that already *)
(* stands for its value, and exactly then merging it changes nothing          *)
(* (ranges.rs and known_bits.rs, le and join): the order misses no element,   *)
(* at any width.                                                              *)
THEOREM OrderExact ==
  ASSUME PoisonOperands => Domain \subseteq {"const"}
  PROVE  Spec => []OrderIsContainment
<1>1. Follows => OrderIsContainment
  <2> SUFFICES ASSUME Follows, domain # "const", NEW l \in Literal
               PROVE  LET a == Abstract(domain, l)
                          covered == Gamma(domain, a) \subseteq Gamma(domain, fine)
                      IN  /\ Leq(domain, a, fine) <=> covered
                          /\ (Join(domain, fine, a) = fine) <=> covered
    BY DEF OrderIsContainment
  <2> DEFINE a == Abstract(domain, l)
  <2>1. domain \in {"range", "bits"} /\ fine \in Elem(domain) /\ a \in Elem(domain)
    BY LiteralsKnown DEF Follows, Domains
  <2> HIDE DEF a
  <2>2. CASE domain = "range"
    <3>1. fine \in RangeElem /\ a \in RangeElem
      BY <2>1, <2>2, DomainOperators
    <3>2. /\ RangeLeq(a, fine) <=> RangeGamma(a) \subseteq RangeGamma(fine)
          /\ (RangeJoin(fine, a) = fine) <=> RangeLeq(a, fine)
      BY <3>1, RangeContainment, RangeAbsorbs
    <3>3. /\ Leq(domain, a, fine) <=> RangeLeq(a, fine)
          /\ Gamma(domain, a) = RangeGamma(a) /\ Gamma(domain, fine) = RangeGamma(fine)
          /\ Join(domain, fine, a) = RangeJoin(fine, a)
      BY <2>2, DomainOperators
    <3> QED BY <3>2, <3>3 DEF a
  <2>3. CASE domain = "bits"
    <3>1. fine \in BitsElem /\ a \in BitsElem
      BY <2>1, <2>3, DomainOperators
    <3>2. /\ BitsLeq(a, fine) <=> BitsGamma(a) \subseteq BitsGamma(fine)
          /\ (BitsJoin(fine, a) = fine) <=> BitsLeq(a, fine)
      BY <3>1, BitsContainment, BitsAbsorbs
    <3>3. /\ Leq(domain, a, fine) <=> BitsLeq(a, fine)
          /\ Gamma(domain, a) = BitsGamma(a) /\ Gamma(domain, fine) = BitsGamma(fine)
          /\ Join(domain, fine, a) = BitsJoin(fine, a)
      BY <2>3, DomainOperators
    <3> QED BY <3>2, <3>3 DEF a
  <2> QED BY <2>1, <2>2, <2>3
<1> QED BY <1>1, FollowsAlways, PTL

(* An element above another prunes no edge the other keeps (edge_feasible).    *)
LEMMA FeasibleRises ==
  ASSUME NEW d \in Domains, NEW x \in Elem(d), NEW y \in Elem(d), Leq(d, x, y),
         NEW g, Feasible(d, x, g)
  PROVE  Feasible(d, y, g)
<1>1. CASE d = "const"
  <2>1. x \in ConstElem /\ y \in ConstElem /\ ConstLeq(x, y) /\ ConstFeasible(x, g)
    BY <1>1, DomainOperators
  <2>2. x # ConstBottom
    BY <2>1, ConstKinds, Zenon DEF ConstFeasible
  <2>3. x = y \/ y = ConstTop
    BY <2>1, <2>2 DEF ConstLeq
  <2>4. ConstFeasible(ConstTop, g)
    BY ConstKinds, Zenon DEF ConstFeasible
  <2> QED BY <1>1, <2>1, <2>3, <2>4, DomainOperators
<1>2. CASE d = "range"
  <2>1. x \in RangeElem /\ y \in RangeElem /\ RangeLeq(x, y) /\ RangeFeasible(x, g)
    BY <1>2, DomainOperators
  <2>2. RangeFeasible(y, g)
    <3>1. CASE g[1] # "is"
      BY <3>1 DEF RangeFeasible
    <3>2. CASE g[1] = "is" /\ y = RangeTop
      BY <3>2, RangeKinds DEF RangeFeasible
    <3>3. CASE g[1] = "is" /\ x \in Bounded /\ y \in Bounded
      <4>1. x.width = y.width /\ y.lo <= x.lo /\ x.hi <= y.hi
        BY <2>1, <3>3, BoundedLeq
      <4>2. x.lo \in Int /\ x.hi \in Int /\ y.lo \in Int /\ y.hi \in Int
        BY <3>3, BoundedShape
      <4>3. x.width = 1 => IF g[2] THEN x.lo <= -1 /\ -1 <= x.hi ELSE x.lo <= 0 /\ 0 <= x.hi
        BY <2>1, <3>3, RangeKinds, Zenon DEF RangeFeasible
      <4>4. y.width = 1 => IF g[2] THEN y.lo <= -1 /\ -1 <= y.hi ELSE y.lo <= 0 /\ 0 <= y.hi
        BY <4>1, <4>2, <4>3
      <4> QED BY <3>3, <4>4, RangeKinds, Zenon DEF RangeFeasible
    <3>4. g[1] = "is" => x # RangeBottom
      BY <2>1, RangeKinds, Zenon DEF RangeFeasible
    <3> QED BY <2>1, <3>1, <3>2, <3>3, <3>4, RangeKinds DEF RangeLeq
  <2> QED BY <1>2, <2>2, DomainOperators
<1>3. CASE d = "bits"
  BY <1>3, DomainOperators
<1> QED BY <1>1, <1>2, <1>3 DEF Domains

(* In all three domains a join is the least upper bound, and knowing less of   *)
(* a condition prunes no more edges; in the two that leave widen at its        *)
(* default, widening is as precise.  This is what the engine needs to return   *)
(* the least solution (SolverProofs, ReturnsLeast).                            *)
THEOREM DomainsPrecise ==
  ASSUME NEW d \in Domains
  PROVE  /\ \A x, y, z \in Elem(d) : Leq(d, x, z) /\ Leq(d, y, z) => Leq(d, Join(d, x, y), z)
         /\ \A x, y \in Elem(d) : \A g : Leq(d, x, y) /\ Feasible(d, x, g) => Feasible(d, y, g)
         /\ d \in {"const", "bits"} =>
              \A x, y, z \in Elem(d) : Leq(d, x, z) /\ Leq(d, y, z) => Leq(d, Widen(d, x, y), z)
<1>1. \A x, y, z \in Elem(d) : Leq(d, x, z) /\ Leq(d, y, z) => Leq(d, Join(d, x, y), z)
  BY DomainLattice
<1>2. d \in {"const", "bits"} => \A x, y : Widen(d, x, y) = Join(d, x, y)
  BY DomainOperators
<1> QED BY <1>1, <1>2, FeasibleRises
===============================================================================
