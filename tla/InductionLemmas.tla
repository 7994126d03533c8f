---------------------------- MODULE InductionLemmas ----------------------------
(* Induction over natural numbers and what follows from it, for the proofs   *)
(* that need it.                                                            *)
EXTENDS Integers, SequencesExt, FiniteSetTheorems, WellFoundedInduction, TLAPS

LEMMA LeastNat ==
  ASSUME NEW T, T \subseteq Nat, T # {}
  PROVE  \E m \in T : \A n \in T : m <= n
<1>1. \E x \in T : \A y \in T : ~ (<<y, x>> \in OpToRel(<, Nat))
  BY NatLessThanWellFounded, WFMin, Zenon
<1>2. PICK x \in T : \A y \in T : ~ (<<y, x>> \in OpToRel(<, Nat))
  BY <1>1
<1>3. ASSUME NEW y \in T PROVE x <= y
  <2>1. x \in Nat /\ y \in Nat
    OBVIOUS
  <2>2. CASE y < x
    <3>1. <<y, x>> \in OpToRel(<, Nat)
      BY <2>1, <2>2 DEF OpToRel
    <3> QED BY <3>1, <1>2
  <2> QED BY <2>1, <2>2
<1> QED BY <1>3

(* Induction, for a set given as a set.                                     *)
LEMMA NatsIn ==
  ASSUME NEW T, 0 \in T, \A n \in Nat : n \in T => n + 1 \in T
  PROVE  Nat \subseteq T
<1> SUFFICES ASSUME Nat \ T # {} PROVE FALSE
  OBVIOUS
<1>1. PICK m \in Nat \ T : \A n \in Nat \ T : m <= n
  BY LeastNat
<1>2. m # 0 /\ m - 1 \in Nat /\ m - 1 \notin Nat \ T
  BY <1>1
<1> QED BY <1>1, <1>2

LEMMA GreatestNat ==
  ASSUME NEW n \in Nat, NEW T, T \subseteq 0..n, T # {}
  PROVE  \E m \in T : \A x \in T : x <= m
<1> DEFINE U == {n - x : x \in T}
<1>1. U \subseteq Nat /\ U # {}
  <2>1. \A x \in T : n - x \in Nat
    OBVIOUS
  <2> QED BY <2>1
<1>2. PICK d \in U : \A e \in U : d <= e
  <2> HIDE DEF U
  <2> QED BY <1>1, LeastNat
<1>3. PICK m \in T : d = n - m
  OBVIOUS
<1>4. ASSUME NEW x \in T PROVE x <= m
  <2>1. d <= n - x
    BY <1>2
  <2>2. x \in 0..n /\ m \in 0..n
    OBVIOUS
  <2> QED BY <1>3, <2>1, <2>2
<1> QED BY <1>4

(* The definition of flattening is a recursive one; this is what it says.   *)
LEMMA FlattenUnfolds ==
  ASSUME NEW S, NEW seqs \in Seq(Seq(S)), Len(seqs) # 0
  PROVE  \E g : /\ FlattenSeq(seqs) = g[Len(seqs)]
                /\ g[1] = seqs[1]
                /\ \A i \in 2..Len(seqs) : g[i] = g[i - 1] \o seqs[i]
<1> DEFINE step(g, i) == IF i = 1 THEN seqs[i] ELSE g[i-1] \o seqs[i]
           Rec(g, m) == g = [i \in 1..m |-> step(g, i)]
           n == Len(seqs)
           T == {m \in Nat : \E g : Rec(g, m)}
<1>0. ASSUME NEW g, NEW m, Rec(g, m), NEW i \in 1..m PROVE g[i] = step(g, i)
  <2> HIDE DEF step
  <2>1. [j \in 1..m |-> step(g, j)][i] = step(g, i)
    OBVIOUS
  <2> QED BY <1>0, <2>1, Zenon
<1>1. 0 \in T
  <2>1. Rec(<<>>, 0)
    OBVIOUS
  <2> HIDE DEF Rec
  <2> QED BY <2>1
<1>2. ASSUME NEW m \in Nat, m \in T PROVE m + 1 \in T
  <2>1. PICK g : Rec(g, m)
    BY <1>2
  <2> DEFINE h == [i \in 1..(m+1) |-> IF i <= m THEN g[i] ELSE step(g, i)]
  <2>2. ASSUME NEW i \in 1..(m+1) PROVE h[i] = step(h, i)
    <3>1. i # 1 => h[i-1] = g[i-1]
      OBVIOUS
    <3>2. step(h, i) = step(g, i)
      BY <3>1
    <3>3. ASSUME i <= m PROVE g[i] = step(g, i)
      <4> HIDE DEF step, Rec
      <4>1. i \in 1..m
        BY <3>3
      <4> QED BY <2>1, <1>0, <4>1
    <3> QED BY <3>2, <3>3
  <2>3. Rec(h, m + 1)
    BY <2>2
  <2> HIDE DEF Rec, h
  <2> QED BY <2>3
<1>3. Nat \subseteq T
  <2> HIDE DEF T
  <2> QED BY <1>1, <1>2, NatsIn
<1> DEFINE flatten == CHOOSE g : Rec(g, n)
<1>4. Rec(flatten, n)
  <2> HIDE DEF Rec
  <2>1. n \in T
    BY <1>3
  <2> QED BY <2>1
<1>5. FlattenSeq(seqs) = flatten[n]
  BY DEF FlattenSeq
<1> HIDE DEF flatten
<1>6. ASSUME NEW i \in 1..n PROVE flatten[i] = step(flatten, i)
  BY <1>4, <1>0
<1>7. flatten[1] = seqs[1]
  BY <1>6
<1>8. ASSUME NEW i \in 2..n PROVE flatten[i] = flatten[i - 1] \o seqs[i]
  <2>1. flatten[i] = step(flatten, i) /\ i # 1
    <3> HIDE DEF step
    <3> QED BY <1>6
  <2> QED BY <2>1, Zenon
<1> QED BY <1>5, <1>7, <1>8

(* What is flattened out of sequences over S is a sequence over S.          *)
LEMMA FlattenTyped ==
  ASSUME NEW S, NEW seqs \in Seq(Seq(S))
  PROVE  FlattenSeq(seqs) \in Seq(S)
<1> DEFINE n == Len(seqs)
<1>1. CASE n = 0
  BY <1>1 DEF FlattenSeq
<1>2. CASE n # 0
  <2>1. PICK g : /\ FlattenSeq(seqs) = g[n] /\ g[1] = seqs[1]
                 /\ \A i \in 2..n : g[i] = g[i - 1] \o seqs[i]
    BY <1>2, FlattenUnfolds
  <2> DEFINE U == {m \in Nat : m + 1 \in 1..n => g[m + 1] \in Seq(S)}
  <2>2. 0 \in U
    BY <2>1
  <2>3. ASSUME NEW m \in Nat, m \in U PROVE m + 1 \in U
    <3> SUFFICES ASSUME m + 2 \in 1..n PROVE g[m + 2] \in Seq(S)
      OBVIOUS
    <3>1. g[m + 1] \in Seq(S) /\ seqs[m + 2] \in Seq(S)
      BY <2>3
    <3>2. m + 2 \in 2..n /\ (m + 2) - 1 = m + 1
      OBVIOUS
    <3>3. g[m + 2] = g[m + 1] \o seqs[m + 2]
      BY <2>1, <3>2
    <3> QED BY <3>1, <3>3
  <2>4. Nat \subseteq U
    <3> HIDE DEF U
    <3> QED BY <2>2, <2>3, NatsIn
  <2>5. n - 1 \in U
    <3>1. n - 1 \in Nat
      BY <1>2
    <3> HIDE DEF U
    <3> QED BY <3>1, <2>4
  <2> QED BY <1>2, <2>1, <2>5
<1> QED BY <1>1, <1>2

(* One more sequence is put behind what the others give.                    *)
LEMMA FlattenNext ==
  ASSUME NEW S, NEW n \in Nat, NEW f \in [1..(n + 1) -> Seq(S)]
  PROVE  FlattenSeq(f) = FlattenSeq([k \in 1..n |-> f[k]]) \o f[n + 1]
<1> DEFINE e == [k \in 1..n |-> f[k]]
<1>1. /\ f \in Seq(Seq(S)) /\ Len(f) = n + 1
      /\ e \in Seq(Seq(S)) /\ Len(e) = n
      /\ \A k \in 1..n : e[k] = f[k]
  OBVIOUS
<1>2. PICK g : /\ FlattenSeq(f) = g[n + 1] /\ g[1] = f[1]
               /\ \A i \in 2..(n + 1) : g[i] = g[i - 1] \o f[i]
  <2>1. Len(f) # 0
    BY <1>1
  <2>2. \E g : /\ FlattenSeq(f) = g[Len(f)] /\ g[1] = f[1]
               /\ \A i \in 2..Len(f) : g[i] = g[i - 1] \o f[i]
    BY <1>1, <2>1, FlattenUnfolds, ZenonT(30)
  <2> QED BY <1>1, <2>2, Zenon
<1> HIDE DEF e
<1>3. CASE n = 0
  <2>1. FlattenSeq(e) = <<>>
    BY <1>1, <1>3 DEF FlattenSeq
  <2> QED BY <1>2, <1>3, <2>1 DEF e
<1>4. CASE n # 0
  <2>1. PICK h : /\ FlattenSeq(e) = h[n] /\ h[1] = e[1]
                 /\ \A i \in 2..n : h[i] = h[i - 1] \o e[i]
    <3>1. \E h : /\ FlattenSeq(e) = h[Len(e)] /\ h[1] = e[1]
                 /\ \A i \in 2..Len(e) : h[i] = h[i - 1] \o e[i]
      BY <1>1, <1>4, FlattenUnfolds, ZenonT(30)
    <3> QED BY <1>1, <3>1, Zenon
  <2> DEFINE U == {m \in Nat : m + 1 \in 1..n => h[m + 1] = g[m + 1]}
  <2>2. 0 \in U
    BY <1>1, <1>2, <2>1
  <2>3. ASSUME NEW m \in Nat, m \in U PROVE m + 1 \in U
    <3> SUFFICES ASSUME m + 2 \in 1..n PROVE h[m + 2] = g[m + 2]
      OBVIOUS
    <3>1. m + 2 \in 2..n /\ m + 2 \in 2..(n + 1) /\ (m + 2) - 1 = m + 1 /\ m + 1 \in 1..n
      OBVIOUS
    <3>2. h[m + 1] = g[m + 1] /\ e[m + 2] = f[m + 2]
      BY <2>3, <3>1, <1>1
    <3> QED BY <1>2, <2>1, <3>1, <3>2
  <2>4. Nat \subseteq U
    <3> HIDE DEF U
    <3> QED BY <2>2, <2>3, NatsIn
  <2>5. h[n] = g[n]
    <3>1. n - 1 \in Nat /\ (n - 1) + 1 = n
      BY <1>4
    <3>2. n - 1 \in U
      <4> HIDE DEF U
      <4> QED BY <3>1, <2>4
    <3> QED BY <1>4, <3>1, <3>2
  <2>6. g[n + 1] = g[n] \o f[n + 1]
    <3>1. n + 1 \in 2..(n + 1) /\ (n + 1) - 1 = n
      BY <1>4
    <3>2. g[n + 1] = g[(n + 1) - 1] \o f[n + 1]
      BY <1>2, <3>1, Zenon
    <3> QED BY <3>1, <3>2
  <2> QED BY <1>2, <2>1, <2>5, <2>6 DEF e
<1> QED BY <1>3, <1>4

(* Where the pieces are: OffsetIn(f, j) items come before piece j + 1.       *)
OffsetIn(f, j) == Len(FlattenSeq([k \in 1..j |-> f[k]]))

(* What is flattened is its pieces, one behind the other, and nothing else.  *)
Piecewise(S, f, n) ==
  /\ FlattenSeq(f) \in Seq(S) /\ Len(FlattenSeq(f)) = OffsetIn(f, n)
  /\ \A j \in 0..n : OffsetIn(f, j) \in Nat
  /\ \A i, j \in 0..n : i <= j => OffsetIn(f, i) <= OffsetIn(f, j)
  /\ \A k \in 1..n : /\ OffsetIn(f, k) = OffsetIn(f, k - 1) + Len(f[k])
                     /\ \A x \in 1..Len(f[k]) : FlattenSeq(f)[OffsetIn(f, k - 1) + x] = f[k][x]
  /\ \A p \in DOMAIN FlattenSeq(f) : \E k \in 1..n : \E x \in 1..Len(f[k]) : p = OffsetIn(f, k - 1) + x

LEMMA FlattenPieces ==
  ASSUME NEW S, NEW n \in Nat, NEW f \in [1..n -> Seq(S)]
  PROVE  Piecewise(S, f, n)
<1> DEFINE F(m) == FlattenSeq([k \in 1..m |-> f[k]])
           Off(m) == Len(F(m))
           P(m) == /\ F(m) \in Seq(S) /\ Off(m) \in Nat
                   /\ \A i, j \in 0..m : i <= j => Off(i) <= Off(j)
                   /\ \A k \in 1..m : /\ Off(k) = Off(k - 1) + Len(f[k])
                                      /\ \A x \in 1..Len(f[k]) : F(m)[Off(k - 1) + x] = f[k][x]
                   /\ \A p \in 1..Off(m) : \E k \in 1..m : \E x \in 1..Len(f[k]) : p = Off(k - 1) + x
           T == {m \in Nat : m <= n => \A i \in 0..m : P(i)}
<1>1. ASSUME NEW m \in Nat, m <= n PROVE F(m) \in Seq(S) /\ Off(m) \in Nat
  <2> DEFINE front == [k \in 1..m |-> f[k]]
  <2>1. front \in Seq(Seq(S))
    BY <1>1
  <2> HIDE DEF front
  <2>2. FlattenSeq(front) \in Seq(S)
    BY <2>1, FlattenTyped
  <2> QED BY <2>2 DEF front
<1>2. ASSUME NEW m \in Nat, m + 1 <= n
      PROVE  F(m + 1) = F(m) \o f[m + 1]
  <2> DEFINE g == [k \in 1..(m + 1) |-> f[k]]
             front == [k \in 1..m |-> g[k]]
  <2>1. g \in [1..(m + 1) -> Seq(S)] /\ g[m + 1] = f[m + 1]
    BY <1>2
  <2>2. front = [k \in 1..m |-> f[k]]
    OBVIOUS
  <2> HIDE DEF g
  <2>3. FlattenSeq(g) = FlattenSeq(front) \o g[m + 1]
    BY <2>1, FlattenNext
  <2> QED BY <2>1, <2>2, <2>3 DEF g
<1>3. F(0) = <<>>
  BY DEF FlattenSeq
<1> HIDE DEF F
<1>4. 0 \in T
  <2>1. P(0)
    BY <1>1, <1>3
  <2> HIDE DEF P
  <2> QED BY <2>1
<1>5. ASSUME NEW m \in Nat, m \in T PROVE m + 1 \in T
  <2> SUFFICES ASSUME m + 1 <= n PROVE P(m + 1)
    <3>1. \A i \in 0..(m + 1) : i \in 0..m \/ i = m + 1
      OBVIOUS
    <3> HIDE DEF P
    <3>2. m <= n => \A i \in 0..m : P(i)
      BY <1>5
    <3> QED BY <3>1, <3>2
  <2>1. P(m) /\ m + 1 \in 1..n
    <3> HIDE DEF P
    <3> QED BY <1>5
  <2>2. /\ F(m + 1) = F(m) \o f[m + 1] /\ F(m) \in Seq(S) /\ F(m + 1) \in Seq(S)
        /\ Len(f[m + 1]) \in Nat /\ f[m + 1] \in Seq(S) /\ Off(m) \in Nat
    <3>1. F(m + 1) = F(m) \o f[m + 1]
      BY <1>2
    <3>2. m + 1 \in Nat /\ m <= n
      BY <2>1
    <3>3. F(m) \in Seq(S) /\ F(m + 1) \in Seq(S) /\ Off(m) \in Nat
      <4> HIDE DEF Off, P
      <4> QED BY <1>1, <3>2
    <3>4. f[m + 1] \in Seq(S)
      BY <2>1
    <3> QED BY <3>1, <3>3, <3>4
  <2>3. /\ Off(m + 1) = Off(m) + Len(f[m + 1]) /\ Off(m + 1) \in Nat
        /\ \A p \in 1..Off(m) : F(m + 1)[p] = F(m)[p]
        /\ \A x \in 1..Len(f[m + 1]) : F(m + 1)[Off(m) + x] = f[m + 1][x]
    BY <2>2
  <2>4. \A i \in 0..m : Off(i) \in Nat
    BY <1>1
  <2>5. ASSUME NEW i \in 0..(m + 1), NEW j \in 0..(m + 1), i <= j PROVE Off(i) <= Off(j)
    <3>1. CASE j \in 0..m
      <4>1. i \in 0..m
        BY <2>5, <3>1
      <4> QED BY <2>1, <2>5, <3>1, <4>1
    <3>2. CASE j = m + 1 /\ i \in 0..m
      <4>1. Off(i) <= Off(m) /\ Off(i) \in Nat
        BY <2>1, <2>4, <3>2
      <4> HIDE DEF Off
      <4>2. Off(i) <= Off(m + 1)
        BY <2>2, <2>3, <4>1
      <4> QED BY <3>2, <4>2
    <3>3. CASE j = m + 1 /\ i = m + 1
      BY <2>3, <3>3
    <3> QED BY <2>5, <3>1, <3>2, <3>3
  <2>6. ASSUME NEW k \in 1..(m + 1)
        PROVE  /\ Off(k) = Off(k - 1) + Len(f[k])
               /\ \A x \in 1..Len(f[k]) : F(m + 1)[Off(k - 1) + x] = f[k][x]
    <3>1. CASE k = m + 1
      BY <2>3, <3>1
    <3>2. CASE k \in 1..m
      <4>1. /\ Off(k) = Off(k - 1) + Len(f[k])
            /\ \A x \in 1..Len(f[k]) : F(m)[Off(k - 1) + x] = f[k][x]
        BY <2>1, <3>2
      <4>2. /\ k \in 0..m /\ k - 1 \in 0..m /\ m \in 0..m /\ k <= m
        BY <3>2
      <4>3. Off(k) <= Off(m) /\ Off(k - 1) \in Nat
        BY <2>1, <2>4, <4>2
      <4>4. Len(f[k]) \in Nat
        BY <3>2, <2>1
      <4> HIDE DEF Off
      <4>5. \A x \in 1..Len(f[k]) : Off(k - 1) + x \in 1..Off(m)
        <5> SUFFICES ASSUME NEW x \in 1..Len(f[k]) PROVE Off(k - 1) + x \in 1..Off(m)
          OBVIOUS
        <5>1. Off(k) = Off(k - 1) + Len(f[k]) /\ Off(m) \in Nat
          BY <2>2, <4>1
        <5>2. x \in Int /\ 1 <= x /\ x <= Len(f[k])
          BY <4>4
        <5> QED BY <4>3, <4>4, <5>1, <5>2
      <4> QED BY <2>3, <4>1, <4>5
    <3>3. k = m + 1 \/ k \in 1..m
      OBVIOUS
    <3> HIDE DEF Off
    <3> QED BY <3>1, <3>2, <3>3
  <2>7. ASSUME NEW p \in 1..Off(m + 1)
        PROVE  \E k \in 1..(m + 1) : \E x \in 1..Len(f[k]) : p = Off(k - 1) + x
    <3>1. CASE p \in 1..Off(m)
      <4>1. PICK k \in 1..m : \E x \in 1..Len(f[k]) : p = Off(k - 1) + x
        BY <2>1, <3>1
      <4> QED BY <4>1
    <3>2. CASE p \notin 1..Off(m)
      <4> HIDE DEF Off
      <4>1. p - Off(m) \in 1..Len(f[m + 1]) /\ p = Off(m) + (p - Off(m))
        BY <2>2, <2>3, <3>2
      <4>2. m + 1 \in 1..(m + 1) /\ (m + 1) - 1 = m
        OBVIOUS
      <4> QED BY <4>1, <4>2
    <3> QED BY <3>1, <3>2
  <2> QED BY <2>2, <2>3, <2>5, <2>6, <2>7
<1>6. n \in T
  <2>1. Nat \subseteq T
    <3> HIDE DEF T
    <3> QED BY <1>4, <1>5, NatsIn
  <2> HIDE DEF T
  <2> QED BY <2>1
<1>7. P(n) /\ \A j \in 0..n : Off(j) \in Nat
  <2> HIDE DEF P
  <2>1. n \in 0..n
    OBVIOUS
  <2> QED BY <1>1, <1>6, <2>1
<1>8. F(n) = FlattenSeq(f) /\ \A j : Off(j) = OffsetIn(f, j)
  <2>1. [k \in 1..n |-> f[k]] = f
    OBVIOUS
  <2> QED BY <2>1 DEF F, OffsetIn
<1>9. DOMAIN FlattenSeq(f) = 1..Off(n)
  BY <1>7, <1>8
<1> HIDE DEF F, Off
<1>10. \A j \in 0..n : OffsetIn(f, j) \in Nat
  BY <1>7, <1>8
<1>11. \A i, j \in 0..n : i <= j => OffsetIn(f, i) <= OffsetIn(f, j)
  <2>1. \A i, j \in 0..n : i <= j => Off(i) <= Off(j)
    BY <1>7
  <2> QED BY <1>8, <2>1, Zenon
<1>12. ASSUME NEW k \in 1..n
       PROVE  /\ OffsetIn(f, k) = OffsetIn(f, k - 1) + Len(f[k])
              /\ \A x \in 1..Len(f[k]) : FlattenSeq(f)[OffsetIn(f, k - 1) + x] = f[k][x]
  <2>1. /\ Off(k) = Off(k - 1) + Len(f[k])
        /\ \A x \in 1..Len(f[k]) : F(n)[Off(k - 1) + x] = f[k][x]
    BY <1>7
  <2>2. Off(k) = OffsetIn(f, k) /\ Off(k - 1) = OffsetIn(f, k - 1)
    BY <1>8
  <2> HIDE DEF P, T
  <2> QED BY <1>8, <2>1, <2>2
<1>13. ASSUME NEW p \in DOMAIN FlattenSeq(f)
       PROVE  \E k \in 1..n : \E x \in 1..Len(f[k]) : p = OffsetIn(f, k - 1) + x
  <2>1. PICK k \in 1..n : \E x \in 1..Len(f[k]) : p = Off(k - 1) + x
    BY <1>7, <1>9
  <2>2. Off(k - 1) = OffsetIn(f, k - 1)
    BY <1>8
  <2> QED BY <2>1, <2>2
<1>14. FlattenSeq(f) \in Seq(S) /\ Len(FlattenSeq(f)) = OffsetIn(f, n)
  <2>1. F(n) \in Seq(S)
    BY <1>7
  <2>2. Len(FlattenSeq(f)) = Off(n)
    BY <1>8 DEF Off
  <2> QED BY <1>8, <2>1, <2>2
<1> HIDE DEF P, T
<1> QED BY <1>10, <1>11, <1>12, <1>13, <1>14 DEF Piecewise

===============================================================================
