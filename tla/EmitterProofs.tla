----------------------------- MODULE EmitterProofs -----------------------------
(***************************************************************************)
(* Whatever code is emitted, the emitter does what BranchLayout promises:  *)
(* the branches that end up long are the fewest there can be, and every    *)
(* label, displacement and field ends up where the layout has it.          *)
(***************************************************************************)
EXTENDS Emitter, InductionLemmas

-----------------------------------------------------------------------------
(* Sums *)

(* A sum is the one before it and one number more.                          *)
LEMMA SumsStep ==
  ASSUME NEW n \in Nat, NEW f \in [1 .. n -> Int]
  PROVE  /\ Sums(f, n) \in [0 .. n -> Int]
         /\ Sums(f, n)[0] = 0
         /\ \A k \in 1 .. n : Sums(f, n)[k] = Sums(f, n)[k - 1] + f[k]
<1> DEFINE step(g, k) == IF k = 0 THEN 0 ELSE g[k - 1] + f[k]
           Rec(g, m) == g = [k \in 0 .. m |-> step(g, k)]
           T == {m \in Nat : m <= n => \E g \in [0 .. m -> Int] : Rec(g, m)}
<1>1. 0 \in T
  <2> DEFINE g == [k \in 0 .. 0 |-> 0]
  <2>1. g \in [0 .. 0 -> Int] /\ Rec(g, 0)
    OBVIOUS
  <2> QED BY <2>1
<1>2. ASSUME NEW m \in Nat, m \in T PROVE m + 1 \in T
  <2> SUFFICES ASSUME m + 1 <= n PROVE \E g \in [0 .. (m + 1) -> Int] : Rec(g, m + 1)
    <3> HIDE DEF Rec
    <3> QED OBVIOUS
  <2>1. PICK g \in [0 .. m -> Int] : Rec(g, m)
    <3> HIDE DEF Rec
    <3> QED BY <1>2
  <2> DEFINE h == [k \in 0 .. (m + 1) |-> IF k <= m THEN g[k] ELSE g[m] + f[m + 1]]
  <2>2. h \in [0 .. (m + 1) -> Int]
    OBVIOUS
  <2>3. \A k \in 0 .. m : g[k] = step(g, k)
    BY <2>1
  <2>4. \A k \in 0 .. (m + 1) : h[k] = step(h, k)
    BY <2>3
  <2>5. Rec(h, m + 1)
    BY <2>4
  <2> QED BY <2>2, <2>5
<1>3. n \in T
  <2> HIDE DEF T
  <2> QED BY <1>1, <1>2, NatsIn
<1>4. PICK g \in [0 .. n -> Int] : Rec(g, n)
  BY <1>3
<1> DEFINE s == CHOOSE sum : Rec(sum, n)
<1>5. Rec(s, n)
  <2> HIDE DEF Rec
  <2> QED BY <1>4
<1>6. Sums(f, n) = s
  BY DEF Sums
<1> HIDE DEF s
<1>7. \A k \in 0 .. n : s[k] = step(s, k)
  BY <1>5
<1>8. DOMAIN s = 0 .. n /\ s = [k \in 0 .. n |-> s[k]]
  BY <1>5
<1> DEFINE U == {k \in Nat : k <= n => s[k] \in Int}
<1>9. 0 \in U
  BY <1>7
<1>10. ASSUME NEW k \in Nat, k \in U PROVE k + 1 \in U
  <2> SUFFICES ASSUME k + 1 <= n PROVE s[k + 1] \in Int
    OBVIOUS
  <2>1. k + 1 \in 0 .. n /\ k + 1 # 0 /\ (k + 1) - 1 = k /\ f[k + 1] \in Int
    OBVIOUS
  <2>2. s[k + 1] = s[k] + f[k + 1]
    BY <1>7, <2>1
  <2> QED BY <1>10, <2>1, <2>2
<1>11. \A k \in 0 .. n : s[k] \in Int
  <2>1. Nat \subseteq U
    <3> HIDE DEF U
    <3> QED BY <1>9, <1>10, NatsIn
  <2> QED BY <2>1
<1>12. s[0] = 0 /\ \A k \in 1 .. n : s[k] = s[k - 1] + f[k]
  BY <1>7
<1> QED BY <1>6, <1>8, <1>11, <1>12

(* Numbers that agree at first have the same first sums.                    *)
LEMMA SumsAgree ==
  ASSUME NEW n \in Nat, NEW f \in [1 .. n -> Int], NEW m \in Nat, NEW g \in [1 .. m -> Int],
         NEW l \in Nat, l <= n, l <= m, \A k \in 1 .. l : f[k] = g[k]
  PROVE  \A k \in 0 .. l : Sums(f, n)[k] = Sums(g, m)[k]
<1> DEFINE U == {k \in Nat : k <= l => Sums(f, n)[k] = Sums(g, m)[k]}
<1>1. 0 \in U
  BY SumsStep
<1>2. ASSUME NEW k \in Nat, k \in U PROVE k + 1 \in U
  <2> SUFFICES ASSUME k + 1 <= l PROVE Sums(f, n)[k + 1] = Sums(g, m)[k + 1]
    OBVIOUS
  <2>1. k + 1 \in 1 .. n /\ k + 1 \in 1 .. m /\ k + 1 \in 1 .. l /\ (k + 1) - 1 = k
    OBVIOUS
  <2>2. Sums(f, n)[k + 1] = Sums(f, n)[k] + f[k + 1]
    BY <2>1, SumsStep
  <2>3. Sums(g, m)[k + 1] = Sums(g, m)[k] + g[k + 1]
    BY <2>1, SumsStep
  <2> QED BY <1>2, <2>1, <2>2, <2>3
<1>3. Nat \subseteq U
  <2> HIDE DEF U
  <2> QED BY <1>1, <1>2, NatsIn
<1> QED BY <1>3

(* Between two places, smaller numbers sum up to less.                      *)
LEMMA SumsOrdered ==
  ASSUME NEW n \in Nat, NEW f \in [1 .. n -> Int], NEW g \in [1 .. n -> Int],
         \A k \in 1 .. n : f[k] <= g[k],
         NEW i \in 0 .. n, NEW j \in i .. n
  PROVE  Sums(f, n)[j] - Sums(f, n)[i] <= Sums(g, n)[j] - Sums(g, n)[i]
<1> DEFINE F(k) == Sums(f, n)[k]
           G(k) == Sums(g, n)[k]
           d(k) == G(k) - F(k)
           U == {k \in Nat : i + k <= n => d(i) <= d(i + k)}
<1>0. \A k \in 0 .. n : F(k) \in Int /\ G(k) \in Int
  BY SumsStep
<1>5. \A k \in 1 .. n : F(k) = F(k - 1) + f[k] /\ G(k) = G(k - 1) + g[k]
  BY SumsStep
<1> HIDE DEF F, G
<1>1. 0 \in U
  BY <1>0
<1>2. ASSUME NEW k \in Nat, k \in U PROVE k + 1 \in U
  <2> SUFFICES ASSUME i + (k + 1) <= n PROVE d(i) <= d(i + (k + 1))
    OBVIOUS
  <2> DEFINE x == i + (k + 1)
  <2>1. x \in 1 .. n /\ x - 1 = i + k /\ i + k \in 0 .. n
    OBVIOUS
  <2> HIDE DEF x
  <2>2. F(x) = F(x - 1) + f[x] /\ G(x) = G(x - 1) + g[x]
    BY <1>5, <2>1
  <2>3. f[x] <= g[x] /\ f[x] \in Int /\ g[x] \in Int
    BY <2>1
  <2>4. d(i) <= d(i + k)
    BY <1>2, <2>1
  <2>5. d(i) <= d(x)
    <3>1. i \in 0 .. n /\ x \in 0 .. n
      BY <2>1
    <3>2. /\ F(i) \in Int /\ F(i + k) \in Int /\ F(x) \in Int
          /\ G(i) \in Int /\ G(i + k) \in Int /\ G(x) \in Int
      BY <1>0, <2>1, <3>1
    <3>3. F(x) = F(i + k) + f[x] /\ G(x) = G(i + k) + g[x]
      BY <2>1, <2>2
    <3>4. d(x) = d(i + k) + (g[x] - f[x])
      BY <2>3, <3>2, <3>3
    <3>5. d(i) \in Int /\ d(i + k) \in Int
      BY <3>2
    <3>6. g[x] - f[x] \in Nat
      BY <2>3
    <3> HIDE DEF d
    <3> QED BY <2>4, <3>4, <3>5, <3>6
  <2> QED BY <2>5 DEF x
<1>3. j - i \in U
  <2>1. Nat \subseteq U
    <3> HIDE DEF U
    <3> QED BY <1>1, <1>2, NatsIn
  <2>2. j - i \in Nat
    OBVIOUS
  <2> HIDE DEF U
  <2> QED BY <2>1, <2>2
<1>4. d(i) <= d(j)
  <2>1. i + (j - i) = j /\ i + (j - i) <= n
    OBVIOUS
  <2> QED BY <1>3, <2>1
<1>6. i \in 0 .. n /\ j \in 0 .. n
  OBVIOUS
<1>7. F(j) - F(i) <= G(j) - G(i)
  BY <1>0, <1>4, <1>6
<1> QED BY <1>7 DEF F, G

(* Sums of numbers that are not negative rise.                              *)
LEMMA SumsRise ==
  ASSUME NEW n \in Nat, NEW f \in [1 .. n -> Nat]
  PROVE  /\ \A k \in 0 .. n : Sums(f, n)[k] \in Nat
         /\ \A i \in 0 .. n : \A j \in i .. n : Sums(f, n)[i] <= Sums(f, n)[j]
<1> DEFINE z == [k \in 1 .. n |-> 0]
           U == {k \in Nat : k <= n => Sums(z, n)[k] = 0}
<1>1. z \in [1 .. n -> Int] /\ f \in [1 .. n -> Int] /\ \A k \in 1 .. n : z[k] = 0 /\ z[k] <= f[k]
  OBVIOUS
<1> HIDE DEF z
<1>2. 0 \in U
  BY <1>1, SumsStep
<1>3. ASSUME NEW k \in Nat, k \in U PROVE k + 1 \in U
  <2> SUFFICES ASSUME k + 1 <= n PROVE Sums(z, n)[k + 1] = 0
    OBVIOUS
  <2>1. k + 1 \in 1 .. n /\ (k + 1) - 1 = k
    OBVIOUS
  <2>2. Sums(z, n)[k + 1] = Sums(z, n)[k] + z[k + 1]
    BY <1>1, <2>1, SumsStep
  <2> QED BY <1>1, <1>3, <2>1, <2>2
<1>4. \A k \in 0 .. n : Sums(z, n)[k] = 0
  <2>1. Nat \subseteq U
    <3> HIDE DEF U
    <3> QED BY <1>2, <1>3, NatsIn
  <2> QED BY <2>1
<1>5. \A k \in 0 .. n : Sums(f, n)[k] \in Int
  BY <1>1, SumsStep
<1>6. ASSUME NEW i \in 0 .. n, NEW j \in i .. n
      PROVE  Sums(f, n)[i] <= Sums(f, n)[j]
  <2>1. Sums(z, n)[j] - Sums(z, n)[i] <= Sums(f, n)[j] - Sums(f, n)[i]
    BY <1>1, SumsOrdered
  <2> QED BY <1>4, <1>5, <2>1
<1>7. \A k \in 0 .. n : Sums(f, n)[0] <= Sums(f, n)[k]
  BY <1>6
<1> QED BY <1>1, <1>5, <1>6, <1>7, SumsStep

-----------------------------------------------------------------------------
(* What was emitted *)

Piece ==
  [kind : {"code"}, len : Nat]
    \union [kind : {"branch"}, len : {n \in Nat : n > ShortLen}, label : Label]
    \union [kind : {"pcrel"}, len : {FieldLen}, label : Label]
    \union [kind : {"abs"}, len : {FieldLen}, place : Nat \X Nat]

BranchAt(b, j) == b[j].kind = "branch"

(* How many of the first j pieces are branches.                             *)
Rank(b, j) == Cardinality({k \in 1 .. j : BranchAt(b, k)})

(* A piece has a length, which for a branch is more than its short form.    *)
LEMMA PieceLength ==
  ASSUME NEW x \in Piece
  PROVE  /\ x.len \in Nat
         /\ x.kind \in {"code", "branch", "pcrel", "abs"}
         /\ x.kind = "branch" => x.len > ShortLen /\ x.label \in Label
         /\ x.kind = "pcrel" => x.len = FieldLen /\ x.label \in Label
  BY DEF Piece, FieldLen, ShortLen

(* The end of a piece is that of the one before it and its length more.     *)
LEMMA EndsStep ==
  ASSUME NEW b \in Seq(Piece)
  PROVE  /\ \A j \in 0 .. Len(b) : Ends(b)[j] \in Nat
         /\ Ends(b)[0] = 0
         /\ \A j \in 1 .. Len(b) : Ends(b)[j] = Ends(b)[j - 1] + b[j].len
         /\ \A i \in 0 .. Len(b) : \A j \in i .. Len(b) : Ends(b)[i] <= Ends(b)[j]
<1> DEFINE f == [j \in DOMAIN b |-> b[j].len]
<1>1. DOMAIN b = 1 .. Len(b) /\ Len(b) \in Nat /\ \A j \in 1 .. Len(b) : b[j] \in Piece
  OBVIOUS
<1>2. f \in [1 .. Len(b) -> Nat] /\ \A j \in 1 .. Len(b) : f[j] = b[j].len
  BY <1>1, PieceLength
<1> HIDE DEF f
<1>3. f \in [1 .. Len(b) -> Int]
  BY <1>2
<1>4. Ends(b) = Sums(f, Len(b))
  BY DEF Ends, f
<1>5. /\ \A j \in 0 .. Len(b) : Sums(f, Len(b))[j] \in Nat
      /\ \A i \in 0 .. Len(b) : \A j \in i .. Len(b) : Sums(f, Len(b))[i] <= Sums(f, Len(b))[j]
  BY <1>1, <1>2, SumsRise
<1>6. /\ Sums(f, Len(b))[0] = 0
      /\ \A j \in 1 .. Len(b) : Sums(f, Len(b))[j] = Sums(f, Len(b))[j - 1] + f[j]
  BY <1>1, <1>3, SumsStep
<1> QED BY <1>2, <1>4, <1>5, <1>6

(* What is appended comes behind.                                           *)
LEMMA EndsAppended ==
  ASSUME NEW b \in Seq(Piece), NEW x \in Piece
  PROVE  /\ \A j \in 0 .. Len(b) : Ends(Append(b, x))[j] = Ends(b)[j]
         /\ Ends(Append(b, x))[Len(b) + 1] = Ends(b)[Len(b)] + x.len
<1> DEFINE c == Append(b, x)
           f == [j \in DOMAIN b |-> b[j].len]
           g == [j \in DOMAIN c |-> c[j].len]
<1>1. /\ c \in Seq(Piece) /\ Len(c) = Len(b) + 1 /\ Len(b) \in Nat /\ c[Len(b) + 1] = x
      /\ DOMAIN b = 1 .. Len(b) /\ DOMAIN c = 1 .. Len(c)
      /\ \A j \in 1 .. Len(b) : c[j] = b[j] /\ b[j] \in Piece
      /\ \A j \in 1 .. Len(c) : c[j] \in Piece
  OBVIOUS
<1> HIDE DEF c
<1>2. f \in [1 .. Len(b) -> Int] /\ g \in [1 .. Len(c) -> Int]
  BY <1>1, PieceLength
<1>3. \A j \in 1 .. Len(b) : f[j] = g[j]
  BY <1>1
<1>4. Ends(b) = Sums(f, Len(b)) /\ Ends(c) = Sums(g, Len(c))
  BY DEF Ends
<1> HIDE DEF f, g
<1>5. \A j \in 0 .. Len(b) : Sums(f, Len(b))[j] = Sums(g, Len(c))[j]
  <2>1. Len(c) \in Nat /\ Len(b) <= Len(b) /\ Len(b) <= Len(c) /\ Len(b) \in Nat
    BY <1>1
  <2> QED BY <2>1, <1>2, <1>3, SumsAgree
<1>6. Ends(c)[Len(b) + 1] = Ends(c)[Len(b)] + x.len
  <2>1. Len(b) + 1 \in 1 .. Len(c) /\ (Len(b) + 1) - 1 = Len(b)
    BY <1>1
  <2>2. Ends(c)[Len(b) + 1] = Ends(c)[(Len(b) + 1) - 1] + c[Len(b) + 1].len
    BY <1>1, <2>1, EndsStep
  <2> QED BY <1>1, <2>1, <2>2
<1>7. Len(b) \in 0 .. Len(b)
  BY <1>1
<1> QED BY <1>4, <1>5, <1>6, <1>7 DEF c

(* Branches are counted one by one.                                         *)
LEMMA RankStep ==
  ASSUME NEW b, NEW j \in Nat
  PROVE  /\ Rank(b, j) \in Nat /\ Rank(b, 0) = 0
         /\ Rank(b, j + 1) = Rank(b, j) + (IF BranchAt(b, j + 1) THEN 1 ELSE 0)
<1> DEFINE B(k) == {i \in 1 .. k : BranchAt(b, i)}
<1>1. ASSUME NEW k \in Nat PROVE IsFiniteSet(B(k)) /\ Cardinality(B(k)) \in Nat
  <2>1. IsFiniteSet(1 .. k) /\ B(k) \subseteq 1 .. k
    BY FS_Interval
  <2>2. IsFiniteSet(B(k))
    BY <2>1, FS_Subset
  <2> QED BY <2>2, FS_CardinalityType
<1>2. B(0) = {} /\ Cardinality(B(0)) = 0
  <2>1. B(0) = {}
    OBVIOUS
  <2> QED BY <2>1, FS_EmptySet
<1>3. CASE BranchAt(b, j + 1)
  <2>1. B(j + 1) = B(j) \union {j + 1} /\ j + 1 \notin B(j)
    BY <1>3
  <2> HIDE DEF B
  <2>2. Cardinality(B(j) \union {j + 1}) = Cardinality(B(j)) + 1
    BY <1>1, <2>1, FS_AddElement
  <2>3. Cardinality(B(j + 1)) = Cardinality(B(j)) + 1
    BY <2>1, <2>2
  <2> QED BY <1>1, <1>2, <1>3, <2>3 DEF Rank, B
<1>4. CASE ~BranchAt(b, j + 1)
  <2>1. B(j + 1) = B(j)
    BY <1>4
  <2>2. Cardinality(B(j + 1)) = Cardinality(B(j))
    BY <2>1
  <2> HIDE DEF B
  <2>3. Cardinality(B(j + 1)) = Cardinality(B(j)) + 0
    BY <1>1, <2>2
  <2> QED BY <1>1, <1>2, <1>4, <2>3 DEF Rank, B
<1> QED BY <1>3, <1>4

(* The counts rise.                                                         *)
LEMMA RankRises ==
  ASSUME NEW b, NEW i \in Nat, NEW j \in Nat, i <= j
  PROVE  Rank(b, i) <= Rank(b, j)
<1> DEFINE U == {k \in Nat : Rank(b, i) <= Rank(b, i + k)}
<1>0. \A k \in Nat : Rank(b, k) \in Nat
  BY RankStep
<1>1. 0 \in U
  BY <1>0
<1>2. ASSUME NEW k \in Nat, k \in U PROVE k + 1 \in U
  <2> DEFINE x == i + k
  <2>1. x \in Nat /\ i + (k + 1) = x + 1
    OBVIOUS
  <2>2. Rank(b, i) <= Rank(b, x)
    BY <1>2
  <2> HIDE DEF x
  <2>3. Rank(b, x) <= Rank(b, x + 1)
    BY <2>1, <1>0, RankStep
  <2>4. Rank(b, i) <= Rank(b, x + 1)
    BY <1>0, <2>1, <2>2, <2>3
  <2> QED BY <2>1, <2>4
<1>3. j - i \in U
  <2>1. Nat \subseteq U
    <3> HIDE DEF U
    <3> QED BY <1>1, <1>2, NatsIn
  <2>2. j - i \in Nat
    OBVIOUS
  <2> HIDE DEF U
  <2> QED BY <2>1, <2>2
<1>4. i + (j - i) = j
  OBVIOUS
<1> QED BY <1>3, <1>4

(* Counting the branches before a piece does not depend on what follows.    *)
LEMMA RankAppended ==
  ASSUME NEW b \in Seq(Piece), NEW x \in Piece
  PROVE  /\ \A j \in 0 .. Len(b) : Rank(Append(b, x), j) = Rank(b, j)
         /\ Rank(Append(b, x), Len(b) + 1) = Rank(b, Len(b)) + (IF x.kind = "branch" THEN 1 ELSE 0)
<1>1. ASSUME NEW j \in 0 .. Len(b) PROVE Rank(Append(b, x), j) = Rank(b, j)
  <2>1. \A k \in 1 .. j : Append(b, x)[k] = b[k]
    OBVIOUS
  <2>2. {k \in 1 .. j : BranchAt(Append(b, x), k)} = {k \in 1 .. j : BranchAt(b, k)}
    BY <2>1 DEF BranchAt
  <2> QED BY <2>2 DEF Rank
<1>2. Append(b, x)[Len(b) + 1] = x /\ Len(b) \in Nat
  OBVIOUS
<1>3. Rank(Append(b, x), Len(b) + 1) =
        Rank(Append(b, x), Len(b)) + (IF BranchAt(Append(b, x), Len(b) + 1) THEN 1 ELSE 0)
  BY <1>2, RankStep
<1>4. Len(b) \in 0 .. Len(b)
  BY <1>2
<1> QED BY <1>1, <1>2, <1>3, <1>4 DEF BranchAt

-----------------------------------------------------------------------------
(* Emission *)

FieldAt(b, j) == b[j].kind = "pcrel"
AbsoluteAt(b, j) == b[j].kind = "abs"

(* A place in b: within a piece only if nothing in it can shrink.           *)
PlaceIn(b, place) ==
  /\ place \in Nat \X Nat /\ place[1] \in 1 .. (Len(b) + 1)
  /\ place[2] # 0 => place[1] <= Len(b) /\ ~BranchAt(b, place[1]) /\ place[2] <= b[place[1]].len

OffsetOf(b, place) == Ends(b)[place[1] - 1] + place[2]

(* A label is bound to the offset of its place.                             *)
LabelsFit(b, ls, ms) ==
  /\ ls \in [Label -> Nat \union {Unbound}] /\ ms \in [Label -> (Nat \X Nat) \union {Unbound}]
  /\ \A l \in Label : /\ ms[l] = Unbound => ls[l] = Unbound
                      /\ ms[l] # Unbound => PlaceIn(b, ms[l]) /\ ls[l] = OffsetOf(b, ms[l])

(* The branches are recorded in order.                                      *)
BranchesFit(b, rs) ==
  /\ rs \in Seq([at : Nat, len : Nat, label : Label]) /\ Len(rs) = Rank(b, Len(b))
  /\ \A j \in 1 .. Len(b) :
       BranchAt(b, j) => rs[Rank(b, j)] = [at |-> Ends(b)[j - 1], len |-> b[j].len, label |-> b[j].label]
  /\ \A i \in 1 .. Len(rs) : \E j \in 1 .. Len(b) : BranchAt(b, j) /\ Rank(b, j) = i

(* The fixups are those of the fields.                                      *)
FixupAt(b, j, fx) ==
  \/ FieldAt(b, j) /\ fx = ToLabel(Ends(b)[j - 1], b[j].label)
  \/ AbsoluteAt(b, j) /\ \E a \in Nat : fx = ToFunction(Ends(b)[j - 1], a)
FieldsFit(b, fs) ==
  /\ fs \in Seq(LabelFixup \union FunctionFixup)
  /\ \A k \in 1 .. Len(fs) : \E j \in 1 .. Len(b) : FixupAt(b, j, fs[k])
  /\ \A j \in 1 .. Len(b) : FieldAt(b, j) => \E k \in 1 .. Len(fs) : FixupAt(b, j, fs[k])

EmittedFit(b, ls, ms, rs, fs) ==
  b \in Seq(Piece) /\ LabelsFit(b, ls, ms) /\ BranchesFit(b, rs) /\ FieldsFit(b, fs)

(* Appending leaves what is there where it is.                              *)
LEMMA AppendedPiece ==
  ASSUME NEW b \in Seq(Piece), NEW x \in Piece
  PROVE  /\ Append(b, x) \in Seq(Piece) /\ Len(Append(b, x)) = Len(b) + 1 /\ Len(b) \in Nat
         /\ Append(b, x)[Len(b) + 1] = x
         /\ \A j \in 1 .. Len(b) : Append(b, x)[j] = b[j] /\ j \in 1 .. Len(Append(b, x))
  OBVIOUS

(* A label stays at its place.                                               *)
LEMMA LabelsKept ==
  ASSUME NEW b \in Seq(Piece), NEW x \in Piece, NEW ls, NEW ms, LabelsFit(b, ls, ms)
  PROVE  LabelsFit(Append(b, x), ls, ms)
<1> DEFINE c == Append(b, x)
<1>1. /\ Len(c) = Len(b) + 1 /\ Len(b) \in Nat
      /\ \A j \in 1 .. Len(b) : c[j] = b[j]
  BY AppendedPiece
<1>2. \A j \in 0 .. Len(b) : Ends(c)[j] = Ends(b)[j]
  BY EndsAppended
<1> HIDE DEF c
<1>3. ASSUME NEW place, PlaceIn(b, place)
      PROVE  PlaceIn(c, place) /\ OffsetOf(c, place) = OffsetOf(b, place)
  <2>1. place[1] \in 1 .. (Len(b) + 1) /\ place[1] - 1 \in 0 .. Len(b) /\ place[1] \in 1 .. (Len(c) + 1)
    BY <1>1, <1>3 DEF PlaceIn
  <2>2. OffsetOf(c, place) = OffsetOf(b, place)
    BY <1>2, <2>1 DEF OffsetOf
  <2>3. ASSUME place[2] # 0
        PROVE  place[1] <= Len(c) /\ ~BranchAt(c, place[1]) /\ place[2] <= c[place[1]].len
    <3>1. place[1] \in 1 .. Len(b)
      BY <1>3, <2>1, <2>3 DEF PlaceIn
    <3>2. c[place[1]] = b[place[1]] /\ place[1] <= Len(c)
      BY <1>1, <3>1
    <3> QED BY <1>3, <2>3, <3>2 DEF PlaceIn, BranchAt
  <2> QED BY <1>3, <2>1, <2>2, <2>3 DEF PlaceIn
<1> QED BY <1>3 DEF LabelsFit, c

(* A label bound to a place is at its offset.                                *)
LEMMA LabelPlaced ==
  ASSUME NEW b \in Seq(Piece), NEW ls, NEW ms, LabelsFit(b, ls, ms),
         NEW l \in Label, NEW place, PlaceIn(b, place), NEW at, at = OffsetOf(b, place)
  PROVE  LabelsFit(b, [ls EXCEPT ![l] = at], [ms EXCEPT ![l] = place])
<1>1. place \in Nat \X Nat /\ place # Unbound
  BY UnboundAssumption DEF PlaceIn
<1>2. at \in Nat
  <2>1. place[1] - 1 \in 0 .. Len(b) /\ place[2] \in Nat
    BY <1>1 DEF PlaceIn
  <2>2. Ends(b)[place[1] - 1] \in Nat
    BY <2>1, EndsStep
  <2> QED BY <2>1, <2>2 DEF OffsetOf
<1> DEFINE ls2 == [ls EXCEPT ![l] = at]
           ms2 == [ms EXCEPT ![l] = place]
<1>3. ls2 \in [Label -> Nat \union {Unbound}] /\ ms2 \in [Label -> (Nat \X Nat) \union {Unbound}]
  BY <1>1, <1>2 DEF LabelsFit
<1>4. /\ ls2[l] = at /\ ms2[l] = place
      /\ \A m \in Label : m # l => ls2[m] = ls[m] /\ ms2[m] = ms[m]
  BY DEF LabelsFit
<1> HIDE DEF ls2, ms2
<1> QED BY <1>1, <1>3, <1>4 DEF LabelsFit, ls2, ms2

(* The branches recorded are still all there are.                            *)
LEMMA BranchesKept ==
  ASSUME NEW b \in Seq(Piece), NEW x \in Piece, x.kind # "branch", NEW rs, BranchesFit(b, rs)
  PROVE  BranchesFit(Append(b, x), rs)
<1> DEFINE c == Append(b, x)
<1>1. /\ Len(c) = Len(b) + 1 /\ Len(b) \in Nat /\ c[Len(b) + 1] = x
      /\ \A j \in 1 .. Len(b) : c[j] = b[j]
  BY AppendedPiece
<1>2. \A j \in 0 .. Len(b) : Ends(c)[j] = Ends(b)[j] /\ Rank(c, j) = Rank(b, j)
  BY EndsAppended, RankAppended
<1>3. Rank(c, Len(c)) = Rank(b, Len(b))
  <2>1. Rank(c, Len(b) + 1) = Rank(b, Len(b)) + 0
    BY RankAppended
  <2> QED BY <1>1, <2>1, RankStep
<1> HIDE DEF c
<1>4. \A j \in 1 .. Len(c) : BranchAt(c, j) => j \in 1 .. Len(b)
  <2>1. \A j \in 1 .. Len(c) : j \in 1 .. Len(b) \/ j = Len(b) + 1
    BY <1>1
  <2> QED BY <1>1, <2>1 DEF BranchAt
<1>5. \A j \in 1 .. Len(b) : /\ j \in 1 .. Len(c) /\ c[j] = b[j] /\ (BranchAt(c, j) <=> BranchAt(b, j))
                             /\ Rank(c, j) = Rank(b, j) /\ Ends(c)[j - 1] = Ends(b)[j - 1]
  <2>1. \A j \in 1 .. Len(b) : j \in 1 .. Len(c) /\ j \in 0 .. Len(b) /\ j - 1 \in 0 .. Len(b)
    BY <1>1
  <2> QED BY <1>1, <1>2, <2>1 DEF BranchAt
<1> QED BY <1>3, <1>4, <1>5 DEF BranchesFit, c

(* A branch is recorded as it is emitted.                                    *)
LEMMA BranchesGrown ==
  ASSUME NEW b \in Seq(Piece), NEW x \in Piece, x.kind = "branch", NEW rs, BranchesFit(b, rs)
  PROVE  BranchesFit(Append(b, x), Append(rs, [at |-> Ends(b)[Len(b)], len |-> x.len, label |-> x.label]))
<1> DEFINE c == Append(b, x)
           r == [at |-> Ends(b)[Len(b)], len |-> x.len, label |-> x.label]
           rs2 == Append(rs, r)
           n == Len(b)
<1>1. /\ Len(c) = n + 1 /\ n \in Nat /\ c[n + 1] = x
      /\ \A j \in 1 .. n : c[j] = b[j]
  BY AppendedPiece
<1>2. \A j \in 0 .. n : Ends(c)[j] = Ends(b)[j] /\ Rank(c, j) = Rank(b, j)
  BY EndsAppended, RankAppended
<1>3. Rank(c, n + 1) = Rank(b, n) + 1 /\ Rank(b, n) \in Nat
  BY RankAppended, RankStep, <1>1
<1>4. r \in [at : Nat, len : Nat, label : Label]
  <2>1. n \in 0 .. n
    BY <1>1
  <2>2. Ends(b)[n] \in Nat
    BY <2>1, EndsStep
  <2> QED BY <2>2, PieceLength
<1>5. rs \in Seq([at : Nat, len : Nat, label : Label]) /\ Len(rs) = Rank(b, n)
  BY DEF BranchesFit
<1>6. /\ rs2 \in Seq([at : Nat, len : Nat, label : Label]) /\ Len(rs2) = Rank(b, n) + 1
      /\ rs2[Rank(b, n) + 1] = r
      /\ \A i \in 1 .. Rank(b, n) : rs2[i] = rs[i]
  <2> HIDE DEF r
  <2> QED BY <1>3, <1>4, <1>5
<1>7. \A j \in 1 .. n : /\ j \in 1 .. (n + 1) /\ c[j] = b[j] /\ (BranchAt(c, j) <=> BranchAt(b, j))
                        /\ Rank(c, j) = Rank(b, j) /\ Ends(c)[j - 1] = Ends(b)[j - 1]
  <2>1. \A j \in 1 .. n : j \in 1 .. (n + 1) /\ j \in 0 .. n /\ j - 1 \in 0 .. n
    BY <1>1
  <2> QED BY <1>1, <1>2, <2>1 DEF BranchAt
<1>8. Ends(c)[(n + 1) - 1] = Ends(b)[n] /\ BranchAt(c, n + 1)
  <2>1. (n + 1) - 1 = n /\ n \in 0 .. n
    BY <1>1
  <2> QED BY <1>1, <1>2, <2>1 DEF BranchAt
<1>12. r = [at |-> Ends(b)[n], len |-> x.len, label |-> x.label]
  OBVIOUS
<1> HIDE DEF c, n, r
<1>9. ASSUME NEW j \in 1 .. (n + 1), BranchAt(c, j)
      PROVE  rs2[Rank(c, j)] = [at |-> Ends(c)[j - 1], len |-> c[j].len, label |-> c[j].label]
  <2>1. CASE j = n + 1
    <3> HIDE DEF rs2
    <3>1. rs2[Rank(c, j)] = r /\ c[j] = x /\ Ends(c)[j - 1] = Ends(b)[n]
      BY <1>1, <1>3, <1>6, <1>8, <2>1
    <3> QED BY <1>12, <3>1
  <2>2. CASE j \in 1 .. n
    <3>1. rs[Rank(b, j)] = [at |-> Ends(b)[j - 1], len |-> b[j].len, label |-> b[j].label]
      BY <1>7, <1>9, <2>2 DEF BranchesFit, n
    <3>2. Rank(b, j) \in 1 .. Rank(b, n)
      <4>1. j \in Nat /\ j - 1 \in Nat /\ (j - 1) + 1 = j /\ j <= n /\ n \in Nat /\ BranchAt(b, j)
        BY <1>1, <1>7, <1>9, <2>2
      <4>2. Rank(b, j) = Rank(b, j - 1) + 1 /\ Rank(b, j - 1) \in Nat
        BY <4>1, RankStep
      <4>3. Rank(b, j) <= Rank(b, n)
        BY <4>1, RankRises
      <4> QED BY <1>3, <4>2, <4>3
    <3> QED BY <1>6, <1>7, <2>2, <3>1, <3>2
  <2>3. j = n + 1 \/ j \in 1 .. n
    BY <1>1
  <2> QED BY <2>1, <2>2, <2>3
<1>10. ASSUME NEW i \in 1 .. Len(rs2)
       PROVE  \E j \in 1 .. (n + 1) : BranchAt(c, j) /\ Rank(c, j) = i
  <2>1. CASE i = Rank(b, n) + 1
    <3>1. n + 1 \in 1 .. (n + 1)
      BY <1>1
    <3> QED BY <1>3, <1>8, <2>1, <3>1
  <2>2. CASE i \in 1 .. Rank(b, n)
    <3>1. PICK j \in 1 .. n : BranchAt(b, j) /\ Rank(b, j) = i
      BY <1>5, <2>2 DEF BranchesFit, n
    <3> QED BY <1>7, <3>1
  <2>3. i = Rank(b, n) + 1 \/ i \in 1 .. Rank(b, n)
    <3> HIDE DEF rs2
    <3> QED BY <1>3, <1>6
  <2> QED BY <2>1, <2>2, <2>3
<1> HIDE DEF rs2
<1>11. BranchesFit(c, rs2)
  BY <1>1, <1>3, <1>6, <1>9, <1>10 DEF BranchesFit
<1> QED BY <1>11 DEF c, rs2, n, r

(* A fixup stays at its field.                                               *)
LEMMA FixupsStay ==
  ASSUME NEW b \in Seq(Piece), NEW x \in Piece, NEW j \in 1 .. Len(b), NEW fx
  PROVE  /\ j \in 1 .. Len(Append(b, x))
         /\ FixupAt(Append(b, x), j, fx) <=> FixupAt(b, j, fx)
         /\ FieldAt(Append(b, x), j) <=> FieldAt(b, j)
<1>1. Append(b, x)[j] = b[j] /\ j \in 1 .. Len(Append(b, x))
  BY AppendedPiece
<1>2. Ends(Append(b, x))[j - 1] = Ends(b)[j - 1]
  <2>1. j - 1 \in 0 .. Len(b)
    OBVIOUS
  <2> QED BY <2>1, EndsAppended
<1> QED BY <1>1, <1>2 DEF FixupAt, FieldAt, AbsoluteAt

(* The fixups are still those of all fields.                                 *)
LEMMA FieldsKept ==
  ASSUME NEW b \in Seq(Piece), NEW x \in Piece, x.kind # "pcrel", NEW fs, FieldsFit(b, fs)
  PROVE  FieldsFit(Append(b, x), fs)
<1> DEFINE c == Append(b, x)
<1>1. /\ Len(c) = Len(b) + 1 /\ Len(b) \in Nat /\ c[Len(b) + 1] = x
  BY AppendedPiece
<1>2. \A j \in 1 .. Len(b) : \A fx : /\ j \in 1 .. Len(c) /\ (FixupAt(c, j, fx) <=> FixupAt(b, j, fx))
                                     /\ (FieldAt(c, j) <=> FieldAt(b, j))
  BY FixupsStay
<1> HIDE DEF c
<1>3. \A j \in 1 .. Len(c) : FieldAt(c, j) => j \in 1 .. Len(b)
  <2>1. \A j \in 1 .. Len(c) : j \in 1 .. Len(b) \/ j = Len(b) + 1
    BY <1>1
  <2> QED BY <1>1, <2>1 DEF FieldAt
<1> QED BY <1>2, <1>3 DEF FieldsFit, c

(* A field is recorded as it is emitted.                                     *)
LEMMA FieldsGrown ==
  ASSUME NEW b \in Seq(Piece), NEW x \in Piece, NEW fs, FieldsFit(b, fs),
         NEW fx \in LabelFixup \union FunctionFixup, FixupAt(Append(b, x), Len(b) + 1, fx)
  PROVE  FieldsFit(Append(b, x), Append(fs, fx))
<1> DEFINE c == Append(b, x)
           gs == Append(fs, fx)
<1>1. Len(c) = Len(b) + 1 /\ Len(b) \in Nat /\ Len(b) + 1 \in 1 .. Len(c)
  BY AppendedPiece
<1>2. \A j \in 1 .. Len(b) : \A f : /\ j \in 1 .. Len(c) /\ (FixupAt(c, j, f) <=> FixupAt(b, j, f))
                                    /\ (FieldAt(c, j) <=> FieldAt(b, j))
  BY FixupsStay
<1>3. /\ gs \in Seq(LabelFixup \union FunctionFixup)
      /\ Len(gs) = Len(fs) + 1 /\ Len(fs) \in Nat /\ gs[Len(fs) + 1] = fx
      /\ \A k \in 1 .. Len(fs) : gs[k] = fs[k]
  BY DEF FieldsFit
<1>4. FixupAt(c, Len(b) + 1, fx)
  OBVIOUS
<1> HIDE DEF c, gs
<1>5. ASSUME NEW k \in 1 .. Len(gs) PROVE \E j \in 1 .. Len(c) : FixupAt(c, j, gs[k])
  <2>1. CASE k = Len(fs) + 1
    BY <1>1, <1>3, <1>4, <2>1
  <2>2. CASE k \in 1 .. Len(fs)
    <3>1. PICK j \in 1 .. Len(b) : FixupAt(b, j, fs[k])
      BY <2>2 DEF FieldsFit
    <3> QED BY <1>2, <1>3, <2>2, <3>1
  <2>3. k = Len(fs) + 1 \/ k \in 1 .. Len(fs)
    BY <1>3
  <2> QED BY <2>1, <2>2, <2>3
<1>6. ASSUME NEW j \in 1 .. Len(c), FieldAt(c, j) PROVE \E k \in 1 .. Len(gs) : FixupAt(c, j, gs[k])
  <2>1. CASE j = Len(b) + 1
    <3>1. Len(fs) + 1 \in 1 .. Len(gs)
      BY <1>3
    <3> QED BY <1>3, <1>4, <2>1, <3>1
  <2>2. CASE j \in 1 .. Len(b)
    <3>1. PICK k \in 1 .. Len(fs) : FixupAt(b, j, fs[k])
      BY <1>2, <1>6, <2>2 DEF FieldsFit
    <3>2. k \in 1 .. Len(gs)
      BY <1>3
    <3> QED BY <1>2, <1>3, <2>2, <3>1, <3>2
  <2>3. j = Len(b) + 1 \/ j \in 1 .. Len(b)
    BY <1>1
  <2> QED BY <2>1, <2>2, <2>3
<1> QED BY <1>3, <1>5, <1>6 DEF FieldsFit, c, gs

-----------------------------------------------------------------------------
(* What the actions emit *)

Fit == EmittedFit(buf, labels, marks, relaxes, fixups)

(* The pieces are pieces.                                                   *)
LEMMA PiecesMade ==
  /\ \A n \in Nat : Code(n) \in Piece /\ Code(n).kind = "code" /\ Code(n).len = n
  /\ \A l \in Label : /\ Branch(l) \in Piece /\ Branch(l).kind = "branch"
                      /\ Branch(l).len = LongLen(l) /\ Branch(l).label = l
                      /\ Pcrel(l) \in Piece /\ Pcrel(l).kind = "pcrel"
                      /\ Pcrel(l).len = FieldLen /\ Pcrel(l).label = l
  /\ \A place \in Nat \X Nat : /\ Absolute(place) \in Piece /\ Absolute(place).kind = "abs"
                               /\ Absolute(place).len = FieldLen
  BY LengthAssumption DEF Piece, Code, Branch, Pcrel, Absolute

(* The offset is where the last piece ends.                                  *)
LEMMA OffsetTyped ==
  ASSUME buf \in Seq(Piece)
  PROVE  Offset \in Nat /\ Offset = Ends(buf)[Len(buf)] /\ Len(buf) \in Nat
<1>1. Len(buf) \in Nat /\ Len(buf) \in 0 .. Len(buf)
  OBVIOUS
<1> QED BY <1>1, EndsStep DEF Offset, Size

(* Each operation keeps what is recorded where it was emitted: plain code,   *)
LEMMA BytesFit ==
  ASSUME Fit, NEW n \in CodeLen, Bytes(n)
  PROVE  Fit'
<1>1. Code(n) \in Piece /\ Code(n).kind = "code"
  BY PiecesMade, LengthAssumption
<1>2. EmittedFit(Append(buf, Code(n)), labels, marks, relaxes, fixups)
  BY <1>1, AppendedPiece, LabelsKept, BranchesKept, FieldsKept DEF Fit, EmittedFit
<1> QED BY <1>2 DEF Bytes, Fit

(* binding a label,                                                          *)
LEMMA BindLabelFit ==
  ASSUME Fit, NEW l \in Label, BindLabel(l)
  PROVE  Fit'
<1> DEFINE place == <<Len(buf) + 1, 0>>
<1>1. buf \in Seq(Piece)
  BY DEF Fit, EmittedFit
<1>2. Offset \in Nat /\ Offset = Ends(buf)[Len(buf)] /\ Len(buf) \in Nat
  BY <1>1, OffsetTyped
<1>3. PlaceIn(buf, place)
  BY <1>2 DEF PlaceIn
<1>4. Offset = OffsetOf(buf, place)
  BY <1>2 DEF OffsetOf
<1>5. LabelsFit(buf, [labels EXCEPT ![l] = Offset], [marks EXCEPT ![l] = place])
  <2> HIDE DEF place
  <2> QED BY <1>1, <1>3, <1>4, LabelPlaced DEF Fit, EmittedFit
<1> QED BY <1>5 DEF BindLabel, Fit, EmittedFit

(* a branch,                                                                 *)
LEMMA EmitBranchFit ==
  ASSUME Fit, NEW l \in Label, EmitBranch(l)
  PROVE  Fit'
<1> DEFINE x == Branch(l)
           r == [at |-> Offset, len |-> LongLen(l), label |-> l]
<1>1. buf \in Seq(Piece)
  BY DEF Fit, EmittedFit
<1>2. x \in Piece /\ x.kind = "branch" /\ x.len = LongLen(l) /\ x.label = l
  BY PiecesMade
<1>3. r = [at |-> Ends(buf)[Len(buf)], len |-> x.len, label |-> x.label]
  BY <1>1, <1>2, OffsetTyped
<1> HIDE DEF x, r
<1>4. BranchesFit(Append(buf, x), Append(relaxes, r))
  BY <1>1, <1>2, <1>3, BranchesGrown DEF Fit, EmittedFit
<1>5. /\ Append(buf, x) \in Seq(Piece) /\ LabelsFit(Append(buf, x), labels, marks)
      /\ FieldsFit(Append(buf, x), fixups)
  BY <1>1, <1>2, AppendedPiece, LabelsKept, FieldsKept DEF Fit, EmittedFit
<1>6. buf' = Append(buf, x) /\ relaxes' = Append(relaxes, r) /\ UNCHANGED <<labels, marks, fixups>>
  BY DEF EmitBranch, x, r
<1> QED BY <1>4, <1>5, <1>6 DEF Fit, EmittedFit

(* a reference to a label,                                                   *)
LEMMA ReferenceFit ==
  ASSUME Fit, NEW l \in Label, Reference(l)
  PROVE  Fit'
<1> DEFINE x == Pcrel(l)
           fx == ToLabel(Offset, l)
<1>1. buf \in Seq(Piece)
  BY DEF Fit, EmittedFit
<1>2. x \in Piece /\ x.kind = "pcrel" /\ x.label = l
  BY PiecesMade
<1>3. Offset \in Nat /\ Offset = Ends(buf)[Len(buf)] /\ Len(buf) \in Nat
  BY <1>1, OffsetTyped
<1>4. fx \in LabelFixup
  BY <1>3 DEF ToLabel, LabelFixup
<1> HIDE DEF x
<1>5. Append(buf, x)[Len(buf) + 1] = x
  BY <1>1, <1>2, AppendedPiece
<1>6. Ends(Append(buf, x))[(Len(buf) + 1) - 1] = Offset
  <2>1. (Len(buf) + 1) - 1 = Len(buf) /\ Len(buf) \in 0 .. Len(buf)
    BY <1>3
  <2> QED BY <1>1, <1>2, <1>3, <2>1, EndsAppended
<1>7. FixupAt(Append(buf, x), Len(buf) + 1, fx)
  BY <1>2, <1>5, <1>6 DEF FixupAt, FieldAt
<1> HIDE DEF fx
<1>8. FieldsFit(Append(buf, x), Append(fixups, fx))
  BY <1>1, <1>2, <1>4, <1>7, FieldsGrown DEF Fit, EmittedFit
<1>9. /\ Append(buf, x) \in Seq(Piece) /\ LabelsFit(Append(buf, x), labels, marks)
      /\ BranchesFit(Append(buf, x), relaxes)
  BY <1>1, <1>2, AppendedPiece, LabelsKept, BranchesKept DEF Fit, EmittedFit
<1>10. buf' = Append(buf, x) /\ fixups' = Append(fixups, fx) /\ UNCHANGED <<labels, marks, relaxes>>
  BY DEF Reference, x, fx
<1> QED BY <1>8, <1>9, <1>10 DEF Fit, EmittedFit

(* A fragment: code, a field and code.                                      *)
LEMMA FragmentFit ==
  ASSUME Fit, NEW before \in Nat, NEW after \in Nat, NEW x \in Piece, x.kind \in {"pcrel", "abs"},
         NEW fx \in LabelFixup \union FunctionFixup,
         \/ x.kind = "pcrel" /\ fx = ToLabel(Offset + before, x.label)
         \/ x.kind = "abs" /\ \E a \in Nat : fx = ToFunction(Offset + before, a)
  PROVE  LET c == buf \o <<Code(before), x, Code(after)>>
         IN  /\ EmittedFit(c, labels, marks, relaxes, Append(fixups, fx))
             /\ Len(c) = Len(buf) + 3 /\ c[Len(buf) + 1] = Code(before)
             /\ c[Len(buf) + 2] = x /\ c[Len(buf) + 3] = Code(after)
             /\ Ends(c)[Len(buf)] = Offset /\ Ends(c)[Len(buf) + 1] = Offset + before
             /\ Ends(c)[Len(buf) + 2] = Offset + before + x.len
<1> DEFINE n == Len(buf)
           y == Code(before)
           z == Code(after)
           c1 == Append(buf, y)
           c2 == Append(c1, x)
           c3 == Append(c2, z)
<1>1. /\ buf \in Seq(Piece) /\ LabelsFit(buf, labels, marks)
      /\ BranchesFit(buf, relaxes) /\ FieldsFit(buf, fixups)
  BY DEF Fit, EmittedFit
<1>2. Offset \in Nat /\ Offset = Ends(buf)[n] /\ n \in Nat
  BY <1>1, OffsetTyped
<1>3. y \in Piece /\ y.kind = "code" /\ y.len = before /\ z \in Piece /\ z.kind = "code" /\ z.len = after
  BY PiecesMade
<1> HIDE DEF y, z
<1>4. buf \o <<y, x, z>> = c3
  BY <1>1, <1>3
<1>5. /\ c3[n + 1] = y /\ c3[n + 2] = x /\ c3[n + 3] = z /\ Len(c3) = n + 3
      /\ Len(c1) = n + 1 /\ Len(c2) = n + 2
  BY <1>1, <1>2, <1>3
<1>6. c1 \in Seq(Piece) /\ c2 \in Seq(Piece) /\ c3 \in Seq(Piece)
  BY <1>1, <1>3
<1> HIDE DEF n, c1, c2, c3
<1>7. LabelsFit(c1, labels, marks) /\ BranchesFit(c1, relaxes) /\ FieldsFit(c1, fixups)
  BY <1>1, <1>3, LabelsKept, BranchesKept, FieldsKept DEF c1
<1>8. LabelsFit(c2, labels, marks) /\ BranchesFit(c2, relaxes)
  BY <1>6, <1>7, LabelsKept, BranchesKept DEF c2
<1>9. /\ Ends(c1)[n] = Offset /\ Ends(c1)[n + 1] = Offset + before
  <2>1. n \in 0 .. n
    BY <1>2
  <2> QED BY <1>1, <1>2, <1>3, <2>1, EndsAppended DEF c1, n
<1>10. /\ Ends(c2)[n] = Offset /\ Ends(c2)[n + 1] = Offset + before
       /\ Ends(c2)[n + 2] = Offset + before + x.len
  <2>1. n \in 0 .. Len(c1) /\ n + 1 \in 0 .. Len(c1) /\ Len(c1) = n + 1 /\ Len(c1) + 1 = n + 2
    BY <1>2, <1>5
  <2>2. /\ \A j \in 0 .. Len(c1) : Ends(c2)[j] = Ends(c1)[j]
        /\ Ends(c2)[Len(c1) + 1] = Ends(c1)[Len(c1)] + x.len
    BY <1>6, EndsAppended DEF c2
  <2> QED BY <1>9, <2>1, <2>2
<1>11. FieldsFit(c2, Append(fixups, fx))
  <2>1. c2[n + 2] = x /\ (n + 2) - 1 = n + 1 /\ Len(c1) + 1 = n + 2
    BY <1>2, <1>5, <1>6 DEF c2
  <2>2. FixupAt(c2, n + 2, fx)
    BY <1>10, <2>1 DEF FixupAt, FieldAt, AbsoluteAt
  <2>3. FixupAt(c2, Len(c1) + 1, fx)
    BY <2>1, <2>2
  <2> QED BY <1>6, <1>7, <2>3, FieldsGrown DEF c2
<1>12. LabelsFit(c3, labels, marks) /\ BranchesFit(c3, relaxes) /\ FieldsFit(c3, Append(fixups, fx))
  BY <1>3, <1>6, <1>8, <1>11, LabelsKept, BranchesKept, FieldsKept DEF c3
<1>13. /\ Ends(c3)[n] = Offset /\ Ends(c3)[n + 1] = Offset + before
       /\ Ends(c3)[n + 2] = Offset + before + x.len
  <2>1. n \in 0 .. Len(c2) /\ n + 1 \in 0 .. Len(c2) /\ n + 2 \in 0 .. Len(c2)
    BY <1>2, <1>5
  <2>2. \A j \in 0 .. Len(c2) : Ends(c3)[j] = Ends(c2)[j]
    BY <1>3, <1>6, EndsAppended DEF c3
  <2> QED BY <1>10, <2>1, <2>2
<1> QED BY <1>4, <1>5, <1>6, <1>12, <1>13 DEF EmittedFit, y, z, n

(* The last three of the pieces of c are a fragment, at offset o.           *)
Fragment(c, n, o, before, after) ==
  /\ c \in Seq(Piece) /\ Len(c) = n + 3
  /\ c[n + 1].len = before /\ c[n + 1].kind = "code"
  /\ c[n + 2].len = FieldLen /\ c[n + 2].kind \in {"pcrel", "abs"}
  /\ c[n + 3].len = after /\ c[n + 3].kind = "code"
  /\ Ends(c)[n] = o /\ Ends(c)[n + 1] = o + before /\ Ends(c)[n + 2] = o + before + FieldLen

(* The place meant by an offset of the fragment.                            *)
LEMMA FragmentPlaceFit ==
  ASSUME NEW c, Len(buf) \in Nat, Offset \in Nat, NEW before \in Nat, NEW after \in Nat,
         NEW off \in 0 .. (before + FieldLen + after), Fragment(c, Len(buf), Offset, before, after)
  PROVE  /\ PlaceIn(c, FragmentPlace(before, off))
         /\ OffsetOf(c, FragmentPlace(before, off)) = Offset + off
<1> DEFINE n == Len(buf)
           o == Offset
<1>6. n \in Nat /\ o \in Nat /\ n = Len(buf) /\ o = Offset /\ Fragment(c, n, o, before, after)
  OBVIOUS
<1> HIDE DEF n, o
<1>1. FieldLen = 4 /\ off \in Nat /\ off <= before + 4 + after
  BY DEF FieldLen
<1>5. /\ c \in Seq(Piece) /\ Len(c) = n + 3
      /\ c[n + 1].len = before /\ c[n + 1].kind = "code"
      /\ c[n + 2].len = FieldLen /\ c[n + 2].kind \in {"pcrel", "abs"}
      /\ c[n + 3].len = after /\ c[n + 3].kind = "code"
      /\ Ends(c)[n] = o /\ Ends(c)[n + 1] = o + before /\ Ends(c)[n + 2] = o + before + FieldLen
  BY <1>6 DEF Fragment
<1>2. CASE off < before
  <2>1. FragmentPlace(before, off) = <<n + 1, off>>
    BY <1>2, <1>6 DEF FragmentPlace
  <2>2. PlaceIn(c, <<n + 1, off>>)
    BY <1>1, <1>2, <1>5, <1>6 DEF PlaceIn, BranchAt
  <2>3. OffsetOf(c, <<n + 1, off>>) = o + off
    <3>1. (n + 1) - 1 = n
      BY <1>6
    <3> QED BY <1>5, <3>1 DEF OffsetOf
  <2> QED BY <1>6, <2>1, <2>2, <2>3
<1>3. CASE off \in before .. (before + FieldLen - 1)
  <2>1. FragmentPlace(before, off) = <<n + 2, off - before>>
    <3>1. ~(off < before)
      BY <1>1, <1>3
    <3>2. (n + 1) + 1 = n + 2
      BY <1>6
    <3> QED BY <1>3, <1>6, <3>1, <3>2 DEF FragmentPlace
  <2>2. off - before \in Nat /\ off - before <= FieldLen
    BY <1>1, <1>3
  <2>3. PlaceIn(c, <<n + 2, off - before>>)
    BY <1>5, <1>6, <2>2 DEF PlaceIn, BranchAt
  <2>4. OffsetOf(c, <<n + 2, off - before>>) = o + off
    <3>1. (n + 2) - 1 = n + 1 /\ (o + before) + (off - before) = o + off
      BY <1>1, <1>6
    <3> QED BY <1>5, <3>1 DEF OffsetOf
  <2> QED BY <1>6, <2>1, <2>3, <2>4
<1>4. CASE ~(off < before) /\ off \notin before .. (before + FieldLen - 1)
  <2>1. FragmentPlace(before, off) = <<n + 3, off - before - FieldLen>>
    <3>1. (n + 1) + 2 = n + 3
      BY <1>6
    <3> QED BY <1>4, <1>6, <3>1 DEF FragmentPlace
  <2>2. off - before - FieldLen \in Nat /\ off - before - FieldLen <= after
    BY <1>1, <1>4
  <2>3. PlaceIn(c, <<n + 3, off - before - FieldLen>>)
    BY <1>5, <1>6, <2>2 DEF PlaceIn, BranchAt
  <2>4. OffsetOf(c, <<n + 3, off - before - FieldLen>>) = o + off
    <3>1. (n + 3) - 1 = n + 2 /\ (o + before + FieldLen) + (off - before - FieldLen) = o + off
      BY <1>1, <1>6
    <3> QED BY <1>5, <3>1 DEF OffsetOf
  <2> QED BY <1>6, <2>1, <2>3, <2>4
<1> QED BY <1>2, <1>3, <1>4

(* and a fragment spliced in.                                                *)
LEMMA SpliceFit ==
  ASSUME Fit, NEW before \in Nat, NEW after \in Nat, NEW off, Splice(before, after, off)
  PROVE  Fit'
<1> DEFINE at == Offset + before
           place == FragmentPlace(before, off)
           c(x) == buf \o <<Code(before), x, Code(after)>>
<1>1. buf \in Seq(Piece) /\ off \in 0 .. (before + FieldLen + after) /\ off \in Nat
  BY DEF Fit, EmittedFit, Splice, FieldLen
<1>2. Offset \in Nat /\ Len(buf) \in Nat
  BY <1>1, OffsetTyped
<1>3. at \in Nat /\ Offset + off \in Nat
  BY <1>1, <1>2
<1>4. ASSUME NEW x \in Piece, x.kind \in {"pcrel", "abs"},
             NEW fx \in LabelFixup \union FunctionFixup,
             \/ x.kind = "pcrel" /\ fx = ToLabel(at, x.label)
             \/ x.kind = "abs" /\ \E a \in Nat : fx = ToFunction(at, a)
      PROVE  /\ EmittedFit(c(x), labels, marks, relaxes, Append(fixups, fx))
             /\ PlaceIn(c(x), place) /\ OffsetOf(c(x), place) = Offset + off
  <2>1. /\ EmittedFit(c(x), labels, marks, relaxes, Append(fixups, fx))
        /\ Len(c(x)) = Len(buf) + 3 /\ c(x)[Len(buf) + 1] = Code(before)
        /\ c(x)[Len(buf) + 2] = x /\ c(x)[Len(buf) + 3] = Code(after)
        /\ Ends(c(x))[Len(buf)] = Offset /\ Ends(c(x))[Len(buf) + 1] = Offset + before
        /\ Ends(c(x))[Len(buf) + 2] = Offset + before + x.len
    BY <1>4, FragmentFit
  <2>2. c(x) \in Seq(Piece)
    BY <2>1 DEF EmittedFit
  <2>3. /\ Code(before).kind = "code" /\ Code(before).len = before
        /\ Code(after).kind = "code" /\ Code(after).len = after /\ x.len = FieldLen
    BY <1>4, PiecesMade DEF Piece
  <2> DEFINE d == c(x)
  <2>4. Fragment(d, Len(buf), Offset, before, after)
    <3> HIDE DEF c
    <3> QED BY <1>4, <2>1, <2>2, <2>3 DEF Fragment
  <2> HIDE DEF d
  <2>5. /\ PlaceIn(d, FragmentPlace(before, off))
        /\ OffsetOf(d, FragmentPlace(before, off)) = Offset + off
    BY <1>1, <1>2, <2>4, FragmentPlaceFit
  <2> QED BY <2>1, <2>5 DEF d
<1>5. CASE /\ labels' = [labels EXCEPT ![FragmentLabel] = Offset + off]
           /\ marks' = [marks EXCEPT ![FragmentLabel] = place]
           /\ buf' = c(Pcrel(FragmentLabel))
           /\ fixups' = Append(fixups, ToLabel(at, FragmentLabel))
  <2> DEFINE x == Pcrel(FragmentLabel)
             fx == ToLabel(at, FragmentLabel)
  <2>1. x \in Piece /\ x.kind = "pcrel" /\ x.label = FragmentLabel
    BY PiecesMade, LabelAssumption
  <2>2. fx \in LabelFixup
    BY <1>3, LabelAssumption DEF ToLabel, LabelFixup
  <2>3. /\ EmittedFit(c(x), labels, marks, relaxes, Append(fixups, fx))
        /\ PlaceIn(c(x), place) /\ OffsetOf(c(x), place) = Offset + off
    <3> HIDE DEF c, place
    <3> QED BY <1>4, <2>1, <2>2
  <2>4. relaxes' = relaxes
    BY DEF Splice
  <2> HIDE DEF c, place, x, fx
  <2>5. LabelsFit(c(x), [labels EXCEPT ![FragmentLabel] = Offset + off],
                  [marks EXCEPT ![FragmentLabel] = place])
    BY <2>3, LabelPlaced, LabelAssumption DEF EmittedFit
  <2>6. EmittedFit(c(x), labels', marks', relaxes', Append(fixups, fx))
    BY <1>5, <2>3, <2>4, <2>5 DEF EmittedFit
  <2> QED BY <1>5, <2>6 DEF Fit, x, fx
<1>6. CASE /\ buf' = c(Absolute(place))
           /\ fixups' = Append(fixups, ToFunction(at, Offset + off))
           /\ UNCHANGED <<labels, marks>>
  <2> DEFINE x == Absolute(place)
             fx == ToFunction(at, Offset + off)
  <2>1. place \in Nat \X Nat
    <3>1. /\ off < before => place = <<Len(buf) + 1, off>>
          /\ ~(off < before) /\ off \in before .. (before + FieldLen - 1) =>
               place = <<Len(buf) + 1 + 1, off - before>>
          /\ ~(off < before) /\ off \notin before .. (before + FieldLen - 1) =>
               place = <<Len(buf) + 1 + 2, off - before - FieldLen>>
      BY DEF FragmentPlace
    <3>2. ~(off < before) => off - before \in Nat
      BY <1>1
    <3>3. ~(off < before) /\ off \notin before .. (before + FieldLen - 1) => off - before - FieldLen \in Nat
      BY <1>1 DEF FieldLen
    <3> HIDE DEF place
    <3> QED BY <1>1, <1>2, <3>1, <3>2, <3>3
  <2>2. x \in Piece /\ x.kind = "abs"
    <3> HIDE DEF place
    <3> QED BY <2>1, PiecesMade
  <2>3. fx \in FunctionFixup
    BY <1>3 DEF ToFunction, FunctionFixup
  <2>4. EmittedFit(c(x), labels, marks, relaxes, Append(fixups, fx))
    <3> HIDE DEF c, place
    <3> QED BY <1>3, <1>4, <2>2, <2>3
  <2>5. relaxes' = relaxes
    BY DEF Splice
  <2> HIDE DEF c, place, x, fx
  <2>6. EmittedFit(c(x), labels', marks', relaxes', Append(fixups, fx))
    BY <1>6, <2>4, <2>5
  <2> QED BY <1>6, <2>6 DEF Fit, x, fx
<1> QED BY <1>5, <1>6 DEF Splice

-----------------------------------------------------------------------------
(* Layouts *)

(* The pieces of the branches grown.                                        *)
Grown == {j \in 1 .. Len(buf) : BranchAt(buf, j) /\ Rank(buf, j) \in long}

LenIn(S, k) == IF BranchAt(buf, k) /\ k \notin S THEN ShortLen ELSE buf[k].len

(* In a layout, too, a piece starts where the one before it ends.           *)
LEMMA StartStep ==
  ASSUME buf \in Seq(Piece), NEW S
  PROVE  /\ Promise!Start(S, 1) = 0
         /\ \A j \in 1 .. (Len(buf) + 1) : Promise!Start(S, j) \in Nat
         /\ \A j \in 1 .. Len(buf) : Promise!Start(S, j + 1) = Promise!Start(S, j) + LenIn(S, j)
         /\ \A j \in 1 .. Len(buf) : LenIn(S, j) \in Nat
<1> DEFINE n == Len(buf)
           f == [k \in DOMAIN buf |-> Promise!LengthIn(S, k)]
<1>1. /\ DOMAIN buf = 1 .. n /\ n \in Nat /\ \A j \in 1 .. n : buf[j] \in Piece
  OBVIOUS
<1>2. \A j \in 1 .. n : Promise!LengthIn(S, j) = LenIn(S, j) /\ LenIn(S, j) \in Nat
  BY <1>1, PieceLength DEF Promise!LengthIn, Promise!Branches, LenIn, BranchAt, Promise!ShortLen, ShortLen
<1>3. f \in [1 .. n -> Nat] /\ \A j \in 1 .. n : f[j] = LenIn(S, j)
  BY <1>1, <1>2
<1>4. \A j : Promise!Start(S, j) = Sums(f, n)[j - 1]
  BY DEF Promise!Start, Promise!Sums, Sums
<1> HIDE DEF f, n
<1>5. /\ \A k \in 0 .. n : Sums(f, n)[k] \in Nat
      /\ Sums(f, n)[0] = 0
      /\ \A k \in 1 .. n : Sums(f, n)[k] = Sums(f, n)[k - 1] + f[k]
  <2>1. f \in [1 .. n -> Int]
    BY <1>3
  <2> QED BY <1>1, <1>3, <2>1, SumsStep, SumsRise
<1>6. ASSUME NEW j \in 1 .. (n + 1) PROVE Promise!Start(S, j) \in Nat
  <2>1. j - 1 \in 0 .. n
    BY <1>1
  <2> QED BY <1>4, <1>5, <2>1
<1>7. ASSUME NEW j \in 1 .. n PROVE Promise!Start(S, j + 1) = Promise!Start(S, j) + LenIn(S, j)
  <2>1. (j + 1) - 1 = j
    BY <1>1
  <2> QED BY <1>3, <1>4, <1>5, <2>1
<1>8. Promise!Start(S, 1) = 0
  <2>1. 1 - 1 = 0
    OBVIOUS
  <2> QED BY <1>4, <1>5, <2>1
<1> QED BY <1>2, <1>6, <1>7, <1>8 DEF n

(* A branch counts at a place if it is before it.                           *)
LEMMA RankOrder ==
  ASSUME NEW b, NEW j \in Nat, j # 0, BranchAt(b, j), NEW m \in Nat
  PROVE  /\ Rank(b, j) = Rank(b, j - 1) + 1 /\ Rank(b, j - 1) \in Nat /\ Rank(b, j) \in Nat \ {0}
         /\ Rank(b, j) <= Rank(b, m) <=> j <= m
<1>1. j - 1 \in Nat /\ (j - 1) + 1 = j
  OBVIOUS
<1>2. Rank(b, j) = Rank(b, j - 1) + 1 /\ Rank(b, j - 1) \in Nat /\ Rank(b, m) \in Nat
  BY <1>1, RankStep
<1>3. j <= m => Rank(b, j) <= Rank(b, m)
  BY RankRises
<1>4. ~(j <= m) => Rank(b, m) <= Rank(b, j - 1)
  <2>1. ~(j <= m) => m <= j - 1
    BY <1>1
  <2> QED BY <1>1, <2>1, RankRises
<1> QED BY <1>2, <1>3, <1>4

Recording == buf \in Seq(Piece) /\ BranchesFit(buf, relaxes)

(* What is recorded of a branch.                                             *)
LEMMA RecordedRange ==
  ASSUME Recording, NEW j \in 1 .. Len(buf), BranchAt(buf, j)
  PROVE  /\ Rank(buf, j) \in 1 .. Len(relaxes) /\ Rank(buf, j) = Rank(buf, j - 1) + 1
         /\ relaxes[Rank(buf, j)].at = Ends(buf)[j - 1]
         /\ relaxes[Rank(buf, j)].len = buf[j].len
         /\ relaxes[Rank(buf, j)].label = buf[j].label
<1>1. Len(buf) \in Nat /\ j \in Nat /\ j # 0 /\ j <= Len(buf)
  BY DEF Recording
<1>2. /\ Rank(buf, j) = Rank(buf, j - 1) + 1 /\ Rank(buf, j) \in Nat \ {0}
      /\ Rank(buf, j) <= Rank(buf, Len(buf)) <=> j <= Len(buf)
  BY <1>1, RankOrder
<1>3. Rank(buf, Len(buf)) = Len(relaxes) /\ Len(relaxes) \in Nat
  BY DEF Recording, BranchesFit
<1>4. Rank(buf, j) \in 1 .. Len(relaxes)
  BY <1>1, <1>2, <1>3
<1>5. relaxes[Rank(buf, j)] = [at |-> Ends(buf)[j - 1], len |-> buf[j].len, label |-> buf[j].label]
  BY DEF Recording, BranchesFit
<1> HIDE DEF Recording
<1> QED BY <1>2, <1>4, <1>5

(* What the branches up to a piece save is what the layout saves.           *)
LEMMA ShrinkStep ==
  ASSUME Recording
  PROVE  /\ Shrink[0] = 0
         /\ \A i \in 0 .. Len(relaxes) : Shrink[i] \in Int
         /\ \A j \in 1 .. Len(buf) :
              Shrink[Rank(buf, j)] = Shrink[Rank(buf, j - 1)] + (buf[j].len - LenIn(Grown, j))
<1> DEFINE m == Len(relaxes)
           f == [i \in DOMAIN relaxes |-> Saving(i)]
<1>1. /\ DOMAIN relaxes = 1 .. m /\ m \in Nat
      /\ \A i \in 1 .. m : relaxes[i] \in [at : Nat, len : Nat, label : Label]
  <2> DEFINE S == [at : Nat, len : Nat, label : Label]
  <2>1. relaxes \in Seq(S)
    BY DEF Recording, BranchesFit
  <2>2. DOMAIN relaxes = 1 .. m /\ m \in Nat /\ \A i \in 1 .. m : relaxes[i] \in S
    <3> HIDE DEF S
    <3> QED BY <2>1
  <2> HIDE DEF Recording, m
  <2> QED BY <2>2
<1>2. f \in [1 .. m -> Int] /\ \A i \in 1 .. m : f[i] = Saving(i)
  BY <1>1 DEF Saving, ShortLen
<1>3. Shrink = Sums(f, m)
  BY DEF Shrink
<1> HIDE DEF f, m
<1>4. /\ \A i \in 0 .. m : Shrink[i] \in Int
      /\ Shrink[0] = 0
      /\ \A i \in 1 .. m : Shrink[i] = Shrink[i - 1] + Saving(i)
  BY <1>1, <1>2, <1>3, SumsStep
<1>5. ASSUME NEW j \in 1 .. Len(buf), BranchAt(buf, j)
      PROVE  Shrink[Rank(buf, j)] = Shrink[Rank(buf, j - 1)] + (buf[j].len - LenIn(Grown, j))
  <2> DEFINE r == Rank(buf, j)
             q == Rank(buf, j - 1)
  <2>1. r \in 1 .. m /\ r = q + 1 /\ relaxes[r].len = buf[j].len
    BY <1>5, RecordedRange DEF m
  <2>2. j \in Grown <=> r \in long
    BY <1>5 DEF Grown
  <2>3. q \in Nat
    <3>1. j - 1 \in Nat
      BY <1>5
    <3> QED BY <3>1, RankStep
  <2> HIDE DEF r, q
  <2>4. r - 1 = q
    BY <2>1, <2>3
  <2>5. buf[j].len \in Nat
    BY <1>5, PieceLength DEF Recording
  <2>6. Saving(r) = buf[j].len - LenIn(Grown, j)
    BY <1>5, <2>1, <2>2, <2>5 DEF Saving, LenIn
  <2>7. Shrink[r] = Shrink[r - 1] + Saving(r)
    BY <1>4, <2>1
  <2> QED BY <2>4, <2>6, <2>7 DEF r, q
<1>6. ASSUME NEW j \in 1 .. Len(buf), ~BranchAt(buf, j)
      PROVE  Shrink[Rank(buf, j)] = Shrink[Rank(buf, j - 1)] + (buf[j].len - LenIn(Grown, j))
  <2>1. j - 1 \in Nat /\ (j - 1) + 1 = j
    BY <1>6
  <2>2. Rank(buf, j) = Rank(buf, j - 1)
    BY <1>6, <2>1, RankStep
  <2>3. buf[j].len \in Nat /\ LenIn(Grown, j) = buf[j].len
    BY <1>6, PieceLength DEF Recording, LenIn
  <2>4. Rank(buf, j - 1) \in 0 .. m
    <3>1. Rank(buf, Len(buf)) = m /\ Len(buf) \in Nat /\ j - 1 <= Len(buf)
      BY <1>6 DEF Recording, BranchesFit, m
    <3>2. Rank(buf, j - 1) <= Rank(buf, Len(buf)) /\ Rank(buf, j - 1) \in Nat
      BY <2>1, <3>1, RankRises, RankStep
    <3> QED BY <1>1, <3>1, <3>2
  <2>5. Shrink[Rank(buf, j - 1)] \in Int
    BY <1>4, <2>4
  <2> QED BY <2>2, <2>3, <2>5
<1> QED BY <1>4, <1>5, <1>6 DEF m

(* What the branches up to a piece save is how far its end moves.            *)
LEMMA ShrinkIs ==
  ASSUME Recording
  PROVE  \A j \in 0 .. Len(buf) :
           Shrink[Rank(buf, j)] = Ends(buf)[j] - Promise!Start(Grown, j + 1)
<1> DEFINE n == Len(buf)
           s(j) == Shrink[Rank(buf, j)]
           e(j) == Ends(buf)[j]
           p(j) == Promise!Start(Grown, j)
           U == {j \in Nat : j <= n => s(j) = e(j) - p(j + 1)}
<1>1. buf \in Seq(Piece) /\ n \in Nat
  BY DEF Recording
<1>2. s(0) = 0 /\ \A j \in 1 .. n : s(j) = s(j - 1) + (buf[j].len - LenIn(Grown, j))
  BY <1>1, RankStep, ShrinkStep
<1>3. e(0) = 0 /\ \A j \in 0 .. n : e(j) \in Nat
  BY <1>1, EndsStep
<1>4. \A j \in 1 .. n : e(j) = e(j - 1) + buf[j].len
  BY <1>1, EndsStep
<1>5. p(1) = 0 /\ \A j \in 1 .. (n + 1) : p(j) \in Nat
  BY <1>1, StartStep
<1>6. \A j \in 1 .. n : p(j + 1) = p(j) + LenIn(Grown, j) /\ LenIn(Grown, j) \in Nat
  BY <1>1, StartStep
<1>7. \A j \in 1 .. n : buf[j].len \in Nat
  BY <1>1, PieceLength
<1> HIDE DEF s, e, p, n
<1>8. 0 \in U
  <2>1. 0 + 1 = 1
    OBVIOUS
  <2> QED BY <1>2, <1>3, <1>5, <2>1
<1>9. ASSUME NEW j \in Nat, j \in U PROVE j + 1 \in U
  <2> SUFFICES ASSUME j + 1 <= n PROVE s(j + 1) = e(j + 1) - p((j + 1) + 1)
    OBVIOUS
  <2> DEFINE k == j + 1
  <2>1. k \in 1 .. n /\ k - 1 = j /\ j + 1 = k /\ j \in 0 .. n /\ k \in 1 .. (n + 1)
    BY <1>1
  <2>2. s(j) = e(j) - p(k)
    BY <1>1, <1>9
  <2> HIDE DEF k
  <2>3. s(k) = s(j) + (buf[k].len - LenIn(Grown, k)) /\ e(k) = e(j) + buf[k].len
    BY <1>2, <1>4, <2>1
  <2>4. p(k + 1) = p(k) + LenIn(Grown, k) /\ LenIn(Grown, k) \in Nat /\ buf[k].len \in Nat
    BY <1>6, <1>7, <2>1
  <2>5. e(j) \in Nat /\ p(k) \in Nat
    BY <1>3, <1>5, <2>1
  <2>6. s(k) = e(k) - p(k + 1)
    BY <2>2, <2>3, <2>4, <2>5
  <2> QED BY <2>6 DEF k
<1>10. Nat \subseteq U
  <2> HIDE DEF U
  <2> QED BY <1>8, <1>9, NatsIn
<1>11. \A j \in 0 .. n : s(j) = e(j) - p(j + 1)
  BY <1>1, <1>10
<1> QED BY <1>11 DEF s, e, p, n

(* The branches recorded before a place are those of the pieces before it.  *)
LEMMA EarlierBranches ==
  ASSUME Recording, NEW place, PlaceIn(buf, place)
  PROVE  {i \in DOMAIN relaxes : relaxes[i].at < OffsetOf(buf, place)} = 1 .. Rank(buf, place[1] - 1)
<1> DEFINE n == Len(buf)
           m == place[1] - 1
           d == place[2]
           p == OffsetOf(buf, place)
<1>1. /\ buf \in Seq(Piece) /\ n \in Nat /\ m \in 0 .. n /\ m \in Nat /\ d \in Nat
      /\ place[1] = m + 1 /\ p = Ends(buf)[m] + d
  BY DEF Recording, PlaceIn, OffsetOf
<1>2. d # 0 => m + 1 \in 1 .. n /\ ~BranchAt(buf, m + 1) /\ d <= buf[m + 1].len
  BY <1>1 DEF PlaceIn
<1> HIDE DEF n, m, d, p
<1>3. /\ \A j \in 0 .. n : Ends(buf)[j] \in Nat
      /\ \A j \in 1 .. n : Ends(buf)[j] = Ends(buf)[j - 1] + buf[j].len
      /\ \A i \in 0 .. n : \A j \in i .. n : Ends(buf)[i] <= Ends(buf)[j]
  BY <1>1, EndsStep DEF n
<1>4. ASSUME NEW j \in 1 .. n, BranchAt(buf, j)
      PROVE  Ends(buf)[j - 1] < p <=> j <= m
  <2>1. j - 1 \in 0 .. n /\ j \in 0 .. n
    BY <1>1
  <2>2. /\ Ends(buf)[j] = Ends(buf)[j - 1] + buf[j].len /\ buf[j].len \in Nat /\ buf[j].len > 0
        /\ Ends(buf)[j] \in Nat /\ Ends(buf)[j - 1] \in Nat /\ Ends(buf)[m] \in Nat
    <3>1. buf[j].len \in Nat /\ buf[j].len > 0
      BY <1>1, <1>4, PieceLength DEF BranchAt, ShortLen, n
    <3> QED BY <1>1, <1>3, <2>1, <3>1
  <2>3. CASE j <= m
    <3>1. m \in j .. n
      BY <1>1, <2>3
    <3>2. Ends(buf)[j] <= Ends(buf)[m]
      BY <1>3, <2>1, <3>1
    <3> QED BY <1>1, <2>2, <2>3, <3>2
  <2>4. CASE ~(j <= m) /\ d = 0
    <3>1. j - 1 \in m .. n
      BY <1>1, <2>4
    <3>2. Ends(buf)[m] <= Ends(buf)[j - 1]
      BY <1>1, <1>3, <3>1
    <3> QED BY <1>1, <2>2, <2>4, <3>2
  <2>5. CASE ~(j <= m) /\ d # 0
    <3>1. m + 1 \in 1 .. n /\ d <= buf[m + 1].len /\ m + 1 # j
      BY <1>2, <1>4, <2>5
    <3>2. m + 1 \in 0 .. n /\ j - 1 \in (m + 1) .. n /\ (m + 1) - 1 = m
      BY <1>1, <2>5, <3>1
    <3>3. Ends(buf)[m + 1] <= Ends(buf)[j - 1]
      BY <1>3, <3>2
    <3>4. Ends(buf)[m + 1] = Ends(buf)[m] + buf[m + 1].len /\ Ends(buf)[m + 1] \in Nat
      BY <1>3, <3>1, <3>2
    <3>5. buf[m + 1].len \in Nat
      BY <1>1, <3>1, PieceLength DEF n
    <3>6. p = Ends(buf)[m] + d /\ d \in Nat /\ Ends(buf)[m] \in Nat /\ Ends(buf)[j - 1] \in Nat
      BY <1>1, <2>2
    <3>7. p <= Ends(buf)[m + 1]
      BY <3>1, <3>4, <3>5, <3>6
    <3>8. ~(Ends(buf)[j - 1] < p)
      BY <3>3, <3>4, <3>6, <3>7
    <3> QED BY <2>5, <3>8
  <2> QED BY <2>3, <2>4, <2>5
<1>5. ASSUME NEW i \in 1 .. Len(relaxes)
      PROVE  relaxes[i].at < p <=> i \in 1 .. Rank(buf, m)
  <2>1. PICK j \in 1 .. n : BranchAt(buf, j) /\ Rank(buf, j) = i
    BY DEF Recording, BranchesFit, n
  <2>2. relaxes[i].at = Ends(buf)[j - 1]
    BY <2>1, RecordedRange DEF n
  <2>3. j \in Nat /\ j # 0
    BY <1>1
  <2>4. Rank(buf, j) <= Rank(buf, m) <=> j <= m
    BY <1>1, <2>1, <2>3, RankOrder
  <2>5. Rank(buf, m) \in Nat
    BY <1>1, RankStep
  <2> QED BY <1>4, <2>1, <2>2, <2>4, <2>5
<1>6. Rank(buf, m) \in 0 .. Len(relaxes) /\ DOMAIN relaxes = 1 .. Len(relaxes)
  <2>1. Rank(buf, n) = Len(relaxes) /\ DOMAIN relaxes = 1 .. Len(relaxes) /\ Len(relaxes) \in Nat
    BY DEF Recording, BranchesFit, n
  <2>2. Rank(buf, m) <= Rank(buf, n) /\ Rank(buf, m) \in Nat
    BY <1>1, RankRises, RankStep
  <2> QED BY <2>1, <2>2
<1>7. \A i \in 1 .. Rank(buf, m) : i \in 1 .. Len(relaxes)
  BY <1>6
<1>8. {i \in DOMAIN relaxes : relaxes[i].at < p} = 1 .. Rank(buf, m)
  BY <1>5, <1>6, <1>7
<1> QED BY <1>8 DEF p, m

(* Offsets move to the positions of the layout in which the branches grown  *)
(* are long.                                                                *)
LEMMA MovedIs ==
  ASSUME Recording, NEW place, PlaceIn(buf, place)
  PROVE  /\ Moved(OffsetOf(buf, place)) = Promise!Position(Grown, place)
         /\ Promise!Position(Grown, place) \in Nat
<1> DEFINE m == place[1] - 1
           p == OffsetOf(buf, place)
           r == Rank(buf, m)
<1>1. /\ buf \in Seq(Piece) /\ m \in 0 .. Len(buf) /\ m \in Nat /\ place[2] \in Nat
      /\ place[1] = m + 1 /\ p = Ends(buf)[m] + place[2] /\ place[1] \in 1 .. (Len(buf) + 1)
  BY DEF Recording, PlaceIn, OffsetOf
<1>2. r \in Nat
  BY <1>1, RankStep
<1>3. {i \in DOMAIN relaxes : relaxes[i].at < p} = 1 .. r
  BY EarlierBranches
<1>4. Shrink[r] = Ends(buf)[m] - Promise!Start(Grown, m + 1)
  BY <1>1, ShrinkIs
<1> HIDE DEF m, p, r
<1>5. Cardinality(1 .. r) = r
  <2>1. r - 1 + 1 = r
    BY <1>2
  <2> QED BY <1>2, <2>1, FS_Interval
<1>6. SavedBefore(p) = Ends(buf)[m] - Promise!Start(Grown, m + 1)
  BY <1>3, <1>4, <1>5 DEF SavedBefore
<1>7. Ends(buf)[m] \in Nat /\ Promise!Start(Grown, m + 1) \in Nat
  BY <1>1, EndsStep, StartStep
<1>8. Moved(p) = Promise!Start(Grown, m + 1) + place[2]
  BY <1>1, <1>6, <1>7 DEF Moved
<1> QED BY <1>1, <1>7, <1>8 DEF p, Promise!Position

(* Between two pieces a layout has less if it has fewer long branches.      *)
LEMMA StartOrdered ==
  ASSUME buf \in Seq(Piece), NEW A, NEW B, A \subseteq B,
         NEW i \in 1 .. (Len(buf) + 1), NEW j \in i .. (Len(buf) + 1)
  PROVE  /\ Promise!Start(A, i) <= Promise!Start(A, j)
         /\ Promise!Start(A, j) - Promise!Start(A, i) <= Promise!Start(B, j) - Promise!Start(B, i)
<1> DEFINE n == Len(buf)
           f(S) == [k \in 1 .. n |-> LenIn(S, k)]
           g(S) == [k \in DOMAIN buf |-> Promise!LengthIn(S, k)]
<1>1. DOMAIN buf = 1 .. n /\ n \in Nat /\ \A k \in 1 .. n : buf[k] \in Piece
  OBVIOUS
<1>2. ASSUME NEW S PROVE f(S) \in [1 .. n -> Nat] /\ f(S) \in [1 .. n -> Int] /\ g(S) = f(S)
  <2>1. \A k \in 1 .. n : Promise!LengthIn(S, k) = LenIn(S, k) /\ LenIn(S, k) \in Nat
    BY <1>1, PieceLength DEF Promise!LengthIn, Promise!Branches, LenIn, BranchAt, Promise!ShortLen, ShortLen
  <2>2. g(S) = f(S)
    BY <1>1, <2>1
  <2> QED BY <2>1, <2>2
<1>3. \A S, k : Promise!Start(S, k) = Sums(g(S), n)[k - 1]
  BY DEF Promise!Start, Promise!Sums, Sums
<1>4. \A k \in 1 .. n : f(A)[k] <= f(B)[k]
  <2>1. ASSUME NEW k \in 1 .. n PROVE LenIn(A, k) <= LenIn(B, k)
    BY <1>1, <2>1, PieceLength DEF LenIn, BranchAt, ShortLen
  <2> QED BY <2>1
<1> HIDE DEF f, g, n
<1>5. \A S, k : Promise!Start(S, k) = Sums(f(S), n)[k - 1]
  BY <1>2, <1>3
<1>6. i - 1 \in 0 .. n /\ j - 1 \in (i - 1) .. n
  BY <1>1 DEF n
<1>7. Sums(f(A), n)[i - 1] <= Sums(f(A), n)[j - 1]
  BY <1>1, <1>2, <1>6, SumsRise
<1>8. Sums(f(A), n)[j - 1] - Sums(f(A), n)[i - 1] <= Sums(f(B), n)[j - 1] - Sums(f(B), n)[i - 1]
  BY <1>1, <1>2, <1>4, <1>6, SumsOrdered
<1> QED BY <1>5, <1>7, <1>8

(* A branch that reaches a place does so with fewer branches long.          *)
LEMMA ReachShrinks ==
  ASSUME buf \in Seq(Piece), NEW A, NEW B, A \subseteq B,
         NEW j \in 1 .. Len(buf), BranchAt(buf, j), NEW place, PlaceIn(buf, place),
         Promise!Position(B, place) - Promise!Start(B, j + 1) \in Rel8
  PROVE  Promise!Position(A, place) - Promise!Start(A, j + 1) \in Rel8
<1> DEFINE n == Len(buf)
           m == place[1]
           d == place[2]
           a(k) == Promise!Start(A, k)
           b(k) == Promise!Start(B, k)
<1>1. /\ n \in Nat /\ m \in 1 .. (n + 1) /\ d \in Nat /\ j \in 1 .. n /\ j + 1 \in 1 .. (n + 1)
      /\ d # 0 => m <= n /\ ~BranchAt(buf, m) /\ d <= buf[m].len
  BY DEF PlaceIn
<1>2. \A k \in 1 .. (n + 1) : a(k) \in Nat /\ b(k) \in Nat
  BY StartStep
<1>3. \A k \in 1 .. (n + 1) : \A l \in k .. (n + 1) : a(k) <= a(l) /\ a(l) - a(k) <= b(l) - b(k)
  BY StartOrdered
<1>4. Promise!Position(A, place) = a(m) + d /\ Promise!Position(B, place) = b(m) + d
  BY DEF Promise!Position
<1>5. \A k \in 1 .. n : a(k + 1) = a(k) + LenIn(A, k)
  BY StartStep
<1>6. (b(m) + d) - b(j + 1) \in Rel8
  BY <1>4
<1> HIDE DEF a, b, n, m, d
<1>7. a(m) \in Nat /\ b(m) \in Nat /\ a(j + 1) \in Nat /\ b(j + 1) \in Nat
  BY <1>1, <1>2
<1>10. /\ (b(m) + d) - b(j + 1) >= -128 /\ (b(m) + d) - b(j + 1) <= 127
       /\ \A x \in Int : x \in Rel8 <=> x >= -128 /\ x <= 127
  <2>1. \A x \in Int : x \in Rel8 <=> x >= -128 /\ x <= 127
    BY DEF Rel8
  <2>2. (b(m) + d) - b(j + 1) \in Int
    BY <1>1, <1>7
  <2> QED BY <1>6, <2>1, <2>2
<1>8. CASE m >= j + 1
  <2>1. m \in (j + 1) .. (n + 1)
    BY <1>1, <1>8
  <2>2. a(j + 1) <= a(m) /\ a(m) - a(j + 1) <= b(m) - b(j + 1)
    BY <1>1, <1>3, <2>1
  <2>3. (a(m) + d) - a(j + 1) \in Rel8
    <3>1. (a(m) + d) - a(j + 1) \in Int /\ (a(m) + d) - a(j + 1) >= 0
      BY <1>1, <1>7, <2>2
    <3>2. (a(m) + d) - a(j + 1) <= 127
      BY <1>1, <1>7, <1>10, <2>2
    <3> QED BY <1>10, <3>1, <3>2
  <2> QED BY <1>4, <2>3 DEF a
<1>9. CASE m <= j
  <2>1. j + 1 \in m .. (n + 1)
    BY <1>1, <1>9
  <2>2. a(m) <= a(j + 1) /\ a(j + 1) - a(m) <= b(j + 1) - b(m)
    BY <1>1, <1>3, <2>1
  <2>3. a(m) + d <= a(j + 1)
    <3>1. CASE d = 0
      BY <1>7, <2>2, <3>1
    <3>2. CASE d # 0
      <4>1. m \in 1 .. n /\ ~BranchAt(buf, m) /\ d <= buf[m].len
        BY <1>1, <3>2
      <4>2. m # j /\ m + 1 \in 1 .. (n + 1) /\ j + 1 \in (m + 1) .. (n + 1)
        <5>1. m # j
          BY <4>1
        <5> QED BY <1>1, <1>9, <4>1, <5>1
      <4>3. a(m + 1) = a(m) + buf[m].len /\ a(m + 1) <= a(j + 1) /\ a(m + 1) \in Nat
        BY <1>2, <1>3, <1>5, <4>1, <4>2 DEF LenIn
      <4>4. buf[m].len \in Nat
        BY <4>1, PieceLength DEF n
      <4> QED BY <1>1, <1>7, <4>1, <4>3, <4>4
    <3> QED BY <3>1, <3>2
  <2>4. (a(m) + d) - a(j + 1) \in Rel8
    <3>1. (a(m) + d) - a(j + 1) \in Int /\ (a(m) + d) - a(j + 1) <= 0
      BY <1>1, <1>7, <2>3
    <3>2. (a(m) + d) - a(j + 1) >= -128
      BY <1>1, <1>7, <1>10, <2>2
    <3> QED BY <1>10, <3>1, <3>2
  <2> QED BY <1>4, <2>4 DEF a
<1> QED BY <1>1, <1>8, <1>9

(* The lengths and the ends of the pieces rebuilt.                          *)
LEMMA NewEndIs ==
  ASSUME Recording, NEW j \in 1 .. Len(buf)
  PROVE  /\ Recorded(j) = Rank(buf, j)
         /\ NewLen(j) = LenIn(Grown, j)
         /\ NewEnd(j) = Promise!Start(Grown, j + 1)
<1>1. \A k \in 1 .. Len(buf) : Recorded(k) = Rank(buf, k)
  BY DEF Recorded, Rank, BranchAt
<1>2. ASSUME NEW k \in 1 .. Len(buf)
      PROVE  NewLen(k) = LenIn(Grown, k) /\ Promise!LengthIn(Grown, k) = LenIn(Grown, k)
  <2>1. BranchAt(buf, k) => relaxes[Rank(buf, k)].len = buf[k].len
    BY RecordedRange
  <2>2. k \in Grown <=> BranchAt(buf, k) /\ Rank(buf, k) \in long
    BY DEF Grown
  <2>3. DOMAIN buf = 1 .. Len(buf)
    BY DEF Recording
  <2>4. NewLen(k) = LenIn(Grown, k)
    BY <1>1, <2>1, <2>2 DEF NewLen, LenIn, BranchAt
  <2>5. Promise!LengthIn(Grown, k) = LenIn(Grown, k)
    BY <2>3 DEF Promise!LengthIn, Promise!Branches, LenIn, BranchAt, Promise!ShortLen, ShortLen
  <2> QED BY <2>4, <2>5
<1>3. DOMAIN buf = 1 .. Len(buf)
  BY DEF Recording
<1>4. [k \in DOMAIN buf |-> NewLen(k)] = [k \in DOMAIN buf |-> Promise!LengthIn(Grown, k)]
  BY <1>2, <1>3
<1> DEFINE f == [k \in DOMAIN buf |-> NewLen(k)]
<1>5. NewEnd(j) = Sums(f, Len(buf))[j]
  BY DEF NewEnd
<1>8. Promise!Start(Grown, j + 1) =
        Sums([k \in DOMAIN buf |-> Promise!LengthIn(Grown, k)], Len(buf))[(j + 1) - 1]
  BY DEF Promise!Start, Promise!Sums, Sums
<1>6. Promise!Start(Grown, j + 1) = Sums(f, Len(buf))[(j + 1) - 1]
  BY <1>4, <1>8
<1> HIDE DEF f
<1>7. (j + 1) - 1 = j
  OBVIOUS
<1> QED BY <1>1, <1>2, <1>5, <1>6, <1>7

(* A short branch is in reach if its displacement in the layout is.         *)
LEMMA InReachIs ==
  ASSUME Recording, LabelsFit(buf, labels, marks),
         NEW j \in 1 .. Len(buf), BranchAt(buf, j), j \notin Grown, marks[buf[j].label] # Unbound
  PROVE  InReach(Rank(buf, j)) <=> Promise!Displacement(Grown, j) \in Rel8
<1> DEFINE r == relaxes[Rank(buf, j)]
           l == buf[j].label
           own == <<j, 0>>
<1>1. r.at = Ends(buf)[j - 1] /\ r.label = l
  BY RecordedRange
<1>2. l \in Label
  BY PieceLength DEF Recording, BranchAt
<1>3. PlaceIn(buf, marks[l]) /\ labels[l] = OffsetOf(buf, marks[l])
  BY <1>2 DEF LabelsFit
<1>4. /\ Moved(labels[l]) = Promise!Position(Grown, marks[l])
      /\ Promise!Position(Grown, marks[l]) \in Nat
  BY <1>3, MovedIs
<1>5. PlaceIn(buf, own) /\ OffsetOf(buf, own) = r.at /\ Promise!Position(Grown, own) = Promise!Start(Grown, j)
  <2>1. PlaceIn(buf, own)
    BY DEF PlaceIn, Recording
  <2>2. Ends(buf)[j - 1] \in Nat /\ Promise!Start(Grown, j) \in Nat
    <3>1. j - 1 \in 0 .. Len(buf) /\ j \in 1 .. (Len(buf) + 1) /\ buf \in Seq(Piece)
      BY DEF Recording
    <3> QED BY <3>1, EndsStep, StartStep
  <2> QED BY <1>1, <2>1, <2>2 DEF OffsetOf, Promise!Position
<1>6. Moved(r.at) = Promise!Start(Grown, j) /\ Promise!Start(Grown, j) \in Nat
  <2> HIDE DEF own, r
  <2> QED BY <1>5, MovedIs
<1>7. Promise!Start(Grown, j + 1) = Promise!Start(Grown, j) + ShortLen
  <2>1. LenIn(Grown, j) = ShortLen
    BY DEF LenIn
  <2> QED BY <2>1, StartStep DEF Recording
<1>8. InReach(Rank(buf, j)) <=> Moved(labels[l]) - (Moved(r.at) + ShortLen) \in Rel8
  BY <1>1 DEF InReach
<1>9. Promise!Displacement(Grown, j) = Promise!Position(Grown, marks[l]) - Promise!Start(Grown, j + 1)
  BY DEF Promise!Displacement
<1> HIDE DEF r, l
<1> QED BY <1>4, <1>6, <1>7, <1>8, <1>9

-----------------------------------------------------------------------------
(* Growing branches *)

(* A layout depends on what was emitted and where labels were bound.        *)
LEMMA SameLayout ==
  ASSUME UNCHANGED <<buf, marks>>
  PROVE  /\ Promise!Branches' = Promise!Branches
         /\ Promise!Fields' = Promise!Fields
         /\ \A S, j : Promise!Start(S, j)' = Promise!Start(S, j)
         /\ \A S, p : Promise!Position(S, p)' = Promise!Position(S, p)
         /\ \A S, j : Promise!Displacement(S, j)' = Promise!Displacement(S, j)
         /\ \A S : Promise!Reaches(S)' <=> Promise!Reaches(S)
         /\ Promise!LeastLong' = Promise!LeastLong
<1>1. Promise!Branches' = Promise!Branches /\ Promise!Fields' = Promise!Fields
  BY DEF Promise!Branches, Promise!Fields
<1>2. \A S, j : Promise!Start(S, j)' = Promise!Start(S, j)
  BY DEF Promise!Start, Promise!LengthIn, Promise!Branches
<1>3. \A S, p : Promise!Position(S, p)' = Promise!Position(S, p)
  BY <1>2 DEF Promise!Position
<1>4. \A S, j : Promise!Displacement(S, j)' = Promise!Displacement(S, j)
  BY <1>2, <1>3 DEF Promise!Displacement
<1>5. \A S : Promise!Reaches(S)' <=> Promise!Reaches(S)
  BY <1>1, <1>4 DEF Promise!Reaches
<1>6. Promise!LeastLong' = Promise!LeastLong
  BY <1>1, <1>5 DEF Promise!LeastLong
<1> QED BY <1>1, <1>2, <1>3, <1>4, <1>5, <1>6

(* The least set of long branches is the only one.                          *)
LEMMA LeastIs ==
  ASSUME NEW G, G \subseteq Promise!Branches, Promise!Reaches(G),
         \A S \in SUBSET Promise!Branches : Promise!Reaches(S) => G \subseteq S
  PROVE  Promise!LeastLong = G
<1> DEFINE Least(L) == /\ L \in SUBSET Promise!Branches /\ Promise!Reaches(L)
                       /\ \A S \in SUBSET Promise!Branches : Promise!Reaches(S) => L \subseteq S
<1>1. Promise!LeastLong = CHOOSE L : Least(L)
  BY DEF Promise!LeastLong
<1>2. Least(G)
  OBVIOUS
<1>3. Least(CHOOSE L : Least(L))
  <2> HIDE DEF Least
  <2> QED BY <1>2
<1> QED BY <1>1, <1>2, <1>3

(* What holds while code is emitted and branches grow.                      *)
Emitted == Fit /\ long \subseteq DOMAIN relaxes /\ relocs = {}

(* Every long branch is long in any layout whose short branches reach, and  *)
(* its label is bound.                                                      *)
Needed ==
  /\ \A i \in long : labels[relaxes[i].label] # Unbound
  /\ \A S \in SUBSET Promise!Branches : Promise!Reaches(S) => Grown \subseteq S

(* What the invariant says of the code before it is finished.                *)
LEMMA EmittedRecording ==
  ASSUME Emitted
  PROVE  /\ Recording /\ LabelsFit(buf, labels, marks) /\ buf \in Seq(Piece)
         /\ Promise!Branches = {j \in 1 .. Len(buf) : BranchAt(buf, j)}
         /\ Grown \subseteq Promise!Branches
         /\ DOMAIN relaxes = 1 .. Len(relaxes)
<1>1. Recording /\ LabelsFit(buf, labels, marks) /\ buf \in Seq(Piece)
  BY DEF Emitted, Fit, EmittedFit, Recording
<1>2. DOMAIN buf = 1 .. Len(buf)
  BY <1>1
<1>3. Promise!Branches = {j \in 1 .. Len(buf) : BranchAt(buf, j)}
  BY <1>2 DEF Promise!Branches, BranchAt
<1>4. relaxes \in Seq([at : Nat, len : Nat, label : Label])
  BY <1>1 DEF Recording, BranchesFit
<1>5. DOMAIN relaxes = 1 .. Len(relaxes)
  BY <1>4
<1> QED BY <1>1, <1>3, <1>5 DEF Grown

(* A label is bound once it has a place.                                    *)
LEMMA LabelBound ==
  ASSUME LabelsFit(buf, labels, marks), buf \in Seq(Piece), NEW l \in Label
  PROVE  labels[l] = Unbound <=> marks[l] = Unbound
<1>1. ASSUME marks[l] # Unbound PROVE labels[l] \in Nat
  <2>1. PlaceIn(buf, marks[l]) /\ labels[l] = OffsetOf(buf, marks[l])
    BY <1>1 DEF LabelsFit
  <2>2. marks[l][1] - 1 \in 0 .. Len(buf) /\ marks[l][2] \in Nat
    BY <2>1 DEF PlaceIn
  <2>3. Ends(buf)[marks[l][1] - 1] \in Nat
    BY <2>2, EndsStep
  <2> QED BY <2>1, <2>2, <2>3 DEF OffsetOf
<1>2. marks[l] = Unbound => labels[l] = Unbound
  BY DEF LabelsFit
<1> QED BY <1>1, <1>2, UnboundAssumption

(* A branch grows only if it must.                                          *)
LEMMA GrowNeeded ==
  ASSUME Emitted, Needed, Grow
  PROVE  Needed'
<1>1. /\ Recording /\ LabelsFit(buf, labels, marks) /\ buf \in Seq(Piece)
      /\ Promise!Branches = {j \in 1 .. Len(buf) : BranchAt(buf, j)}
      /\ Grown \subseteq Promise!Branches /\ DOMAIN relaxes = 1 .. Len(relaxes)
  BY EmittedRecording
<1>2. /\ UNCHANGED <<buf, marks, labels, relaxes>> /\ LabelsBound
      /\ long' = long \union {i \in DOMAIN relaxes \ long : ~InReach(i)}
  BY DEF Grow
<1>3. Promise!Branches' = Promise!Branches /\ \A S : Promise!Reaches(S)' <=> Promise!Reaches(S)
  BY <1>2, SameLayout
<1>4. \A i \in long' : labels'[relaxes'[i].label] # Unbound
  BY <1>2 DEF Needed, LabelsBound
<1>5. ASSUME NEW S \in SUBSET Promise!Branches, Promise!Reaches(S), NEW j \in Grown'
      PROVE  j \in S
  <2>1. j \in 1 .. Len(buf) /\ BranchAt(buf, j) /\ Rank(buf, j) \in long'
    BY <1>2, <1>5 DEF Grown, BranchAt, Rank
  <2>2. Grown \subseteq S
    BY <1>5 DEF Needed
  <2>3. CASE Rank(buf, j) \in long
    BY <2>1, <2>2, <2>3 DEF Grown
  <2>4. CASE Rank(buf, j) \notin long
    <3> DEFINE l == buf[j].label
    <3>1. Rank(buf, j) \in DOMAIN relaxes \ long /\ ~InReach(Rank(buf, j))
      BY <1>2, <2>1, <2>4
    <3>2. relaxes[Rank(buf, j)].label = l /\ l \in Label
      BY <1>1, <2>1, RecordedRange, PieceLength DEF BranchAt
    <3>3. labels[l] # Unbound /\ marks[l] # Unbound
      <4>1. labels[l] # Unbound
        BY <1>2, <3>1, <3>2 DEF LabelsBound
      <4> QED BY <1>1, <3>2, <4>1, LabelBound
    <3>4. PlaceIn(buf, marks[l])
      BY <1>1, <3>2, <3>3 DEF LabelsFit
    <3>5. j \notin Grown
      BY <2>4 DEF Grown
    <3>6. Promise!Displacement(Grown, j) \notin Rel8
      BY <1>1, <2>1, <3>1, <3>3, <3>5, InReachIs
    <3>7. SUFFICES ASSUME j \notin S PROVE FALSE
      OBVIOUS
    <3>8. Promise!Displacement(S, j) \in Rel8
      BY <1>1, <1>5, <2>1, <3>7 DEF Promise!Reaches, Promise!Rel8, Rel8
    <3>9. \A A : Promise!Displacement(A, j) = Promise!Position(A, marks[l]) - Promise!Start(A, j + 1)
      BY DEF Promise!Displacement
    <3> DEFINE place == marks[l]
    <3>10. /\ Promise!Position(S, place) - Promise!Start(S, j + 1) \in Rel8
           /\ Promise!Position(Grown, place) - Promise!Start(Grown, j + 1) \notin Rel8
      BY <3>6, <3>8, <3>9
    <3>11. PlaceIn(buf, place)
      BY <3>4
    <3> HIDE DEF l, place
    <3>12. Promise!Position(Grown, place) - Promise!Start(Grown, j + 1) \in Rel8
      BY <1>1, <2>1, <2>2, <3>10, <3>11, ReachShrinks
    <3> QED BY <3>10, <3>12
  <2> QED BY <2>3, <2>4
<1> QED BY <1>3, <1>4, <1>5 DEF Needed

(* When nothing grows any more, the branches grown are the least.           *)
LEMMA GrownLeast ==
  ASSUME Emitted, Needed, LabelsBound, \A i \in DOMAIN relaxes \ long : InReach(i)
  PROVE  /\ Promise!LeastLong = Grown
         /\ \A j \in Promise!Branches : marks[buf[j].label] # Unbound
<1>1. /\ Recording /\ LabelsFit(buf, labels, marks) /\ buf \in Seq(Piece)
      /\ Promise!Branches = {j \in 1 .. Len(buf) : BranchAt(buf, j)}
      /\ Grown \subseteq Promise!Branches /\ DOMAIN relaxes = 1 .. Len(relaxes)
  BY EmittedRecording
<1>2. ASSUME NEW j \in Promise!Branches PROVE marks[buf[j].label] # Unbound
  <2>1. /\ Rank(buf, j) \in DOMAIN relaxes /\ relaxes[Rank(buf, j)].label = buf[j].label
        /\ buf[j].label \in Label
    BY <1>1, <1>2, RecordedRange, PieceLength DEF BranchAt
  <2>2. labels[buf[j].label] # Unbound
    BY <2>1 DEF Needed, LabelsBound
  <2> QED BY <1>1, <2>1, <2>2, LabelBound
<1>3. Promise!Reaches(Grown)
  <2> SUFFICES ASSUME NEW j \in Promise!Branches \ Grown PROVE Promise!Displacement(Grown, j) \in Rel8
    BY DEF Promise!Reaches, Promise!Rel8, Rel8
  <2>1. j \in 1 .. Len(buf) /\ BranchAt(buf, j)
    BY <1>1
  <2>2. Rank(buf, j) \in DOMAIN relaxes \ long
    BY <1>1, <2>1, RecordedRange DEF Grown
  <2>3. InReach(Rank(buf, j))
    BY <2>2
  <2> QED BY <1>1, <1>2, <2>1, <2>3, InReachIs
<1>4. \A S \in SUBSET Promise!Branches : Promise!Reaches(S) => Grown \subseteq S
  BY DEF Needed
<1> QED BY <1>1, <1>2, <1>3, <1>4, LeastIs

-----------------------------------------------------------------------------
(* What relax leaves *)

(* The finished code and its labels are those of the layout in which the    *)
(* branches G are long.                                                     *)
OutPiece(G, j) ==
  IF BranchAt(buf, j)
    THEN [kind |-> "branch", len |-> LenIn(G, j), long |-> j \in G, disp |-> Promise!Displacement(G, j)]
    ELSE buf[j]
LaidOut(G, o, ls) ==
  /\ buf \in Seq(Piece)
  /\ o = [j \in 1 .. Len(buf) |-> OutPiece(G, j)]
  /\ ls = [l \in Label |-> IF marks[l] = Unbound THEN Unbound ELSE Promise!Position(G, marks[l])]
  /\ \A l \in Label : marks[l] # Unbound => PlaceIn(buf, marks[l])
  /\ \A j \in Promise!Branches : marks[buf[j].label] # Unbound

(* And the fixups are at the fields.                                        *)
FixupIn(G, j, fx) ==
  \/ FieldAt(buf, j) /\ fx = ToLabel(Promise!Start(G, j), buf[j].label)
  \/ AbsoluteAt(buf, j) /\ \E a \in Nat : fx = ToFunction(Promise!Start(G, j), a)
FieldsIn(G, fs) ==
  /\ DOMAIN fs = 1 .. Len(fs)
  /\ \A k \in DOMAIN fs : \E j \in 1 .. Len(buf) : FixupIn(G, j, fs[k])
  /\ \A j \in 1 .. Len(buf) : FieldAt(buf, j) => \E k \in DOMAIN fs : FixupIn(G, j, fs[k])

(* Without branches nothing moves.                                          *)
LEMMA NothingToRelax ==
  ASSUME Emitted, relaxes = <<>>
  PROVE  /\ Promise!LeastLong = Grown
         /\ LaidOut(Grown, buf, labels) /\ FieldsIn(Grown, fixups)
<1>1. /\ Recording /\ LabelsFit(buf, labels, marks) /\ buf \in Seq(Piece)
      /\ Promise!Branches = {j \in 1 .. Len(buf) : BranchAt(buf, j)}
      /\ Grown \subseteq Promise!Branches /\ Len(buf) \in Nat
  BY EmittedRecording
<1>2. \A j \in 1 .. Len(buf) : ~BranchAt(buf, j)
  <2>1. Len(relaxes) = 0
    OBVIOUS
  <2> QED BY <1>1, <2>1, RecordedRange
<1>3. Promise!Branches = {} /\ Grown = {}
  BY <1>1, <1>2
<1>4. Promise!LeastLong = Grown
  <2>1. Promise!Reaches(Grown)
    BY <1>3 DEF Promise!Reaches
  <2> QED BY <1>3, <2>1, LeastIs
<1>5. ASSUME NEW j \in 0 .. Len(buf) PROVE Ends(buf)[j] = Promise!Start(Grown, j + 1)
  <2>1. Rank(buf, j) = 0
    <3>1. {k \in 1 .. j : BranchAt(buf, k)} = {}
      BY <1>2
    <3> QED BY <3>1, FS_EmptySet DEF Rank
  <2>2. Shrink[Rank(buf, j)] = Ends(buf)[j] - Promise!Start(Grown, j + 1) /\ Shrink[0] = 0
    BY <1>1, ShrinkIs, ShrinkStep
  <2>3. Ends(buf)[j] \in Nat /\ Promise!Start(Grown, j + 1) \in Nat
    <3>1. j + 1 \in 1 .. (Len(buf) + 1)
      BY <1>1
    <3> QED BY <1>1, <3>1, EndsStep, StartStep
  <2> QED BY <2>1, <2>2, <2>3
<1>6. ASSUME NEW j \in 1 .. (Len(buf) + 1) PROVE Ends(buf)[j - 1] = Promise!Start(Grown, j)
  <2>1. j - 1 \in 0 .. Len(buf) /\ (j - 1) + 1 = j
    BY <1>1
  <2> QED BY <1>5, <2>1
<1>7. ASSUME NEW l \in Label
      PROVE  /\ labels[l] = IF marks[l] = Unbound THEN Unbound ELSE Promise!Position(Grown, marks[l])
             /\ marks[l] # Unbound => PlaceIn(buf, marks[l])
  <2>1. marks[l] # Unbound => PlaceIn(buf, marks[l]) /\ labels[l] = OffsetOf(buf, marks[l])
    BY <1>1 DEF LabelsFit
  <2>2. marks[l] = Unbound => labels[l] = Unbound
    BY <1>1 DEF LabelsFit
  <2>3. marks[l] # Unbound => OffsetOf(buf, marks[l]) = Promise!Position(Grown, marks[l])
    BY <1>6, <2>1 DEF PlaceIn, OffsetOf, Promise!Position
  <2> QED BY <2>1, <2>2, <2>3
<1>8. labels = [l \in Label |-> IF marks[l] = Unbound THEN Unbound ELSE Promise!Position(Grown, marks[l])]
  BY <1>1, <1>7 DEF LabelsFit
<1>9. buf = [j \in 1 .. Len(buf) |-> OutPiece(Grown, j)]
  BY <1>1, <1>2 DEF OutPiece
<1>10. LaidOut(Grown, buf, labels)
  BY <1>1, <1>3, <1>7, <1>8, <1>9 DEF LaidOut
<1>11. FieldsIn(Grown, fixups)
  <2>1. FieldsFit(buf, fixups)
    BY DEF Emitted, Fit, EmittedFit
  <2>2. \A j \in 1 .. Len(buf) : \A fx : FixupAt(buf, j, fx) <=> FixupIn(Grown, j, fx)
    <3>1. \A j \in 1 .. Len(buf) : Ends(buf)[j - 1] = Promise!Start(Grown, j)
      BY <1>1, <1>6
    <3> QED BY <3>1 DEF FixupAt, FixupIn
  <2>3. DOMAIN fixups = 1 .. Len(fixups)
    BY <2>1 DEF FieldsFit
  <2> QED BY <2>1, <2>2, <2>3 DEF FieldsFit, FieldsIn
<1> QED BY <1>4, <1>10, <1>11

(* Where a piece started is where it starts in the layout, once moved.      *)
LEMMA StartMoved ==
  ASSUME Recording, NEW j \in 1 .. Len(buf)
  PROVE  Moved(Ends(buf)[j - 1]) = Promise!Start(Grown, j)
<1> DEFINE own == <<j, 0>>
<1>1. PlaceIn(buf, own)
  BY DEF PlaceIn, Recording
<1>2. Ends(buf)[j - 1] \in Nat /\ Promise!Start(Grown, j) \in Nat
  <2>1. j - 1 \in 0 .. Len(buf) /\ j \in 1 .. (Len(buf) + 1) /\ buf \in Seq(Piece)
    BY DEF Recording
  <2> QED BY <2>1, EndsStep, StartStep
<1>3. OffsetOf(buf, own) = Ends(buf)[j - 1] /\ Promise!Position(Grown, own) = Promise!Start(Grown, j)
  BY <1>2 DEF OffsetOf, Promise!Position
<1>4. Moved(OffsetOf(buf, own)) = Promise!Position(Grown, own)
  <2> HIDE DEF own
  <2> QED BY <1>1, MovedIs
<1> QED BY <1>3, <1>4

(* Rebuilding the code lays it out.                                         *)
LEMMA RebuildLaid ==
  ASSUME Emitted, Needed, Rebuild
  PROVE  LaidOut(Grown, out', labels') /\ FieldsIn(Grown, fixups')
<1>1. /\ Recording /\ LabelsFit(buf, labels, marks) /\ buf \in Seq(Piece)
      /\ Promise!Branches = {j \in 1 .. Len(buf) : BranchAt(buf, j)}
      /\ Len(buf) \in Nat /\ DOMAIN buf = 1 .. Len(buf)
  BY EmittedRecording
<1>2. \A j \in Promise!Branches : marks[buf[j].label] # Unbound
  BY GrownLeast DEF Rebuild
<1>3. \A l \in Label : marks[l] # Unbound => PlaceIn(buf, marks[l])
  BY <1>1 DEF LabelsFit
<1>4. \A l \in Label : marks[l] # Unbound => Moved(labels[l]) = Promise!Position(Grown, marks[l])
  <2> SUFFICES ASSUME NEW l \in Label, marks[l] # Unbound
               PROVE  Moved(labels[l]) = Promise!Position(Grown, marks[l])
    OBVIOUS
  <2>1. PlaceIn(buf, marks[l]) /\ labels[l] = OffsetOf(buf, marks[l])
    BY <1>1 DEF LabelsFit
  <2> QED BY <1>1, <2>1, MovedIs
<1>5. labels' = [l \in Label |-> IF marks[l] = Unbound THEN Unbound ELSE Promise!Position(Grown, marks[l])]
  <2>1. \A l \in Label : labels[l] = Unbound <=> marks[l] = Unbound
    BY <1>1, LabelBound
  <2>2. labels' = [l \in Label |-> IF labels[l] = Unbound THEN Unbound ELSE Moved(labels[l])]
    BY DEF Rebuild
  <2>3. \A l \in Label : (IF labels[l] = Unbound THEN Unbound ELSE Moved(labels[l])) =
                         (IF marks[l] = Unbound THEN Unbound ELSE Promise!Position(Grown, marks[l]))
    BY <1>4, <2>1
  <2> QED BY <2>2, <2>3
<1>6. out' = [j \in 1 .. Len(buf) |-> OutPiece(Grown, j)]
  <2> DEFINE piece(j) ==
       IF buf[j].kind # "branch" THEN buf[j]
       ELSE [kind |-> "branch", len |-> NewLen(j), long |-> Recorded(j) \in long,
             disp |-> Moved(labels[relaxes[Recorded(j)].label]) - NewEnd(j)]
  <2>1. out' = [j \in DOMAIN buf |-> piece(j)]
    BY DEF Rebuild
  <2>2. ASSUME NEW j \in 1 .. Len(buf), BranchAt(buf, j) PROVE piece(j) = OutPiece(Grown, j)
    <3> DEFINE l == buf[j].label
    <3>1. Recorded(j) = Rank(buf, j) /\ NewLen(j) = LenIn(Grown, j) /\ NewEnd(j) = Promise!Start(Grown, j + 1)
      BY <1>1, NewEndIs
    <3>2. (Recorded(j) \in long) = (j \in Grown)
      BY <2>2, <3>1 DEF Grown
    <3>3. relaxes[Recorded(j)].label = l /\ l \in Label /\ marks[l] # Unbound
      BY <1>1, <1>2, <2>2, <3>1, RecordedRange, PieceLength DEF BranchAt
    <3>4. Moved(labels[relaxes[Recorded(j)].label]) - NewEnd(j) = Promise!Displacement(Grown, j)
      BY <1>4, <3>1, <3>3 DEF Promise!Displacement
    <3>5. piece(j) = [kind |-> "branch", len |-> NewLen(j), long |-> Recorded(j) \in long,
             disp |-> Moved(labels[relaxes[Recorded(j)].label]) - NewEnd(j)]
      BY <2>2 DEF BranchAt
    <3>6. OutPiece(Grown, j) = [kind |-> "branch", len |-> LenIn(Grown, j), long |-> j \in Grown,
             disp |-> Promise!Displacement(Grown, j)]
      BY <2>2 DEF OutPiece
    <3> HIDE DEF piece
    <3> QED BY <3>1, <3>2, <3>4, <3>5, <3>6
  <2>3. ASSUME NEW j \in 1 .. Len(buf), ~BranchAt(buf, j) PROVE piece(j) = OutPiece(Grown, j)
    BY <2>3 DEF OutPiece, BranchAt
  <2> HIDE DEF piece
  <2> QED BY <1>1, <2>1, <2>2, <2>3
<1>7. LaidOut(Grown, out', labels')
  BY <1>1, <1>2, <1>3, <1>5, <1>6 DEF LaidOut
<1>8. FieldsIn(Grown, fixups')
  <2>1. /\ FieldsFit(buf, fixups)
        /\ fixups' = [k \in DOMAIN fixups |-> [fixups[k] EXCEPT !.at = Moved(fixups[k].at)]]
    BY DEF Emitted, Fit, EmittedFit, Rebuild, MovedFixups
  <2>2. DOMAIN fixups = 1 .. Len(fixups) /\ Len(fixups) \in Nat
    BY <2>1 DEF FieldsFit
  <2>3. DOMAIN fixups' = DOMAIN fixups /\ Len(fixups') = Len(fixups)
    BY <2>1, <2>2
  <2>4. ASSUME NEW j \in 1 .. Len(buf), NEW k \in DOMAIN fixups, FixupAt(buf, j, fixups[k])
        PROVE  FixupIn(Grown, j, fixups'[k])
    <3> DEFINE fx == fixups[k]
    <3>1. Moved(Ends(buf)[j - 1]) = Promise!Start(Grown, j)
      BY <1>1, StartMoved
    <3>2. fixups'[k] = [fx EXCEPT !.at = Moved(fx.at)]
      BY <2>1
    <3>3. CASE FieldAt(buf, j) /\ fx = ToLabel(Ends(buf)[j - 1], buf[j].label)
      BY <3>1, <3>2, <3>3 DEF ToLabel, FixupIn
    <3>4. CASE AbsoluteAt(buf, j) /\ \E a \in Nat : fx = ToFunction(Ends(buf)[j - 1], a)
      BY <3>1, <3>2, <3>4 DEF ToFunction, FixupIn
    <3> QED BY <2>4, <3>3, <3>4 DEF FixupAt
  <2> QED BY <2>1, <2>2, <2>3, <2>4 DEF FieldsFit, FieldsIn
<1> QED BY <1>7, <1>8

-----------------------------------------------------------------------------
(* What finishing returns *)

(* A place has an offset in every layout.                                    *)
LEMMA PositionTyped ==
  ASSUME buf \in Seq(Piece), NEW G, NEW place, PlaceIn(buf, place)
  PROVE  Promise!Position(G, place) \in Nat
<1>1. place[1] \in 1 .. (Len(buf) + 1) /\ place[2] \in Nat
  BY DEF PlaceIn
<1>2. Promise!Start(G, place[1]) \in Nat
  BY <1>1, StartStep
<1> QED BY <1>1, <1>2 DEF Promise!Position

(* A patched field holds the distance to its label.                         *)
ValueIn(G, j, fx) ==
  \/ FieldAt(buf, j) /\ fx = [at |-> Promise!Start(G, j), value |-> Promise!Displacement(G, j)]
  \/ AbsoluteAt(buf, j) /\ \E a \in Nat : fx = ToFunction(Promise!Start(G, j), a)
ValuesIn(G, fs) ==
  /\ DOMAIN fs = 1 .. Len(fs)
  /\ \A k \in DOMAIN fs : \E j \in 1 .. Len(buf) : ValueIn(G, j, fs[k])
  /\ \A j \in 1 .. Len(buf) : FieldAt(buf, j) => \E k \in DOMAIN fs : ValueIn(G, j, fs[k])
  /\ \A j \in Promise!Fields : marks[buf[j].label] # Unbound

(* A fixup is of a label or of the function.                                 *)
LEMMA FixupKinds ==
  ASSUME NEW G, NEW j \in 1 .. Len(buf), NEW fx, FixupIn(G, j, fx)
  PROVE  /\ "label" \in DOMAIN fx <=> FieldAt(buf, j)
         /\ FieldAt(buf, j) => fx = ToLabel(Promise!Start(G, j), buf[j].label)
         /\ ~FieldAt(buf, j) => AbsoluteAt(buf, j) /\ \E a \in Nat : fx = ToFunction(Promise!Start(G, j), a)
<1>1. FieldAt(buf, j) => ~AbsoluteAt(buf, j)
  BY DEF FieldAt, AbsoluteAt
<1>2. \A at, l : "label" \in DOMAIN ToLabel(at, l)
  BY DEF ToLabel
<1>3. \A at, a : "label" \notin DOMAIN ToFunction(at, a)
  BY DEF ToFunction
<1> QED BY <1>1, <1>2, <1>3 DEF FixupIn

(* The fields are the PC-relative pieces.                                    *)
LEMMA FieldsAre ==
  ASSUME buf \in Seq(Piece)
  PROVE  Promise!Fields = {j \in 1 .. Len(buf) : FieldAt(buf, j)}
<1>1. DOMAIN buf = 1 .. Len(buf)
  OBVIOUS
<1> QED BY <1>1 DEF Promise!Fields, FieldAt

(* The labels of the fields are those of the fixups.                        *)
LEMMA FieldLabels ==
  ASSUME NEW G, LaidOut(G, out, labels), FieldsIn(G, fixups)
  PROVE  /\ \A j \in Promise!Fields : \E k \in ToLabels : fixups[k].label = buf[j].label
         /\ \A k \in ToLabels : \E j \in Promise!Fields : fixups[k].label = buf[j].label
         /\ \A j \in Promise!Fields : buf[j].label \in Label
         /\ \A l \in Label : labels[l] = Unbound <=> marks[l] = Unbound
<1>1. buf \in Seq(Piece) /\ Promise!Fields = {j \in 1 .. Len(buf) : FieldAt(buf, j)}
  BY FieldsAre DEF LaidOut
<1>2. \A l \in Label : labels[l] = Unbound <=> marks[l] = Unbound
  <2> SUFFICES ASSUME NEW l \in Label PROVE labels[l] = Unbound <=> marks[l] = Unbound
    OBVIOUS
  <2>1. labels[l] = IF marks[l] = Unbound THEN Unbound ELSE Promise!Position(G, marks[l])
    BY DEF LaidOut
  <2>2. marks[l] # Unbound => Promise!Position(G, marks[l]) \in Nat
    BY <1>1, PositionTyped DEF LaidOut
  <2> QED BY <2>1, <2>2, UnboundAssumption
<1>3. \A at, l : ToLabel(at, l).label = l
  BY DEF ToLabel
<1>4. ASSUME NEW j \in Promise!Fields
      PROVE  buf[j].label \in Label /\ \E k \in ToLabels : fixups[k].label = buf[j].label
  <2>1. j \in 1 .. Len(buf) /\ FieldAt(buf, j)
    BY <1>1
  <2>2. PICK k \in DOMAIN fixups : FixupIn(G, j, fixups[k])
    BY <2>1 DEF FieldsIn
  <2>3. k \in ToLabels /\ fixups[k] = ToLabel(Promise!Start(G, j), buf[j].label)
    BY <2>1, <2>2, FixupKinds DEF ToLabels
  <2>4. buf[j].label \in Label
    BY <1>1, <2>1, PieceLength DEF FieldAt
  <2> QED BY <1>3, <2>3, <2>4
<1>5. ASSUME NEW k \in ToLabels PROVE \E j \in Promise!Fields : fixups[k].label = buf[j].label
  <2>1. k \in DOMAIN fixups /\ "label" \in DOMAIN fixups[k]
    BY DEF ToLabels
  <2>2. PICK j \in 1 .. Len(buf) : FixupIn(G, j, fixups[k])
    BY <2>1 DEF FieldsIn
  <2>3. FieldAt(buf, j) /\ fixups[k] = ToLabel(Promise!Start(G, j), buf[j].label)
    BY <2>1, <2>2, FixupKinds
  <2> QED BY <1>1, <1>3, <2>3
<1> QED BY <1>2, <1>4, <1>5

(* Patching writes the distance to its label into every field.               *)
LEMMA PatchedValues ==
  ASSUME NEW G, LaidOut(G, out, labels), FieldsIn(G, fixups), PatchFixups
  PROVE  ValuesIn(G, fixups') /\ relocs' \subseteq FunctionFixup
<1>1. buf \in Seq(Piece) /\ Promise!Fields = {j \in 1 .. Len(buf) : FieldAt(buf, j)} /\ Len(buf) \in Nat
  BY FieldsAre DEF LaidOut
<1>2. \A j \in Promise!Fields : marks[buf[j].label] # Unbound
  BY FieldLabels DEF PatchFixups
<1>3. DOMAIN fixups' = DOMAIN fixups /\ Len(fixups') = Len(fixups) /\ DOMAIN fixups' = 1 .. Len(fixups')
  BY DEF PatchFixups, FieldsIn
<1>4. \A j \in 1 .. Len(buf) : Promise!Start(G, j) \in Nat
  <2>1. \A j \in 1 .. Len(buf) : j \in 1 .. (Len(buf) + 1)
    BY <1>1
  <2> QED BY <1>1, <2>1, StartStep
<1>5. ASSUME NEW j \in 1 .. Len(buf), NEW k \in DOMAIN fixups, FixupIn(G, j, fixups[k])
      PROVE  ValueIn(G, j, fixups'[k])
  <2>1. CASE FieldAt(buf, j)
    <3> DEFINE l == buf[j].label
               fx == fixups[k]
    <3>1. k \in ToLabels /\ fx = ToLabel(Promise!Start(G, j), l)
      BY <1>5, <2>1, FixupKinds DEF ToLabels
    <3>2. fx.at = Promise!Start(G, j) /\ fx.label = l
      BY <3>1 DEF ToLabel
    <3>3. fixups'[k] = [at |-> fx.at, value |-> labels[fx.label] - (fx.at + FieldLen)]
      BY <3>1 DEF PatchFixups
    <3>4. l \in Label /\ marks[l] # Unbound
      BY <1>1, <1>2, <2>1, FieldLabels
    <3>5. labels[l] = Promise!Position(G, marks[l]) /\ Promise!Position(G, marks[l]) \in Nat
      BY <1>1, <3>4, PositionTyped DEF LaidOut
    <3>6. Promise!Start(G, j + 1) = Promise!Start(G, j) + FieldLen
      <4>1. LenIn(G, j) = FieldLen
        BY <1>1, <2>1, PieceLength DEF LenIn, BranchAt, FieldAt
      <4> QED BY <1>1, <4>1, StartStep
    <3>7. Promise!Displacement(G, j) = Promise!Position(G, marks[l]) - Promise!Start(G, j + 1)
      BY DEF Promise!Displacement
    <3> HIDE DEF fx, l
    <3>8. labels[fx.label] - (fx.at + FieldLen) = Promise!Displacement(G, j)
      BY <1>4, <3>2, <3>5, <3>6, <3>7 DEF FieldLen
    <3> QED BY <2>1, <3>2, <3>3, <3>8 DEF ValueIn
  <2>2. CASE ~FieldAt(buf, j)
    <3>1. /\ k \notin ToLabels /\ AbsoluteAt(buf, j)
          /\ \E a \in Nat : fixups[k] = ToFunction(Promise!Start(G, j), a)
      BY <1>5, <2>2, FixupKinds DEF ToLabels
    <3>2. fixups'[k] = fixups[k]
      BY <3>1 DEF PatchFixups
    <3> QED BY <3>1, <3>2 DEF ValueIn
  <2> QED BY <2>1, <2>2
<1>6. ValuesIn(G, fixups')
  BY <1>2, <1>3, <1>5 DEF FieldsIn, ValuesIn
<1>7. ASSUME NEW k \in DOMAIN fixups \ ToLabels PROVE fixups[k] \in FunctionFixup
  <2>1. PICK j \in 1 .. Len(buf) : FixupIn(G, j, fixups[k])
    BY DEF FieldsIn
  <2>2. \E a \in Nat : fixups[k] = ToFunction(Promise!Start(G, j), a)
    BY <2>1, FixupKinds DEF ToLabels
  <2> QED BY <1>4, <2>2 DEF ToFunction, FunctionFixup
<1> QED BY <1>6, <1>7 DEF PatchFixups

DoneResult(o, fs, ls) ==
  [length |-> Size(o),
   branches |-> {<<Ends(o)[j - 1], o[j].long, o[j].disp>> : j \in {k \in DOMAIN o : o[k].kind = "branch"}},
   fields |-> {<<fx.at, fx.value>> : fx \in {f \in Range(fs) : "value" \in DOMAIN f}},
   labels |-> ls]

(* The ends of the pieces laid out.                                         *)
LEMMA OutEnds ==
  ASSUME NEW G, NEW o, NEW ls, LaidOut(G, o, ls)
  PROVE  /\ DOMAIN o = 1 .. Len(buf) /\ Len(o) = Len(buf)
         /\ \A j : Ends(o)[j - 1] = Promise!Start(G, j)
         /\ Size(o) = Promise!Start(G, Len(buf) + 1)
         /\ \A j \in 1 .. Len(buf) : o[j] = OutPiece(G, j) /\ (o[j].kind = "branch" <=> BranchAt(buf, j))
<1>1. /\ buf \in Seq(Piece) /\ Len(buf) \in Nat /\ DOMAIN buf = 1 .. Len(buf)
      /\ o = [j \in 1 .. Len(buf) |-> OutPiece(G, j)]
  BY DEF LaidOut
<1>2. DOMAIN o = 1 .. Len(buf) /\ Len(o) = Len(buf)
  BY <1>1
<1>3. ASSUME NEW j \in 1 .. Len(buf)
      PROVE  /\ o[j] = OutPiece(G, j) /\ (o[j].kind = "branch" <=> BranchAt(buf, j))
             /\ o[j].len = Promise!LengthIn(G, j)
  <2>1. o[j] = OutPiece(G, j)
    BY <1>1
  <2>2. Promise!LengthIn(G, j) = LenIn(G, j)
    BY <1>1 DEF Promise!LengthIn, Promise!Branches, LenIn, BranchAt, Promise!ShortLen, ShortLen
  <2>3. OutPiece(G, j).len = LenIn(G, j) /\ (OutPiece(G, j).kind = "branch" <=> BranchAt(buf, j))
    BY DEF OutPiece, LenIn, BranchAt
  <2> QED BY <2>1, <2>2, <2>3
<1>4. [j \in DOMAIN o |-> o[j].len] = [k \in DOMAIN buf |-> Promise!LengthIn(G, k)]
  BY <1>1, <1>2, <1>3
<1>5. \A j : Promise!Start(G, j) = Sums([k \in DOMAIN buf |-> Promise!LengthIn(G, k)], Len(buf))[j - 1]
  BY DEF Promise!Start, Promise!Sums, Sums
<1>6. \A j : Ends(o)[j - 1] = Promise!Start(G, j)
  BY <1>2, <1>4, <1>5 DEF Ends
<1>7. Size(o) = Promise!Start(G, Len(buf) + 1)
  <2>1. (Len(buf) + 1) - 1 = Len(buf)
    BY <1>1
  <2> QED BY <1>2, <1>6, <2>1 DEF Size
<1> QED BY <1>2, <1>3, <1>6, <1>7

(* What is returned is the layout.                                          *)
LEMMA ResultLaid ==
  ASSUME NEW o, NEW fs, NEW ls, LaidOut(Promise!LeastLong, o, ls), ValuesIn(Promise!LeastLong, fs)
  PROVE  DoneResult(o, fs, ls) = Promise!Layout
<1> DEFINE G == Promise!LeastLong
           branch(j) == <<Promise!Start(G, j), j \in G, Promise!Displacement(G, j)>>
           layout == [length |-> Promise!Start(G, Len(buf) + 1),
             branches |-> {branch(j) : j \in Promise!Branches},
             fields |-> {<<Promise!Start(G, j), Promise!Displacement(G, j)>> : j \in Promise!Fields},
             labels |-> [l \in Label |-> IF marks[l] = Unbound THEN Unbound
                                         ELSE Promise!Position(G, marks[l])]]
<1>1. Promise!Layout = layout
  BY DEF Promise!Layout
<1>2. LaidOut(G, o, ls) /\ ValuesIn(G, fs)
  OBVIOUS
<1> HIDE DEF G
<1>3. /\ DOMAIN o = 1 .. Len(buf) /\ Len(o) = Len(buf)
      /\ \A j : Ends(o)[j - 1] = Promise!Start(G, j)
      /\ Size(o) = Promise!Start(G, Len(buf) + 1)
      /\ \A j \in 1 .. Len(buf) : o[j] = OutPiece(G, j) /\ (o[j].kind = "branch" <=> BranchAt(buf, j))
  BY <1>2, OutEnds
<1>4. DOMAIN buf = 1 .. Len(buf) /\ Promise!Fields = {j \in 1 .. Len(buf) : FieldAt(buf, j)}
  BY <1>2, FieldsAre DEF LaidOut
<1>5. DoneResult(o, fs, ls).branches = layout.branches
  <2>1. {k \in DOMAIN o : o[k].kind = "branch"} = Promise!Branches
    BY <1>3, <1>4 DEF Promise!Branches, BranchAt
  <2>2. ASSUME NEW j \in Promise!Branches
        PROVE  <<Ends(o)[j - 1], o[j].long, o[j].disp>> = branch(j)
    <3>1. j \in 1 .. Len(buf) /\ BranchAt(buf, j)
      BY <1>4 DEF Promise!Branches, BranchAt
    <3>2. o[j] = [kind |-> "branch", len |-> LenIn(G, j), long |-> j \in G,
                  disp |-> Promise!Displacement(G, j)]
      BY <1>3, <3>1 DEF OutPiece
    <3>3. o[j].long = (j \in G) /\ o[j].disp = Promise!Displacement(G, j)
      BY <3>2
    <3> QED BY <1>3, <3>3
  <2>3. DoneResult(o, fs, ls).branches =
          {<<Ends(o)[j - 1], o[j].long, o[j].disp>> : j \in {k \in DOMAIN o : o[k].kind = "branch"}}
    BY DEF DoneResult
  <2>4. layout.branches = {branch(j) : j \in Promise!Branches}
    OBVIOUS
  <2> HIDE DEF layout, branch
  <2> QED BY <2>1, <2>2, <2>3, <2>4
<1>6. DoneResult(o, fs, ls).fields = layout.fields
  <2> DEFINE val(j) == [at |-> Promise!Start(G, j), value |-> Promise!Displacement(G, j)]
             field(j) == <<Promise!Start(G, j), Promise!Displacement(G, j)>>
  <2>1. Range(fs) = {fs[k] : k \in DOMAIN fs}
    BY DEF Range
  <2>2. \A j : "value" \in DOMAIN val(j) /\ <<val(j).at, val(j).value>> = field(j)
    OBVIOUS
  <2>3. \A at, a : "value" \notin DOMAIN ToFunction(at, a)
    BY DEF ToFunction
  <2>4. \A j, fx : ValueIn(G, j, fx) =>
                     \/ FieldAt(buf, j) /\ fx = val(j)
                     \/ \E a \in Nat : fx = ToFunction(Promise!Start(G, j), a)
    BY DEF ValueIn
  <2>5. \A j, fx : ValueIn(G, j, fx) /\ FieldAt(buf, j) => fx = val(j)
    BY DEF ValueIn, FieldAt, AbsoluteAt
  <2>6. {f \in Range(fs) : "value" \in DOMAIN f} = {val(j) : j \in Promise!Fields}
    <3> HIDE DEF val, field
    <3>1. ASSUME NEW f \in Range(fs), "value" \in DOMAIN f PROVE \E j \in Promise!Fields : f = val(j)
      <4>1. PICK k \in DOMAIN fs : f = fs[k]
        BY <2>1
      <4>2. PICK j \in 1 .. Len(buf) : ValueIn(G, j, fs[k])
        BY <1>2 DEF ValuesIn
      <4> QED BY <1>4, <2>3, <2>4, <3>1, <4>1, <4>2
    <3>2. ASSUME NEW j \in Promise!Fields PROVE val(j) \in Range(fs) /\ "value" \in DOMAIN val(j)
      <4>1. j \in 1 .. Len(buf) /\ FieldAt(buf, j)
        BY <1>4
      <4>2. PICK k \in DOMAIN fs : ValueIn(G, j, fs[k])
        BY <1>2, <4>1 DEF ValuesIn
      <4> QED BY <2>1, <2>2, <2>5, <4>1, <4>2
    <3> QED BY <3>1, <3>2
  <2>7. DoneResult(o, fs, ls).fields = {<<fx.at, fx.value>> : fx \in {f \in Range(fs) : "value" \in DOMAIN f}}
    BY DEF DoneResult
  <2>8. layout.fields = {field(j) : j \in Promise!Fields}
    OBVIOUS
  <2> HIDE DEF layout, val, field
  <2> QED BY <2>2, <2>6, <2>7, <2>8
<1>7. DoneResult(o, fs, ls).length = layout.length /\ DoneResult(o, fs, ls).labels = layout.labels
  BY <1>2, <1>3 DEF DoneResult, LaidOut
<1>8. /\ DoneResult(o, fs, ls) =
           [length |-> DoneResult(o, fs, ls).length, branches |-> DoneResult(o, fs, ls).branches,
            fields |-> DoneResult(o, fs, ls).fields, labels |-> DoneResult(o, fs, ls).labels]
      /\ layout = [length |-> layout.length, branches |-> layout.branches,
                   fields |-> layout.fields, labels |-> layout.labels]
  BY DEF DoneResult
<1> HIDE DEF layout
<1> QED BY <1>1, <1>5, <1>6, <1>7, <1>8

-----------------------------------------------------------------------------
(* The parts of the invariant *)

Laid == LaidOut(Promise!LeastLong, out, labels)
AtFields == FieldsIn(Promise!LeastLong, fixups)
AtValues == ValuesIn(Promise!LeastLong, fixups)

(* What finishing leaves alone keeps the layout it has.                      *)
LEMMA LaidNext ==
  ASSUME UNCHANGED <<buf, marks>>, LaidOut(Promise!LeastLong, out', labels')
  PROVE  Laid'
<1>1. /\ Promise!Branches' = Promise!Branches
      /\ \A S, p : Promise!Position(S, p)' = Promise!Position(S, p)
      /\ \A S, j : Promise!Displacement(S, j)' = Promise!Displacement(S, j)
      /\ Promise!LeastLong' = Promise!LeastLong
  BY SameLayout
<1>2. \A S, j : OutPiece(S, j)' = OutPiece(S, j)
  BY <1>1 DEF OutPiece, LenIn
<1> QED BY <1>1, <1>2 DEF Laid, LaidOut

LEMMA AtFieldsNext ==
  ASSUME UNCHANGED <<buf, marks>>, FieldsIn(Promise!LeastLong, fixups')
  PROVE  AtFields'
<1>1. /\ \A S, j : Promise!Start(S, j)' = Promise!Start(S, j)
      /\ Promise!LeastLong' = Promise!LeastLong
  BY SameLayout
<1>2. \A S, j, fx : FixupIn(S, j, fx)' <=> FixupIn(S, j, fx)
  BY <1>1 DEF FixupIn
<1> QED BY <1>1, <1>2 DEF AtFields, FieldsIn

LEMMA AtValuesNext ==
  ASSUME UNCHANGED <<buf, marks>>, ValuesIn(Promise!LeastLong, fixups')
  PROVE  AtValues'
<1>1. /\ \A S, j : Promise!Start(S, j)' = Promise!Start(S, j)
      /\ \A S, j : Promise!Displacement(S, j)' = Promise!Displacement(S, j)
      /\ Promise!LeastLong' = Promise!LeastLong /\ Promise!Fields' = Promise!Fields
  BY SameLayout
<1>2. \A S, j, fx : ValueIn(S, j, fx)' <=> ValueIn(S, j, fx)
  BY <1>1 DEF ValueIn
<1> QED BY <1>1, <1>2 DEF AtValues, ValuesIn

-----------------------------------------------------------------------------
(* The invariant *)

(* The types that hold whatever is going on.                                *)
Typed ==
  /\ labels \in [Label -> Nat \union {Unbound}]
  /\ relaxes \in Seq([at : Nat, len : Nat, label : Label])
  /\ long \subseteq 1 .. Len(buf)
  /\ relocs \subseteq FunctionFixup
  /\ \A k \in DOMAIN fixups :
       fixups[k] \in LabelFixup \union FunctionFixup \union [at : Nat, value : Int]

EmitInv == Emitted /\ (phase = "emit" => long = {}) /\ (phase = "relax" => Needed)
LaidInv == Laid /\ relaxes = <<>> /\ long \subseteq 1 .. Len(buf)

Inv ==
  /\ phase \in {"emit", "relax", "patch", "done", "failed"}
  /\ phase \in {"emit", "relax"} => EmitInv
  /\ phase = "patch" => LaidInv /\ AtFields /\ relocs = {}
  /\ phase = "done" => LaidInv /\ AtValues /\ relocs \subseteq FunctionFixup
  /\ phase = "failed" => Typed

(* There are no more branches than pieces.                                  *)
LEMMA RankBound ==
  ASSUME NEW b, NEW n \in Nat
  PROVE  Rank(b, n) <= n
<1> DEFINE U == {j \in Nat : Rank(b, j) <= j}
<1>1. 0 \in U
  BY RankStep
<1>2. ASSUME NEW j \in Nat, j \in U PROVE j + 1 \in U
  <2>1. Rank(b, j) \in Nat /\ Rank(b, j) <= j /\ Rank(b, j + 1) \in Nat
    BY <1>2, RankStep
  <2>2. Rank(b, j + 1) = Rank(b, j) + 1 \/ Rank(b, j + 1) = Rank(b, j) + 0
    BY RankStep
  <2> QED BY <2>1, <2>2
<1>3. Nat \subseteq U
  <2> HIDE DEF U
  <2> QED BY <1>1, <1>2, NatsIn
<1> QED BY <1>3

(* The types follow from what is known in each phase.                        *)
LEMMA EmittedTyped ==
  ASSUME Emitted
  PROVE  Typed
<1>1. /\ Recording /\ LabelsFit(buf, labels, marks) /\ buf \in Seq(Piece)
      /\ DOMAIN relaxes = 1 .. Len(relaxes)
  BY EmittedRecording
<1>2. labels \in [Label -> Nat \union {Unbound}]
  BY <1>1 DEF LabelsFit
<1>3. relaxes \in Seq([at : Nat, len : Nat, label : Label]) /\ Len(relaxes) = Rank(buf, Len(buf))
  BY <1>1 DEF Recording, BranchesFit
<1>4. long \subseteq 1 .. Len(buf)
  <2>1. Len(buf) \in Nat
    BY <1>1
  <2>2. Rank(buf, Len(buf)) <= Len(buf) /\ Rank(buf, Len(buf)) \in Nat
    BY <2>1, RankBound, RankStep
  <2>3. 1 .. Len(relaxes) \subseteq 1 .. Len(buf)
    BY <1>3, <2>1, <2>2
  <2>4. long \subseteq DOMAIN relaxes
    BY DEF Emitted
  <2> QED BY <1>1, <2>3, <2>4
<1>5. \A k \in DOMAIN fixups : fixups[k] \in LabelFixup \union FunctionFixup
  <2> DEFINE S == LabelFixup \union FunctionFixup
  <2>1. fixups \in Seq(S)
    BY DEF Emitted, Fit, EmittedFit, FieldsFit
  <2> HIDE DEF S
  <2>2. \A k \in DOMAIN fixups : fixups[k] \in S
    BY <2>1
  <2> QED BY <2>2 DEF S
<1> QED BY <1>2, <1>3, <1>4, <1>5 DEF Typed, Emitted

LEMMA LaidTyped ==
  ASSUME LaidInv, relocs \subseteq FunctionFixup, AtFields \/ AtValues
  PROVE  Typed
<1> DEFINE G == Promise!LeastLong
<1>0. LaidOut(G, out, labels) /\ relaxes = <<>> /\ long \subseteq 1 .. Len(buf)
      /\ (FieldsIn(G, fixups) \/ ValuesIn(G, fixups))
  BY DEF LaidInv, Laid, AtFields, AtValues
<1> HIDE DEF G
<1>1. buf \in Seq(Piece) /\ Len(buf) \in Nat
  BY <1>0 DEF LaidOut
<1>2. labels \in [Label -> Nat \union {Unbound}]
  <2>1. \A l \in Label : marks[l] # Unbound => Promise!Position(G, marks[l]) \in Nat
    BY <1>0, <1>1, PositionTyped DEF LaidOut
  <2> QED BY <1>0, <2>1 DEF LaidOut
<1>3. \A j \in 1 .. Len(buf) : Promise!Start(G, j) \in Nat /\ Promise!Start(G, j + 1) \in Nat
  <2>1. \A j \in 1 .. Len(buf) : j \in 1 .. (Len(buf) + 1) /\ j + 1 \in 1 .. (Len(buf) + 1)
    BY <1>1
  <2> QED BY <1>1, <2>1, StartStep
<1>4. ASSUME NEW k \in DOMAIN fixups, FieldsIn(G, fixups)
      PROVE  fixups[k] \in LabelFixup \union FunctionFixup
  <2>1. PICK j \in 1 .. Len(buf) : FixupIn(G, j, fixups[k])
    BY <1>4 DEF FieldsIn
  <2>2. FieldAt(buf, j) => buf[j].label \in Label
    BY <1>1, PieceLength DEF FieldAt
  <2> QED BY <1>3, <2>1, <2>2 DEF FixupIn, ToLabel, ToFunction, LabelFixup, FunctionFixup
<1>5. ASSUME NEW k \in DOMAIN fixups, ValuesIn(G, fixups)
      PROVE  fixups[k] \in FunctionFixup \union [at : Nat, value : Int]
  <2>1. PICK j \in 1 .. Len(buf) : ValueIn(G, j, fixups[k])
    BY <1>5 DEF ValuesIn
  <2>2. ASSUME FieldAt(buf, j) PROVE Promise!Displacement(G, j) \in Int
    <3>1. j \in Promise!Fields /\ buf[j].label \in Label
      BY <1>1, <2>2, FieldsAre, PieceLength DEF FieldAt
    <3>2. PlaceIn(buf, marks[buf[j].label])
      BY <1>0, <1>5, <3>1 DEF LaidOut, ValuesIn
    <3>3. Promise!Position(G, marks[buf[j].label]) \in Nat
      BY <1>1, <3>2, PositionTyped
    <3> QED BY <1>3, <3>3 DEF Promise!Displacement
  <2>3. CASE FieldAt(buf, j) /\ fixups[k] = [at |-> Promise!Start(G, j), value |-> Promise!Displacement(G, j)]
    BY <1>3, <2>2, <2>3
  <2>4. CASE \E a \in Nat : fixups[k] = ToFunction(Promise!Start(G, j), a)
    BY <1>3, <2>4 DEF ToFunction, FunctionFixup
  <2> QED BY <2>1, <2>3, <2>4 DEF ValueIn
<1> QED BY <1>0, <1>2, <1>4, <1>5 DEF Typed

LEMMA InvTyped ==
  ASSUME Inv
  PROVE  Typed
<1>1. CASE phase \in {"emit", "relax"}
  BY <1>1, EmittedTyped DEF Inv, EmitInv
<1>2. CASE phase = "patch"
  BY <1>2, LaidTyped DEF Inv
<1>3. CASE phase = "done"
  BY <1>3, LaidTyped DEF Inv
<1> QED BY <1>1, <1>2, <1>3 DEF Inv

(* While nothing has moved, what is recorded is in order.                   *)
LEMMA RecordedInOrder ==
  ASSUME Recording
  PROVE  /\ {r.at : r \in Range(relaxes)} =
              {Ends(buf)[j - 1] : j \in {k \in DOMAIN buf : buf[k].kind = "branch"}}
         /\ \A i \in 1 .. Len(relaxes) - 1 : relaxes[i].at < relaxes[i + 1].at
<1>1. /\ buf \in Seq(Piece) /\ DOMAIN buf = 1 .. Len(buf) /\ Len(buf) \in Nat
      /\ DOMAIN relaxes = 1 .. Len(relaxes) /\ Len(relaxes) \in Nat
  BY DEF Recording, BranchesFit
<1>2. Range(relaxes) = {relaxes[i] : i \in 1 .. Len(relaxes)}
  BY <1>1 DEF Range
<1>3. \A i \in 1 .. Len(relaxes) : \E j \in 1 .. Len(buf) : BranchAt(buf, j) /\ Rank(buf, j) = i
  BY DEF Recording, BranchesFit
<1>4. \A j \in 1 .. Len(buf) : BranchAt(buf, j) =>
        Rank(buf, j) \in 1 .. Len(relaxes) /\ relaxes[Rank(buf, j)].at = Ends(buf)[j - 1]
  BY RecordedRange
<1>5. {r.at : r \in Range(relaxes)} =
        {Ends(buf)[j - 1] : j \in {k \in DOMAIN buf : buf[k].kind = "branch"}}
  <2> DEFINE J == {k \in DOMAIN buf : buf[k].kind = "branch"}
  <2>1. J = {k \in 1 .. Len(buf) : BranchAt(buf, k)}
    BY <1>1 DEF BranchAt
  <2> HIDE DEF J
  <2>2. {r.at : r \in Range(relaxes)} = {relaxes[i].at : i \in 1 .. Len(relaxes)}
    BY <1>2
  <2>3. ASSUME NEW i \in 1 .. Len(relaxes) PROVE \E j \in J : relaxes[i].at = Ends(buf)[j - 1]
    BY <1>3, <1>4, <2>1
  <2>4. ASSUME NEW j \in J PROVE \E i \in 1 .. Len(relaxes) : Ends(buf)[j - 1] = relaxes[i].at
    BY <1>4, <2>1
  <2>5. {relaxes[i].at : i \in 1 .. Len(relaxes)} = {Ends(buf)[j - 1] : j \in J}
    BY <2>3, <2>4
  <2> QED BY <2>2, <2>5 DEF J
<1>6. ASSUME NEW i \in 1 .. Len(relaxes) - 1 PROVE relaxes[i].at < relaxes[i + 1].at
  <2>0. i \in 1 .. Len(relaxes) /\ i + 1 \in 1 .. Len(relaxes) /\ i \in Nat
    BY <1>1
  <2>1. PICK j \in 1 .. Len(buf) : BranchAt(buf, j) /\ Rank(buf, j) = i
    BY <1>3, <2>0
  <2>2. PICK k \in 1 .. Len(buf) : BranchAt(buf, k) /\ Rank(buf, k) = i + 1
    BY <1>3, <2>0
  <2>3. j <= k - 1
    <3>1. Rank(buf, k) <= Rank(buf, j) <=> k <= j
      BY <1>1, <2>2, RankOrder
    <3>2. ~(Rank(buf, k) <= Rank(buf, j))
      BY <2>0, <2>1, <2>2
    <3> QED BY <1>1, <3>1, <3>2
  <2>4. /\ Ends(buf)[j] = Ends(buf)[j - 1] + buf[j].len /\ Ends(buf)[j] <= Ends(buf)[k - 1]
        /\ Ends(buf)[j] \in Nat /\ Ends(buf)[j - 1] \in Nat /\ Ends(buf)[k - 1] \in Nat
    <3>1. j \in 0 .. Len(buf) /\ j - 1 \in 0 .. Len(buf) /\ k - 1 \in j .. Len(buf) /\ k - 1 \in 0 .. Len(buf)
      BY <1>1, <2>3
    <3> QED BY <1>1, <3>1, EndsStep
  <2>5. buf[j].len \in Nat /\ buf[j].len > 0
    BY <1>1, <2>1, PieceLength DEF BranchAt, ShortLen
  <2>6. relaxes[i].at = Ends(buf)[j - 1] /\ relaxes[i + 1].at = Ends(buf)[k - 1]
    BY <1>4, <2>1, <2>2
  <2> QED BY <2>4, <2>5, <2>6
<1> QED BY <1>5, <1>6

LEMMA InvTypeOK ==
  ASSUME Inv
  PROVE  TypeOK
<1>1. Typed /\ phase \in {"emit", "relax", "patch", "done", "failed"}
  BY InvTyped DEF Inv
<1>2. CASE phase \in {"emit", "relax"}
  <2>1. Recording
    BY <1>2, EmittedRecording DEF Inv, EmitInv
  <2> QED BY <1>1, <1>2, <2>1, RecordedInOrder DEF Typed, TypeOK
<1>3. CASE phase \in {"patch", "done"}
  <2>1. Len(out) = Len(buf)
    BY <1>3, OutEnds DEF Inv, LaidInv, Laid
  <2> QED BY <1>1, <1>3, <2>1 DEF Typed, TypeOK
<1>4. CASE phase = "failed"
  BY <1>1, <1>4 DEF Typed, TypeOK
<1> QED BY <1>1, <1>2, <1>3, <1>4

-----------------------------------------------------------------------------
(* Every step *)

Emit ==
  \/ \E n \in CodeLen : Bytes(n)
  \/ \E l \in Label \ {FragmentLabel} : BindLabel(l) \/ EmitBranch(l) \/ Reference(l)
  \/ \E before, after \in FragmentLen : \E off \in 0 .. before + FieldLen + after :
       Splice(before, after, off)

(* A step is of one of these kinds.                                          *)
LEMMA NextSplit ==
  ASSUME Next
  PROVE  Finish \/ Grow \/ UndefinedTarget \/ Rebuild \/ PatchFixups \/ UndefinedLabel \/ Returned \/ Emit
  BY DEF Next, Emit

(* Nothing is emitted at first.                                              *)
LEMMA InitInv ==
  ASSUME Init
  PROVE  Inv
<1>1. /\ buf = <<>> /\ relaxes = <<>> /\ fixups = <<>> /\ long = {} /\ relocs = {} /\ phase = "emit"
      /\ labels = [l \in Label |-> Unbound] /\ marks = [l \in Label |-> Unbound]
  BY DEF Init
<1>2. LabelsFit(buf, labels, marks)
  BY <1>1 DEF LabelsFit
<1>3. BranchesFit(buf, relaxes)
  <2>1. Rank(buf, 0) = 0
    BY RankStep
  <2> QED BY <1>1, <2>1 DEF BranchesFit
<1>4. FieldsFit(buf, fixups)
  BY <1>1 DEF FieldsFit
<1>5. buf \in Seq(Piece)
  BY <1>1
<1>6. Emitted
  BY <1>1, <1>2, <1>3, <1>4, <1>5 DEF Emitted, Fit, EmittedFit
<1> QED BY <1>1, <1>6 DEF Inv, EmitInv

(* Emitting keeps the invariant,                                             *)
LEMMA EmitInvNext ==
  ASSUME Inv, Emit
  PROVE  Inv'
<1>1. phase = "emit" /\ phase' = "emit" /\ UNCHANGED <<long, relocs>>
  BY DEF Emit, Bytes, BindLabel, EmitBranch, Reference, Splice, Room
<1>2. Emitted /\ Fit /\ long = {} /\ relocs = {}
  BY <1>1 DEF Inv, EmitInv, Emitted
<1>3. Fit'
  <2>1. ASSUME NEW n \in CodeLen, Bytes(n) PROVE Fit'
    BY <1>2, <2>1, BytesFit
  <2>2. ASSUME NEW l \in Label, BindLabel(l) \/ EmitBranch(l) \/ Reference(l) PROVE Fit'
    BY <1>2, <2>2, BindLabelFit, EmitBranchFit, ReferenceFit
  <2>3. ASSUME NEW before \in FragmentLen, NEW after \in FragmentLen, NEW off,
               Splice(before, after, off)
        PROVE  Fit'
    <3>1. before \in Nat /\ after \in Nat
      BY LengthAssumption
    <3> QED BY <1>2, <2>3, <3>1, SpliceFit
  <2> QED BY <2>1, <2>2, <2>3 DEF Emit
<1> QED BY <1>1, <1>2, <1>3 DEF Inv, EmitInv, Emitted

(* and so do the steps of finishing, one by one.                             *)
LEMMA FinishInv ==
  ASSUME Inv, Finish
  PROVE  Inv'
<1>1. Emitted /\ long = {} /\ UNCHANGED <<buf, labels, fixups, relaxes, long, relocs, marks>>
  BY DEF Inv, EmitInv, Finish
<1>2. CASE relaxes = <<>>
  <2>1. phase' = "patch" /\ out' = buf
    BY <1>2 DEF Finish
  <2>2. /\ LaidOut(Promise!LeastLong, buf, labels) /\ FieldsIn(Promise!LeastLong, fixups)
    BY <1>1, <1>2, NothingToRelax
  <2>3. LaidOut(Promise!LeastLong, out', labels') /\ FieldsIn(Promise!LeastLong, fixups')
    BY <1>1, <2>1, <2>2
  <2>4. Laid' /\ AtFields'
    BY <1>1, <2>3, LaidNext, AtFieldsNext
  <2> QED BY <1>1, <1>2, <2>1, <2>4 DEF Inv, LaidInv, Emitted
<1>3. CASE relaxes # <<>>
  <2>1. phase' = "relax"
    BY <1>3 DEF Finish
  <2>2. Emitted'
    BY <1>1 DEF Emitted, Fit, EmittedFit
  <2>3. Needed'
    BY <1>1 DEF Needed, Grown
  <2> QED BY <2>1, <2>2, <2>3 DEF Inv, EmitInv
<1> QED BY <1>2, <1>3

LEMMA GrowInv ==
  ASSUME Inv, Grow
  PROVE  Inv'
<1>1. Emitted /\ Needed /\ phase' = "relax"
  BY DEF Inv, EmitInv, Grow
<1>2. Needed'
  BY <1>1, GrowNeeded
<1>3. Emitted'
  BY <1>1 DEF Grow, Emitted, Fit, EmittedFit
<1> QED BY <1>1, <1>2, <1>3 DEF Inv, EmitInv

LEMMA RebuildInv ==
  ASSUME Inv, Rebuild
  PROVE  Inv'
<1>1. /\ Emitted /\ Needed /\ phase' = "patch" /\ relaxes' = <<>> /\ UNCHANGED <<buf, long, relocs, marks>>
  BY DEF Inv, EmitInv, Rebuild
<1>2. Promise!LeastLong = Grown
  BY <1>1, GrownLeast DEF Rebuild
<1>3. LaidOut(Promise!LeastLong, out', labels') /\ FieldsIn(Promise!LeastLong, fixups')
  BY <1>1, <1>2, RebuildLaid
<1>4. Laid' /\ AtFields'
  BY <1>1, <1>3, LaidNext, AtFieldsNext
<1>5. long \subseteq 1 .. Len(buf)
  BY <1>1, EmittedTyped DEF Typed
<1> QED BY <1>1, <1>4, <1>5 DEF Inv, LaidInv, Emitted

LEMMA PatchFixupsInv ==
  ASSUME Inv, PatchFixups
  PROVE  Inv'
<1>1. /\ LaidInv /\ AtFields /\ phase' = "done" /\ UNCHANGED <<buf, labels, relaxes, long, out, marks>>
  BY DEF Inv, PatchFixups
<1>2. LaidOut(Promise!LeastLong, out, labels) /\ FieldsIn(Promise!LeastLong, fixups)
  BY <1>1 DEF LaidInv, Laid, AtFields
<1>3. ValuesIn(Promise!LeastLong, fixups') /\ relocs' \subseteq FunctionFixup
  BY <1>2, PatchedValues
<1>4. LaidOut(Promise!LeastLong, out', labels')
  BY <1>1, <1>2
<1>5. Laid' /\ AtValues'
  BY <1>1, <1>3, <1>4, LaidNext, AtValuesNext
<1> QED BY <1>1, <1>3, <1>5 DEF Inv, LaidInv

LEMMA FailedInv ==
  ASSUME Inv, UndefinedTarget \/ UndefinedLabel
  PROVE  Inv'
<1>1. Typed
  BY InvTyped
<1>2. phase' = "failed" /\ UNCHANGED <<buf, labels, fixups, relaxes, long, relocs>>
  BY DEF UndefinedTarget, UndefinedLabel
<1> QED BY <1>1, <1>2 DEF Inv, Typed

(* Nothing changes once finishing has returned.                              *)
LEMMA StutterInv ==
  ASSUME Inv, UNCHANGED vars
  PROVE  Inv'
<1>1. UNCHANGED <<buf, labels, fixups, relaxes, long, out, relocs, phase, marks>>
  BY DEF vars
<1>2. Emitted => Emitted'
  BY <1>1 DEF Emitted, Fit, EmittedFit
<1>3. Needed => Needed'
  <2>1. Promise!Branches' = Promise!Branches /\ \A S : Promise!Reaches(S)' <=> Promise!Reaches(S)
    BY <1>1, SameLayout
  <2>2. Grown' = Grown
    BY <1>1 DEF Grown
  <2> QED BY <1>1, <2>1, <2>2 DEF Needed
<1>4. Laid => Laid'
  BY <1>1, LaidNext DEF Laid
<1>5. AtFields => AtFields'
  BY <1>1, AtFieldsNext DEF AtFields
<1>6. AtValues => AtValues'
  BY <1>1, AtValuesNext DEF AtValues
<1>7. Typed => Typed'
  BY <1>1 DEF Typed
<1> QED BY <1>1, <1>2, <1>3, <1>4, <1>5, <1>6, <1>7 DEF Inv, EmitInv, LaidInv

(* The invariant holds throughout.                                           *)
THEOREM EmitterInvariant == Spec => []Inv
<1>1. Init => Inv
  BY InitInv
<1>2. Inv /\ [Next]_vars => Inv'
  <2> SUFFICES ASSUME Inv, [Next]_vars PROVE Inv'
    OBVIOUS
  <2>1. CASE Next
    <3>1. CASE Returned
      BY <3>1, StutterInv DEF Returned
    <3> QED BY <2>1, <3>1, NextSplit, EmitInvNext, FinishInv, GrowInv, RebuildInv, PatchFixupsInv, FailedInv
  <2>2. CASE UNCHANGED vars
    BY <2>2, StutterInv
  <2> QED BY <2>1, <2>2
<1> QED BY <1>1, <1>2, PTL DEF Spec

(* The types of Emitter, and that branches are recorded in order at the      *)
(* offsets of their pieces, for every program.                               *)
THEOREM EmitterTyped == Spec => []TypeOK
<1>1. Inv => TypeOK
  BY InvTypeOK
<1> QED BY <1>1, EmitterInvariant, PTL

-----------------------------------------------------------------------------
(* The refinement *)

(* Emission writes: pieces are only appended.                               *)
LEMMA EmitWrites ==
  ASSUME Inv, Emit
  PROVE  Promise!Write
<1>1. /\ phase = "emit" /\ phase' = "emit" /\ buf \in Seq(Piece)
      /\ marks \in [Label -> (Nat \X Nat) \union {Unbound}]
  <2>1. phase = "emit" /\ phase' = "emit"
    BY DEF Emit, Bytes, BindLabel, EmitBranch, Reference, Splice, Room
  <2> QED BY <2>1 DEF Inv, EmitInv, Emitted, Fit, EmittedFit, LabelsFit
<1>2. Result = Unfinished /\ Result' = Unfinished
  BY <1>1 DEF Result
<1>3. IsPrefix(buf, buf')
  <2>1. \A x \in Piece : IsPrefix(buf, Append(buf, x))
    BY <1>1 DEF IsPrefix
  <2>2. \A x, y, z \in Piece : IsPrefix(buf, buf \o <<x, y, z>>)
    BY <1>1 DEF IsPrefix
  <2>3. IsPrefix(buf, buf)
    BY <1>1 DEF IsPrefix
  <2>4. ASSUME NEW n \in CodeLen, Bytes(n) PROVE IsPrefix(buf, buf')
    BY <2>1, <2>4, PiecesMade, LengthAssumption DEF Bytes
  <2>5. ASSUME NEW l \in Label, BindLabel(l) \/ EmitBranch(l) \/ Reference(l) PROVE IsPrefix(buf, buf')
    BY <2>1, <2>3, <2>5, PiecesMade DEF BindLabel, EmitBranch, Reference
  <2>6. ASSUME NEW before \in FragmentLen, NEW after \in FragmentLen, NEW off,
               Splice(before, after, off)
        PROVE  IsPrefix(buf, buf')
    <3>1. before \in Nat /\ after \in Nat
      BY LengthAssumption
    <3>2. Code(before) \in Piece /\ Code(after) \in Piece /\ Pcrel(FragmentLabel) \in Piece
      BY <3>1, PiecesMade, LabelAssumption
    <3>3. off \in 0 .. before + FieldLen + after => FragmentPlace(before, off) \in Nat \X Nat
      BY <1>1, <3>1 DEF FragmentPlace, FieldLen
    <3>4. off \in 0 .. before + FieldLen + after
      BY <2>6 DEF Splice
    <3>5. Absolute(FragmentPlace(before, off)) \in Piece
      BY <3>3, <3>4, PiecesMade
    <3> QED BY <2>2, <2>6, <3>2, <3>5 DEF Splice
  <2> QED BY <2>4, <2>5, <2>6 DEF Emit
<1>4. DOMAIN marks' = Label
  BY <1>1 DEF Emit, Bytes, BindLabel, EmitBranch, Reference, Splice
<1>5. Promise!IsPrefix(buf, buf')
  BY <1>3 DEF IsPrefix, Promise!IsPrefix
<1> QED BY <1>2, <1>4, <1>5 DEF Promise!Write

(* relax changes nothing that can be seen.                                  *)
LEMMA RelaxHidden ==
  ASSUME Finish \/ Grow \/ Rebuild
  PROVE  UNCHANGED Promise!vars
<1>1. UNCHANGED <<buf, marks>> /\ phase \in {"emit", "relax"} /\ phase' \in {"relax", "patch"}
  BY DEF Finish, Grow, Rebuild
<1>2. Result = Unfinished /\ Result' = Unfinished
  BY <1>1 DEF Result
<1> QED BY <1>1, <1>2 DEF Promise!vars

(* A finished program is the layout.                                        *)
LEMMA PatchFinishes ==
  ASSUME Inv, PatchFixups
  PROVE  Promise!Finish
<1>1. /\ LaidOut(Promise!LeastLong, out, labels) /\ FieldsIn(Promise!LeastLong, fixups)
      /\ phase = "patch" /\ phase' = "done" /\ UNCHANGED <<buf, labels, out, marks>>
  BY DEF Inv, LaidInv, Laid, AtFields, PatchFixups
<1>2. ValuesIn(Promise!LeastLong, fixups')
  BY <1>1, PatchedValues
<1>3. DoneResult(out', fixups', labels') = Promise!Layout
  <2>1. LaidOut(Promise!LeastLong, out', labels')
    BY <1>1
  <2> QED BY <1>2, <2>1, ResultLaid
<1>4. Result' = DoneResult(out', fixups', labels') /\ Result = Unfinished
  BY <1>1 DEF Result, DoneResult
<1>5. ~ \E j \in Promise!Branches \union Promise!Fields : marks[buf[j].label] = Unbound
  BY <1>1, <1>2 DEF LaidOut, ValuesIn
<1> QED BY <1>1, <1>3, <1>4, <1>5 DEF Promise!Finish

(* Only a label that was never bound is an error.                           *)
LEMMA FailureFinishes ==
  ASSUME Inv, UndefinedTarget \/ UndefinedLabel
  PROVE  Promise!Finish
<1>1. phase \in {"relax", "patch"} /\ phase' = "failed" /\ UNCHANGED <<buf, marks>>
  BY DEF UndefinedTarget, UndefinedLabel
<1>2. Result = Unfinished /\ Result' = Undefined
  BY <1>1 DEF Result
<1>3. \E j \in Promise!Branches \union Promise!Fields : marks[buf[j].label] = Unbound
  <2>1. CASE UndefinedTarget
    <3>1. Emitted /\ ~LabelsBound
      BY <2>1 DEF UndefinedTarget, Inv, EmitInv
    <3>2. /\ Recording /\ LabelsFit(buf, labels, marks) /\ buf \in Seq(Piece)
          /\ Promise!Branches = {j \in 1 .. Len(buf) : BranchAt(buf, j)}
          /\ DOMAIN relaxes = 1 .. Len(relaxes)
      BY <3>1, EmittedRecording
    <3>3. PICK i \in 1 .. Len(relaxes) : labels[relaxes[i].label] = Unbound
      BY <3>1, <3>2 DEF LabelsBound
    <3>4. PICK j \in 1 .. Len(buf) : BranchAt(buf, j) /\ Rank(buf, j) = i
      BY <3>2 DEF Recording, BranchesFit
    <3>5. relaxes[i].label = buf[j].label /\ buf[j].label \in Label /\ j \in Promise!Branches
      BY <3>2, <3>4, RecordedRange, PieceLength DEF BranchAt
    <3>6. marks[buf[j].label] = Unbound
      BY <3>2, <3>3, <3>5, LabelBound
    <3> QED BY <3>5, <3>6
  <2>2. CASE UndefinedLabel
    <3>1. LaidOut(Promise!LeastLong, out, labels) /\ FieldsIn(Promise!LeastLong, fixups)
      BY <2>2 DEF UndefinedLabel, Inv, LaidInv, Laid, AtFields
    <3>2. PICK k \in ToLabels : labels[fixups[k].label] = Unbound
      BY <2>2 DEF UndefinedLabel
    <3>3. PICK j \in Promise!Fields : fixups[k].label = buf[j].label
      BY <3>1, FieldLabels
    <3>4. marks[buf[j].label] = Unbound
      BY <3>1, <3>2, <3>3, FieldLabels
    <3> QED BY <3>4
  <2> QED BY <2>1, <2>2
<1> QED BY <1>1, <1>2, <1>3 DEF Promise!Finish

(* Whatever is emitted and wherever its labels are, finishing it returns     *)
(* the layout with as few long branches as there can be, in which every      *)
(* displacement and field leads to the place its label was bound to, or the  *)
(* error if a label was never bound.                                         *)
THEOREM EmitterImplements == Spec => Implements
<1>1. Init => Promise!Init
  <2> SUFFICES ASSUME Init PROVE Promise!Init
    OBVIOUS
  <2>1. Result = Unfinished
    BY DEF Init, Result
  <2> QED BY <2>1 DEF Init, Promise!Init
<1>2. Inv /\ [Next]_vars => [Promise!Write \/ Promise!Finish]_(Promise!vars)
  <2> SUFFICES ASSUME Inv, [Next]_vars
               PROVE  Promise!Write \/ Promise!Finish \/ UNCHANGED Promise!vars
    OBVIOUS
  <2>1. UNCHANGED vars => UNCHANGED Promise!vars
    BY DEF vars, Promise!vars, Result
  <2>2. CASE Next
    <3>1. Returned => UNCHANGED Promise!vars
      BY <2>1 DEF Returned
    <3> QED BY <2>2, <3>1, NextSplit, EmitWrites, RelaxHidden, PatchFinishes, FailureFinishes
  <2> QED BY <2>1, <2>2
<1> QED BY <1>1, <1>2, EmitterInvariant, PTL DEF Spec, Implements, Promise!Spec
===============================================================================
