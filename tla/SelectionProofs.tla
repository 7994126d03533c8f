---------------------------- MODULE SelectionProofs ----------------------------
(***************************************************************************)
(* What selection and layout make of a function is fit for the scan: no    *)
(* register is read before it has a value, and no fixed register lives     *)
(* beyond the sequence that uses it.  So the code runs on the places the   *)
(* scan gave out and finds every operand where the allocation put it.      *)
(***************************************************************************)
EXTENDS RegAllocProofs

-----------------------------------------------------------------------------
(* The layout *)

(* The code laid out: the blocks one behind the other, in some order.        *)
LEMMA LaidPieces ==
  ASSUME NEW blocks, CodeShape(blocks), NEW precise, NEW order \in Orders(blocks, precise)
  PROVE  LET L == Laid(blocks, order, precise)
         IN  /\ DOMAIN L.blocks = DOMAIN blocks
             /\ \E at \in [DOMAIN blocks -> Nat] :
                  /\ \A b \in DOMAIN blocks :
                       /\ L.blocks[b].first = at[b] + 1 /\ L.blocks[b].last = at[b] + Len(blocks[b].insts)
                       /\ L.blocks[b].succ = ToSet(blocks[b].succ)
                       /\ \A k \in 1..Len(blocks[b].insts) : L.insts[at[b] + k] = blocks[b].insts[k]
                  /\ \A b, c \in DOMAIN blocks : b # c => \/ at[b] + Len(blocks[b].insts) <= at[c]
                                                          \/ at[c] + Len(blocks[c].insts) <= at[b]
                  /\ \A p \in Points(L) : \E b \in DOMAIN blocks :
                       \E k \in 1..Len(blocks[b].insts) : p = at[b] + k
<1> DEFINE N == Len(blocks)
           piece == [k \in 1..N |-> blocks[order[k]].insts]
           Position(b) == CHOOSE k \in DOMAIN order : order[k] = b
           L == Laid(blocks, order, precise)
<1>1. /\ blocks \in Seq(MachineBlock) /\ N \in Nat /\ DOMAIN blocks = 1..N
      /\ order \in [1..N -> 1..N] /\ DOMAIN order = 1..N
      /\ \A b \in 1..N : \E k \in 1..N : order[k] = b
  <2>1. blocks \in Seq(MachineBlock) /\ N \in Nat /\ DOMAIN blocks = 1..N
    BY DEF CodeShape
  <2>2. /\ order \in [DOMAIN blocks -> DOMAIN blocks]
        /\ \A b \in DOMAIN blocks : \E k \in DOMAIN order : order[k] = b
    BY DEF Orders
  <2> HIDE DEF N
  <2> QED BY <2>1, <2>2
<1>2. \A b \in 1..N : blocks[b].insts \in Seq(Instr) /\ Len(blocks[b].insts) \in Nat
  <2>1. \A b \in 1..N : blocks[b] \in MachineBlock
    BY <1>1, SeqItems
  <2> QED BY <2>1 DEF MachineBlock
<1>3. piece \in [1..N -> Seq(Instr)] /\ \A k \in 1..N : piece[k] = blocks[order[k]].insts
  BY <1>1, <1>2
<1>4. \A j \in 0..N : [k \in 1..j |-> blocks[order[k]].insts] = [k \in 1..j |-> piece[k]]
  BY <1>1, <1>3, SMTT(20)
<1>5. \A b \in 1..N : Position(b) \in 1..N /\ order[Position(b)] = b
  BY <1>1
<1>6. /\ L.insts = FlattenSeq([k \in 1..N |-> blocks[order[k]].insts])
      /\ DOMAIN L.blocks = 1..N
      /\ \A b \in 1..N :
           LET before == Len(FlattenSeq([k \in 1..(Position(b) - 1) |-> blocks[order[k]].insts]))
           IN  L.blocks[b] = [first |-> before + 1, last |-> before + Len(blocks[b].insts),
                              succ |-> ToSet(blocks[b].succ)]
  BY <1>1 DEF Laid
<1> HIDE DEF Position, L, piece, N
<1>7. [k \in 1..N |-> blocks[order[k]].insts] = piece
  BY DEF piece
<1> DEFINE pos == [b \in 1..N |-> Position(b)]
           off == [j \in 0..N |-> OffsetIn(piece, j)]
<1>8. /\ \A b \in 1..N : pos[b] = Position(b) /\ pos[b] \in 1..N /\ order[pos[b]] = b
      /\ \A j \in 0..N : off[j] = OffsetIn(piece, j)
  BY <1>5
<1> HIDE DEF pos, off
<1>9. /\ Len(FlattenSeq(piece)) = OffsetIn(piece, N) /\ FlattenSeq(piece) \in Seq(Instr)
      /\ \A j \in 0..N : OffsetIn(piece, j) \in Nat
      /\ \A i, j \in 0..N : i <= j => OffsetIn(piece, i) <= OffsetIn(piece, j)
      /\ \A k \in 1..N : /\ OffsetIn(piece, k) = OffsetIn(piece, k - 1) + Len(piece[k])
                         /\ \A x \in 1..Len(piece[k]) : FlattenSeq(piece)[OffsetIn(piece, k - 1) + x] = piece[k][x]
      /\ \A p \in DOMAIN FlattenSeq(piece) : \E k \in 1..N : \E x \in 1..Len(piece[k]) : p = OffsetIn(piece, k - 1) + x
  <2>1. N \in Nat /\ piece \in [1..N -> Seq(Instr)]
    BY <1>1, <1>3
  <2>2. Piecewise(Instr, piece, N)
    BY <2>1, FlattenPieces
  <2> QED BY <2>2 DEF Piecewise
<1>10. N \in Nat /\ \A b \in 1..N : pos[b] \in Nat /\ pos[b] - 1 \in 0..N /\ pos[b] \in 0..N
  <2>1. N \in Nat /\ \A b \in 1..N : pos[b] \in 1..N
    BY <1>1, <1>8
  <2> QED BY <2>1
<1>11. /\ \A j \in 0..N : off[j] \in Nat
       /\ \A i, j \in 0..N : i <= j => off[i] <= off[j]
  BY <1>8, <1>9
<1>12. ASSUME NEW k \in 1..N
       PROVE  /\ off[k] = off[k - 1] + Len(piece[k])
              /\ \A x \in 1..Len(piece[k]) : L.insts[off[k - 1] + x] = piece[k][x]
  <2>1. k \in 0..N /\ k - 1 \in 0..N
    BY <1>10
  <2>2. off[k] = OffsetIn(piece, k) /\ off[k - 1] = OffsetIn(piece, k - 1)
    BY <1>8, <2>1
  <2>3. /\ OffsetIn(piece, k) = OffsetIn(piece, k - 1) + Len(piece[k])
        /\ \A x \in 1..Len(piece[k]) : FlattenSeq(piece)[OffsetIn(piece, k - 1) + x] = piece[k][x]
    BY <1>9
  <2>4. L.insts = FlattenSeq(piece)
    BY <1>6, <1>7
  <2> QED BY <2>2, <2>3, <2>4
<1> DEFINE at == [b \in 1..N |-> off[pos[b] - 1]]
<1>13. at \in [1..N -> Nat] /\ \A b \in 1..N : at[b] = off[pos[b] - 1]
  BY <1>10, <1>11
<1> HIDE DEF at
<1>14. ASSUME NEW b \in 1..N
       PROVE  /\ L.blocks[b].first = at[b] + 1 /\ L.blocks[b].last = at[b] + Len(blocks[b].insts)
              /\ L.blocks[b].succ = ToSet(blocks[b].succ)
  <2>1. [k \in 1..(pos[b] - 1) |-> blocks[order[k]].insts] = [k \in 1..(pos[b] - 1) |-> piece[k]]
    BY <1>4, <1>10
  <2>2. Len(FlattenSeq([k \in 1..(pos[b] - 1) |-> blocks[order[k]].insts])) = OffsetIn(piece, pos[b] - 1)
    BY <2>1 DEF OffsetIn
  <2>3. OffsetIn(piece, pos[b] - 1) = at[b]
    BY <1>8, <1>10, <1>13
  <2>4. Position(b) = pos[b]
    BY <1>8
  <2>5. L.blocks[b] = [first |-> at[b] + 1, last |-> at[b] + Len(blocks[b].insts), succ |-> ToSet(blocks[b].succ)]
    BY <1>6, <2>2, <2>3, <2>4
  <2> QED BY <2>5
<1>15. ASSUME NEW b \in 1..N
       PROVE  /\ piece[pos[b]] = blocks[b].insts
              /\ off[pos[b]] = at[b] + Len(blocks[b].insts)
              /\ \A k \in 1..Len(blocks[b].insts) : L.insts[at[b] + k] = blocks[b].insts[k]
  <2>1. piece[pos[b]] = blocks[b].insts /\ pos[b] \in 1..N /\ at[b] = off[pos[b] - 1]
    BY <1>3, <1>8, <1>13
  <2> QED BY <1>12, <2>1
<1>16. ASSUME NEW b \in 1..N, NEW c \in 1..N, b # c
       PROVE  at[b] + Len(blocks[b].insts) <= at[c] \/ at[c] + Len(blocks[c].insts) <= at[b]
  <2>1. ASSUME NEW x \in 1..N, NEW y \in 1..N, pos[x] < pos[y]
        PROVE  at[x] + Len(blocks[x].insts) <= at[y]
    <3>1. pos[x] \in 0..N /\ pos[y] - 1 \in 0..N /\ pos[x] <= pos[y] - 1
      BY <1>10, <2>1
    <3>2. off[pos[x]] <= off[pos[y] - 1]
      BY <1>11, <3>1
    <3> QED BY <1>13, <1>15, <3>2
  <2>2. pos[b] # pos[c] /\ pos[b] \in Nat /\ pos[c] \in Nat
    BY <1>8, <1>10, <1>16
  <2>3. pos[b] < pos[c] \/ pos[c] < pos[b]
    BY <2>2
  <2> QED BY <2>1, <2>3
<1>17. ASSUME NEW p \in Points(L)
       PROVE  \E b \in 1..N : \E k \in 1..Len(blocks[b].insts) : p = at[b] + k
  <2>0. p \in DOMAIN FlattenSeq(piece)
    BY <1>6, <1>7 DEF Points
  <2>1. PICK j \in 1..N : \E x \in 1..Len(piece[j]) : p = OffsetIn(piece, j - 1) + x
    BY <1>9, <2>0
  <2>2. order[j] \in 1..N /\ piece[j] = blocks[order[j]].insts
    BY <1>1, <1>3
  <2>3. PICK x \in 1..Len(piece[j]) : p = OffsetIn(piece, j - 1) + x
    BY <2>1
  <2>4. pos[order[j]] = j
    <3>1. \A i, k \in 1..N : order[i] = order[k] => i = k
      <4>1. IsFiniteSet(1..N) /\ Cardinality(1..N) = Cardinality(1..N)
        BY <1>1, FS_Interval
      <4>2. order \in Surjection(1..N, 1..N)
        BY <1>1 DEF Surjection
      <4>3. order \in Injection(1..N, 1..N)
        BY <4>1, <4>2, FS_SurjSameCardinalityImpliesInj
      <4> QED BY <1>1, <4>3 DEF Injection, IsInjective
    <3>2. pos[order[j]] \in 1..N /\ order[pos[order[j]]] = order[j]
      BY <1>8, <2>2
    <3> QED BY <3>1, <3>2
  <2>5. at[order[j]] = OffsetIn(piece, j - 1)
    BY <1>8, <1>10, <1>13, <2>2, <2>4
  <2> QED BY <2>2, <2>3, <2>5
<1>18. \E a \in [DOMAIN blocks -> Nat] :
         /\ \A b \in DOMAIN blocks :
              /\ L.blocks[b].first = a[b] + 1 /\ L.blocks[b].last = a[b] + Len(blocks[b].insts)
              /\ L.blocks[b].succ = ToSet(blocks[b].succ)
              /\ \A k \in 1..Len(blocks[b].insts) : L.insts[a[b] + k] = blocks[b].insts[k]
         /\ \A b, c \in DOMAIN blocks : b # c => \/ a[b] + Len(blocks[b].insts) <= a[c]
                                                 \/ a[c] + Len(blocks[c].insts) <= a[b]
         /\ \A p \in Points(L) : \E b \in DOMAIN blocks :
              \E k \in 1..Len(blocks[b].insts) : p = a[b] + k
  <2>1. DOMAIN blocks = 1..N
    BY <1>1
  <2>2. at \in [DOMAIN blocks -> Nat]
    BY <2>1, <1>13
  <2>3. \A b \in DOMAIN blocks :
              /\ L.blocks[b].first = at[b] + 1 /\ L.blocks[b].last = at[b] + Len(blocks[b].insts)
              /\ L.blocks[b].succ = ToSet(blocks[b].succ)
              /\ \A k \in 1..Len(blocks[b].insts) : L.insts[at[b] + k] = blocks[b].insts[k]
    BY <2>1, <1>14, <1>15
  <2>4. \A b, c \in DOMAIN blocks : b # c => \/ at[b] + Len(blocks[b].insts) <= at[c]
                                             \/ at[c] + Len(blocks[c].insts) <= at[b]
    BY <2>1, <1>16
  <2>5. \A p \in Points(L) : \E b \in DOMAIN blocks : \E k \in 1..Len(blocks[b].insts) : p = at[b] + k
    BY <2>1, <1>17
  <2> WITNESS at \in [DOMAIN blocks -> Nat]
  <2> QED BY <2>3, <2>4, <2>5
<1>19. DOMAIN L.blocks = DOMAIN blocks
  BY <1>1, <1>6
<1> QED BY <1>18, <1>19, Zenon DEF L

(* Of a sequence of instructions: it reads v before it writes it; it writes  *)
(* v; it reads scratch registers only right behind what writes them.         *)
Exposes(s, v) == \E k \in DOMAIN s : v \in Uses(s[k]) /\ \A j \in 1..(k - 1) : v \notin Defs(s[j])

(* s writes v.                                                               *)
Writes(s, v) == \E k \in DOMAIN s : v \in Defs(s[k])

(* A scratch register is read only by the instruction behind the one that    *)
(* wrote it, and by one without virtual registers.                           *)
ScratchBehind(s) ==
  \A k \in DOMAIN s : Uses(s[k]) \cap ToSet(Scratch) # {} =>
    /\ k # 1 /\ Uses(s[k]) \cap ToSet(Scratch) \subseteq Defs(s[k - 1])
    /\ \A x \in DOMAIN s[k].ops : s[k].ops[x].reg \in PReg

(* What selection promises of its blocks, see MachineFit.                    *)
BlockFit(block, n) ==
  LET s == block.insts
  IN  /\ \A k \in DOMAIN s : Regular(s[k], n)
      /\ Defs(s[Len(s)]) = {} /\ 1 \notin ToSet(block.succ)
      /\ ScratchBehind(s)

(* No way from the entry reads v before it writes it: M is closed under the  *)
(* ways on which v has no value.                                             *)
Unneeded(blocks, v) ==
  \E M \in SUBSET DOMAIN blocks :
    1 \in M /\ \A b \in M : /\ ~Exposes(blocks[b].insts, v)
                            /\ Writes(blocks[b].insts, v) \/ ToSet(blocks[b].succ) \subseteq M

(* In the blocks that can be entered, the encoder reads late only what it    *)
(* has not overwritten.                                                      *)
LateReadsApart(blocks) ==
  \E M \in SUBSET DOMAIN blocks :
    1 \in M /\ \A b \in M : /\ ToSet(blocks[b].succ) \subseteq M
                            /\ \A k \in DOMAIN blocks[b].insts : LateApart(blocks[b].insts[k])

(* The code of the blocks is fit to be laid out.                             *)
CodeFit(blocks, n) ==
  /\ CodeShape(blocks)
  /\ \A b \in DOMAIN blocks : /\ BlockFit(blocks[b], n)
                              /\ b # 1 => \A r \in PReg : ~Exposes(blocks[b].insts, r)
  /\ \A v \in 1..n : Unneeded(blocks, v)
  /\ LateReadsApart(blocks)

(* Laid out, it is a machine function on which the scan gives every operand  *)
(* its value.                                                                *)
LEMMA LaidFit ==
  ASSUME NEW blocks, NEW n, CodeFit(blocks, n), NEW precise, NEW order \in Orders(blocks, precise)
  PROVE  MachineFit(Laid(blocks, order, precise), n)
<1> DEFINE m == Laid(blocks, order, precise)
           s(b) == blocks[b].insts
<1>1. CodeShape(blocks)
  BY DEF CodeFit
<1>2. MachineShape(m) /\ Numbered(m)
  BY <1>1, LaidShape DEF MachineShape
<1>3. PICK at \in [DOMAIN blocks -> Nat] :
        /\ \A b \in DOMAIN blocks :
             /\ m.blocks[b].first = at[b] + 1 /\ m.blocks[b].last = at[b] + Len(blocks[b].insts)
             /\ m.blocks[b].succ = ToSet(blocks[b].succ)
             /\ \A k \in 1..Len(blocks[b].insts) : m.insts[at[b] + k] = blocks[b].insts[k]
        /\ \A b, c \in DOMAIN blocks : b # c => \/ at[b] + Len(blocks[b].insts) <= at[c]
                                                \/ at[c] + Len(blocks[c].insts) <= at[b]
        /\ \A p \in Points(m) : \E b \in DOMAIN blocks :
             \E k \in 1..Len(blocks[b].insts) : p = at[b] + k
  BY <1>1, LaidPieces
<1>4. DOMAIN m.blocks = DOMAIN blocks
  BY <1>1, LaidPieces
<1>5. \A b \in DOMAIN blocks : s(b) \in Seq(Instr) /\ Len(s(b)) \in Nat \ {0} /\ DOMAIN s(b) = 1..Len(s(b))
  <2>1. \A b \in DOMAIN blocks : blocks[b] \in MachineBlock /\ Len(blocks[b].insts) # 0
    BY <1>1, SeqItems DEF CodeShape
  <2> QED BY <2>1 DEF MachineBlock
<1>6. 1 \in DOMAIN blocks /\ \A b \in DOMAIN blocks : ToSet(blocks[b].succ) \subseteq DOMAIN blocks
  BY <1>2, <1>4, <1>1 DEF MachineShape, CodeShape
<1> HIDE DEF m, s
<1>7. ASSUME NEW b \in DOMAIN blocks
      PROVE  /\ \A p \in BlockPoints(m, b) : p - at[b] \in DOMAIN s(b) /\ p = at[b] + (p - at[b])
             /\ \A k \in DOMAIN s(b) : /\ at[b] + k \in BlockPoints(m, b) /\ at[b] + k \in Points(m)
                                       /\ m.insts[at[b] + k] = s(b)[k]
             /\ m.blocks[b].first = at[b] + 1 /\ m.blocks[b].last = at[b] + Len(s(b))
             /\ at[b] \in Nat /\ m.blocks[b].succ = ToSet(blocks[b].succ)
  <2>1. /\ m.blocks[b].first = at[b] + 1 /\ m.blocks[b].last = at[b] + Len(s(b)) /\ at[b] \in Nat
        /\ \A k \in 1..Len(s(b)) : m.insts[at[b] + k] = s(b)[k]
        /\ m.blocks[b].succ = ToSet(blocks[b].succ)
    BY <1>3 DEF s
  <2>2. BlockPoints(m, b) = m.blocks[b].first .. m.blocks[b].last /\ BlockPoints(m, b) \subseteq Points(m)
    BY <1>2, <1>4, BlockBounds
  <2>3. \A k \in DOMAIN s(b) : at[b] + k \in BlockPoints(m, b)
    BY <1>5, <2>1, <2>2
  <2>4. \A p \in BlockPoints(m, b) : p - at[b] \in DOMAIN s(b) /\ p = at[b] + (p - at[b])
    BY <1>5, <2>1, <2>2
  <2> QED BY <1>5, <2>1, <2>2, <2>3, <2>4
<1>8. ASSUME NEW b \in DOMAIN blocks, NEW v, Exposed(m, v, b)
      PROVE  Exposes(s(b), v)
  <2>1. PICK p \in BlockPoints(m, b) \cap UsePoints(m, v) :
          \A q \in m.blocks[b].first .. (p - 1) : q \notin DefPoints(m, v)
    BY <1>8 DEF Exposed
  <2> DEFINE k == p - at[b]
  <2>2. k \in DOMAIN s(b) /\ p = at[b] + k
    BY <1>7, <2>1
  <2>3. v \in Uses(s(b)[k])
    BY <1>7, <2>1, <2>2 DEF UsePoints
  <2>4. ASSUME NEW j \in 1..(k - 1) PROVE v \notin Defs(s(b)[j])
    <3>1. j \in DOMAIN s(b) /\ at[b] + j \in m.blocks[b].first .. (p - 1)
      BY <1>5, <1>7, <2>2
    <3>2. at[b] + j \in Points(m) /\ m.insts[at[b] + j] = s(b)[j]
      BY <1>7, <3>1
    <3> QED BY <2>1, <3>1, <3>2 DEF DefPoints
  <2> HIDE DEF k
  <2> QED BY <2>2, <2>3, <2>4 DEF Exposes
<1>9. ASSUME NEW b \in DOMAIN blocks, NEW v, Writes(s(b), v)
      PROVE  Written(m, v, b)
  <2>1. PICK k \in DOMAIN s(b) : v \in Defs(s(b)[k])
    BY <1>9 DEF Writes
  <2>2. at[b] + k \in BlockPoints(m, b) \cap DefPoints(m, v)
    BY <1>7, <2>1 DEF DefPoints
  <2> QED BY <2>2 DEF Written
<1>10. ASSUME NEW b \in DOMAIN m.blocks, NEW c \in DOMAIN m.blocks, b # c
       PROVE  BlockPoints(m, b) \cap BlockPoints(m, c) = {}
  <2> SUFFICES ASSUME NEW p \in BlockPoints(m, b), p \in BlockPoints(m, c)
               PROVE  FALSE
    OBVIOUS
  <2>1. /\ p - at[b] \in 1..Len(s(b)) /\ p - at[c] \in 1..Len(s(c)) /\ at[b] \in Nat /\ at[c] \in Nat
        /\ p = at[b] + (p - at[b])
    BY <1>4, <1>5, <1>7
  <2>2. Len(s(b)) \in Nat /\ Len(s(c)) \in Nat
    BY <1>4, <1>5
  <2>3. at[b] + Len(s(b)) <= at[c] \/ at[c] + Len(s(c)) <= at[b]
    BY <1>3, <1>4, <1>10 DEF s
  <2>4. p \in Int
    <3>1. BlockPoints(m, b) = m.blocks[b].first .. m.blocks[b].last
      BY <1>2, BlockBounds
    <3> QED BY <3>1
  <2> DEFINE x == at[b]
             y == at[c]
             k == Len(s(b))
             l == Len(s(c))
  <2>5. /\ p - x \in 1..k /\ p - y \in 1..l /\ x \in Nat /\ y \in Nat /\ k \in Nat /\ l \in Nat
        /\ x + k <= y \/ y + l <= x
    BY <2>1, <2>2, <2>3
  <2> HIDE DEF x, y, k, l
  <2> QED BY <2>4, <2>5
<1>11. \A p \in Points(m) : Regular(m.insts[p], n)
  <2> TAKE p \in Points(m)
  <2>1. PICK b \in DOMAIN blocks : \E k \in 1..Len(s(b)) : p = at[b] + k
    BY <1>3 DEF s
  <2>2. PICK k \in DOMAIN s(b) : p = at[b] + k
    BY <1>5, <2>1
  <2> QED BY <1>7, <2>2 DEF CodeFit, BlockFit, s
<1>12. \A b \in DOMAIN m.blocks : Defs(m.insts[m.blocks[b].last]) = {} /\ 1 \notin m.blocks[b].succ
  <2> TAKE b \in DOMAIN m.blocks
  <2>1. Len(s(b)) \in DOMAIN s(b)
    BY <1>4, <1>5
  <2>2. m.insts[m.blocks[b].last] = s(b)[Len(s(b))] /\ m.blocks[b].succ = ToSet(blocks[b].succ)
    BY <1>4, <1>7, <2>1
  <2> QED BY <1>4, <2>2 DEF CodeFit, BlockFit, s
<1>13. \A b \in DOMAIN m.blocks : \A p \in BlockPoints(m, b) :
         Uses(m.insts[p]) \cap ToSet(Scratch) # {} =>
           /\ p # m.blocks[b].first
           /\ Uses(m.insts[p]) \cap ToSet(Scratch) \subseteq Defs(m.insts[p - 1])
           /\ \A k \in DOMAIN m.insts[p].ops : m.insts[p].ops[k].reg \in PReg
  <2> SUFFICES ASSUME NEW b \in DOMAIN m.blocks, NEW p \in BlockPoints(m, b),
                      Uses(m.insts[p]) \cap ToSet(Scratch) # {}
               PROVE  /\ p # m.blocks[b].first
                      /\ Uses(m.insts[p]) \cap ToSet(Scratch) \subseteq Defs(m.insts[p - 1])
                      /\ \A k \in DOMAIN m.insts[p].ops : m.insts[p].ops[k].reg \in PReg
    OBVIOUS
  <2> DEFINE k == p - at[b]
  <2>1. k \in DOMAIN s(b) /\ p = at[b] + k /\ b \in DOMAIN blocks
    BY <1>4, <1>7
  <2>2. m.insts[p] = s(b)[k] /\ ScratchBehind(s(b))
    BY <1>7, <2>1 DEF CodeFit, BlockFit, s
  <2>3. k # 1 /\ Uses(s(b)[k]) \cap ToSet(Scratch) \subseteq Defs(s(b)[k - 1])
    BY <2>1, <2>2 DEF ScratchBehind
  <2>4. k - 1 \in DOMAIN s(b) /\ p - 1 = at[b] + (k - 1) /\ p # at[b] + 1 /\ at[b] \in Nat
    <3>1. k \in 1..Len(s(b)) /\ Len(s(b)) \in Nat /\ at[b] \in Nat /\ p = at[b] + k /\ DOMAIN s(b) = 1..Len(s(b))
      BY <1>5, <1>7, <2>1
    <3>2. k # 1
      BY <2>3
    <3>3. \A a, l \in Nat : \A x \in 1..l : x # 1 => x - 1 \in 1..l /\ (a + x) - 1 = a + (x - 1) /\ a + x # a + 1
      OBVIOUS
    <3> HIDE DEF k
    <3>4. k - 1 \in 1..Len(s(b)) /\ (at[b] + k) - 1 = at[b] + (k - 1) /\ at[b] + k # at[b] + 1
      BY <3>1, <3>2, <3>3
    <3> QED BY <3>1, <3>4
  <2>5. m.insts[p - 1] = s(b)[k - 1] /\ m.blocks[b].first = at[b] + 1
    BY <1>7, <2>1, <2>4
  <2> HIDE DEF k
  <2>6. \A x \in DOMAIN s(b)[k].ops : s(b)[k].ops[x].reg \in PReg
    BY <2>1, <2>2 DEF ScratchBehind
  <2> QED BY <2>2, <2>3, <2>4, <2>5, <2>6
<1>14. \A r \in PReg : LiveInto(m, r) \subseteq {1}
  <2> SUFFICES ASSUME NEW r \in PReg PROVE Solves(m, r, {1})
    BY <1>4, <1>6 DEF LiveInto
  <2> SUFFICES ASSUME NEW b \in DOMAIN m.blocks, Exposed(m, r, b) \/ b \in LiveOutOf(m, {1})
               PROVE  b = 1
    BY DEF Solves
  <2>1. b \notin LiveOutOf(m, {1})
    BY <1>12 DEF LiveOutOf
  <2> QED BY <1>4, <1>8, <2>1 DEF CodeFit, s
<1>15. \A v \in 1..n : 1 \notin LiveInto(m, v)
  <2> SUFFICES ASSUME NEW v \in 1..n PROVE 1 \notin LiveInto(m, v)
    OBVIOUS
  <2>1. PICK M \in SUBSET DOMAIN blocks :
          1 \in M /\ \A b \in M : /\ ~Exposes(s(b), v)
                                  /\ Writes(s(b), v) \/ ToSet(blocks[b].succ) \subseteq M
    BY DEF CodeFit, Unneeded, s
  <2> DEFINE rest == DOMAIN blocks \ M
  <2>2. ASSUME NEW b \in DOMAIN m.blocks,
               Exposed(m, v, b) \/ (b \in LiveOutOf(m, rest) /\ ~Written(m, v, b))
        PROVE  b \in rest
    <3> SUFFICES ASSUME b \in M PROVE FALSE
      BY <1>4
    <3>1. ~Exposed(m, v, b)
      BY <1>4, <1>8, <2>1
    <3>2. m.blocks[b].succ \cap rest # {} /\ ~Written(m, v, b)
      BY <2>2, <3>1 DEF LiveOutOf
    <3>3. m.blocks[b].succ \subseteq M
      BY <1>4, <1>7, <1>9, <2>1, <3>2
    <3> QED BY <3>2, <3>3
  <2>3. Solves(m, v, rest)
    <3> HIDE DEF rest
    <3> QED BY <2>2 DEF Solves
  <2> QED BY <1>4, <2>1, <2>3 DEF LiveInto
<1>16. \A b \in ReachedBlocks(m) : \A p \in BlockPoints(m, b) : LateApart(m.insts[p])
  <2>1. PICK M \in SUBSET DOMAIN blocks :
          1 \in M /\ \A b \in M : /\ ToSet(blocks[b].succ) \subseteq M
                                  /\ \A k \in DOMAIN s(b) : LateApart(s(b)[k])
    BY DEF CodeFit, LateReadsApart, s
  <2>2. \A b \in M : m.blocks[b].succ \subseteq M
    BY <1>7, <2>1
  <2>3. ReachedBlocks(m) \subseteq M
    BY <1>4, <2>1, <2>2 DEF ReachedBlocks
  <2> SUFFICES ASSUME NEW b \in M, NEW p \in BlockPoints(m, b)
               PROVE  LateApart(m.insts[p])
    BY <2>3
  <2>4. m.insts[p] = s(b)[p - at[b]] /\ p - at[b] \in DOMAIN s(b)
    BY <1>7
  <2> QED BY <2>1, <2>4
<1>17. MachineFit(m, n)
  BY <1>2, <1>10, <1>11, <1>12, <1>13, <1>14, <1>15, <1>16 DEF MachineFit
<1> QED BY <1>17 DEF m

-----------------------------------------------------------------------------
(* Sequences of instructions, put together *)

(* The instructions of two sequences, one behind the other.                  *)
LEMMA Joined ==
  ASSUME NEW s \in Seq(Instr), NEW t \in Seq(Instr)
  PROVE  /\ s \o t \in Seq(Instr)
         /\ \A k \in DOMAIN (s \o t) : \/ k \in DOMAIN s /\ (s \o t)[k] = s[k]
                                       \/ /\ k - Len(s) \in DOMAIN t /\ k = Len(s) + (k - Len(s))
                                          /\ (s \o t)[k] = t[k - Len(s)]
         /\ \A k \in DOMAIN s : k \in DOMAIN (s \o t) /\ (s \o t)[k] = s[k]
         /\ \A k \in DOMAIN t : Len(s) + k \in DOMAIN (s \o t) /\ (s \o t)[Len(s) + k] = t[k]
         /\ Len(s \o t) = Len(s) + Len(t)
         /\ Len(s) \in Nat /\ Len(t) \in Nat /\ DOMAIN s = 1..Len(s) /\ DOMAIN t = 1..Len(t)
<1>1. /\ s \o t \in Seq(Instr) /\ Len(s \o t) = Len(s) + Len(t)
      /\ Len(s) \in Nat /\ Len(t) \in Nat /\ DOMAIN s = 1..Len(s) /\ DOMAIN t = 1..Len(t)
      /\ DOMAIN (s \o t) = 1..(Len(s) + Len(t))
      /\ \A k \in 1..(Len(s) + Len(t)) : (s \o t)[k] = IF k <= Len(s) THEN s[k] ELSE t[k - Len(s)]
  OBVIOUS
<1>2. ASSUME NEW k \in DOMAIN (s \o t)
      PROVE  \/ k \in DOMAIN s /\ (s \o t)[k] = s[k]
             \/ /\ k - Len(s) \in DOMAIN t /\ k = Len(s) + (k - Len(s))
                /\ (s \o t)[k] = t[k - Len(s)]
  BY <1>1
<1>3. ASSUME NEW k \in DOMAIN s PROVE k \in DOMAIN (s \o t) /\ (s \o t)[k] = s[k]
  BY <1>1
<1>4. ASSUME NEW k \in DOMAIN t PROVE Len(s) + k \in DOMAIN (s \o t) /\ (s \o t)[Len(s) + k] = t[k]
  BY <1>1
<1> QED BY <1>1, <1>2, <1>3, <1>4

(* One sequence behind another.                                              *)
LEMMA JoinedFit ==
  ASSUME NEW s \in Seq(Instr), NEW t \in Seq(Instr), NEW n,
         \A k \in DOMAIN s : Regular(s[k], n), ScratchBehind(s),
         \A k \in DOMAIN t : Regular(t[k], n), ScratchBehind(t)
  PROVE  (\A k \in DOMAIN (s \o t) : Regular((s \o t)[k], n)) /\ ScratchBehind(s \o t)
<1>1. \A k \in DOMAIN (s \o t) : Regular((s \o t)[k], n)
  BY Joined
<1>2. ASSUME NEW k \in DOMAIN (s \o t), Uses((s \o t)[k]) \cap ToSet(Scratch) # {}
      PROVE  /\ k # 1 /\ Uses((s \o t)[k]) \cap ToSet(Scratch) \subseteq Defs((s \o t)[k - 1])
             /\ \A x \in DOMAIN (s \o t)[k].ops : (s \o t)[k].ops[x].reg \in PReg
  <2>1. CASE k \in DOMAIN s /\ (s \o t)[k] = s[k]
    <3>1. /\ k # 1 /\ Uses(s[k]) \cap ToSet(Scratch) \subseteq Defs(s[k - 1])
          /\ \A x \in DOMAIN s[k].ops : s[k].ops[x].reg \in PReg
      BY <1>2, <2>1 DEF ScratchBehind
    <3>2. k - 1 \in DOMAIN s
      BY <2>1, <3>1, Joined
    <3>3. (s \o t)[k - 1] = s[k - 1]
      BY <3>2, Joined
    <3> QED BY <2>1, <3>1, <3>3
  <2>2. CASE k - Len(s) \in DOMAIN t /\ k = Len(s) + (k - Len(s)) /\ (s \o t)[k] = t[k - Len(s)]
    <3> DEFINE x == k - Len(s)
    <3>1. /\ x # 1 /\ Uses(t[x]) \cap ToSet(Scratch) \subseteq Defs(t[x - 1])
          /\ \A y \in DOMAIN t[x].ops : t[x].ops[y].reg \in PReg
      BY <1>2, <2>2 DEF ScratchBehind
    <3>2. x \in 1..Len(t) /\ Len(s) \in Nat /\ Len(t) \in Nat /\ k = Len(s) + x
      BY <2>2, Joined
    <3> HIDE DEF x
    <3>3. x - 1 \in 1..Len(t) /\ Len(s) + (x - 1) = k - 1 /\ k # 1
      BY <3>1, <3>2
    <3>4. (s \o t)[k - 1] = t[x - 1]
      BY <3>3, Joined
    <3> QED BY <2>2, <3>1, <3>3, <3>4 DEF x
  <2>3. \/ k \in DOMAIN s /\ (s \o t)[k] = s[k]
        \/ k - Len(s) \in DOMAIN t /\ k = Len(s) + (k - Len(s)) /\ (s \o t)[k] = t[k - Len(s)]
    BY Joined
  <2> QED BY <2>1, <2>2, <2>3, Zenon
<1> QED BY <1>1, <1>2 DEF ScratchBehind

(* What the two of them read and write.                                      *)
LEMMA JoinedReads ==
  ASSUME NEW s \in Seq(Instr), NEW t \in Seq(Instr), NEW v
  PROVE  /\ Exposes(s \o t, v) => Exposes(s, v) \/ (Exposes(t, v) /\ ~Writes(s, v))
         /\ Writes(s, v) \/ Writes(t, v) => Writes(s \o t, v)
<1>1. ASSUME Exposes(s \o t, v) PROVE Exposes(s, v) \/ (Exposes(t, v) /\ ~Writes(s, v))
  <2>1. PICK k \in DOMAIN (s \o t) :
          v \in Uses((s \o t)[k]) /\ \A j \in 1..(k - 1) : v \notin Defs((s \o t)[j])
    BY <1>1 DEF Exposes
  <2>2. CASE k \in DOMAIN s /\ (s \o t)[k] = s[k]
    <3>1. \A j \in 1..(k - 1) : j \in DOMAIN s /\ (s \o t)[j] = s[j]
      BY <2>2, Joined
    <3> QED BY <2>1, <2>2, <3>1 DEF Exposes
  <2>3. CASE k - Len(s) \in DOMAIN t /\ k = Len(s) + (k - Len(s)) /\ (s \o t)[k] = t[k - Len(s)]
    <3> DEFINE x == k - Len(s)
    <3>1. x \in 1..Len(t) /\ Len(s) \in Nat /\ Len(t) \in Nat /\ k = Len(s) + x /\ v \in Uses(t[x])
      BY <2>1, <2>3, Joined
    <3> HIDE DEF x
    <3>2. \A j \in 1..(x - 1) : Len(s) + j \in 1..(k - 1) /\ j \in DOMAIN t
      BY <3>1, Joined
    <3>3. ASSUME NEW j \in 1..(x - 1) PROVE v \notin Defs(t[j])
      <4>1. Len(s) + j \in 1..(k - 1) /\ j \in DOMAIN t
        BY <3>2
      <4>2. (s \o t)[Len(s) + j] = t[j]
        BY <4>1, Joined
      <4> QED BY <2>1, <4>1, <4>2
    <3>4. \A j \in DOMAIN s : v \notin Defs(s[j])
      <4>1. \A j \in DOMAIN s : j \in 1..(k - 1)
        BY <3>1, Joined
      <4> QED BY <2>1, <4>1, Joined
    <3> QED BY <3>1, <3>3, <3>4, Joined DEF Exposes, Writes
  <2>4. \/ k \in DOMAIN s /\ (s \o t)[k] = s[k]
        \/ k - Len(s) \in DOMAIN t /\ k = Len(s) + (k - Len(s)) /\ (s \o t)[k] = t[k - Len(s)]
    BY Joined
  <2> QED BY <2>2, <2>3, <2>4, Zenon
<1>2. ASSUME Writes(s, v) \/ Writes(t, v) PROVE Writes(s \o t, v)
  <2>1. CASE Writes(s, v)
    <3>1. PICK k \in DOMAIN s : v \in Defs(s[k])
      BY <2>1 DEF Writes
    <3>2. k \in DOMAIN (s \o t) /\ (s \o t)[k] = s[k]
      BY Joined
    <3> QED BY <3>1, <3>2 DEF Writes
  <2>2. CASE Writes(t, v)
    <3>1. PICK k \in DOMAIN t : v \in Defs(t[k])
      BY <2>2 DEF Writes
    <3>2. Len(s) + k \in DOMAIN (s \o t) /\ (s \o t)[Len(s) + k] = t[k]
      BY Joined
    <3> QED BY <3>1, <3>2 DEF Writes
  <2> QED BY <1>2, <2>1, <2>2
<1> QED BY <1>1, <1>2

(* Sequences one behind the other.                                           *)
LEMMA PiecesFit ==
  ASSUME NEW m \in Nat, NEW f \in [1..m -> Seq(Instr)], NEW n,
         \A j \in 1..m : (\A k \in DOMAIN f[j] : Regular(f[j][k], n)) /\ ScratchBehind(f[j])
  PROVE  /\ FlattenSeq(f) \in Seq(Instr) /\ ScratchBehind(FlattenSeq(f))
         /\ \A k \in DOMAIN FlattenSeq(f) : Regular(FlattenSeq(f)[k], n)
<1>1. Piecewise(Instr, f, m)
  BY FlattenPieces
<1>2. FlattenSeq(f) \in Seq(Instr) /\ \A j \in 0..m : OffsetIn(f, j) \in Nat
  BY <1>1 DEF Piecewise
<1>3. ASSUME NEW k \in DOMAIN FlattenSeq(f)
      PROVE  /\ Regular(FlattenSeq(f)[k], n)
             /\ Uses(FlattenSeq(f)[k]) \cap ToSet(Scratch) # {} =>
                  /\ k # 1 /\ Uses(FlattenSeq(f)[k]) \cap ToSet(Scratch) \subseteq Defs(FlattenSeq(f)[k - 1])
                  /\ \A x \in DOMAIN FlattenSeq(f)[k].ops : FlattenSeq(f)[k].ops[x].reg \in PReg
  <2>1. PICK j \in 1..m : \E x \in 1..Len(f[j]) : k = OffsetIn(f, j - 1) + x
    BY <1>1, <1>3 DEF Piecewise
  <2>2. PICK x \in 1..Len(f[j]) : k = OffsetIn(f, j - 1) + x
    BY <2>1
  <2>3. /\ \A y \in 1..Len(f[j]) : FlattenSeq(f)[OffsetIn(f, j - 1) + y] = f[j][y]
        /\ OffsetIn(f, j - 1) \in Nat /\ Len(f[j]) \in Nat /\ DOMAIN f[j] = 1..Len(f[j])
    <3>1. j - 1 \in 0..m /\ f[j] \in Seq(Instr)
      OBVIOUS
    <3>2. OffsetIn(f, j - 1) \in Nat
      BY <1>2, <3>1
    <3>3. \A y \in 1..Len(f[j]) : FlattenSeq(f)[OffsetIn(f, j - 1) + y] = f[j][y]
      BY <1>1 DEF Piecewise
    <3> QED BY <3>1, <3>2, <3>3
  <2>4. Regular(FlattenSeq(f)[k], n) /\ FlattenSeq(f)[k] = f[j][x]
    BY <2>2, <2>3
  <2>5. ASSUME Uses(f[j][x]) \cap ToSet(Scratch) # {}
        PROVE  /\ k # 1 /\ Uses(f[j][x]) \cap ToSet(Scratch) \subseteq Defs(FlattenSeq(f)[k - 1])
               /\ \A y \in DOMAIN f[j][x].ops : f[j][x].ops[y].reg \in PReg
    <3>1. /\ x # 1 /\ Uses(f[j][x]) \cap ToSet(Scratch) \subseteq Defs(f[j][x - 1])
          /\ \A y \in DOMAIN f[j][x].ops : f[j][x].ops[y].reg \in PReg
      BY <2>2, <2>3, <2>5 DEF ScratchBehind
    <3>2. x - 1 \in 1..Len(f[j]) /\ k # 1 /\ k - 1 = OffsetIn(f, j - 1) + (x - 1)
      <4>1. \A a, l \in Nat : \A y \in 1..l : y # 1 => y - 1 \in 1..l /\ (a + y) - 1 = a + (y - 1) /\ a + y # 1
        OBVIOUS
      <4> QED BY <2>2, <2>3, <3>1, <4>1
    <3> QED BY <2>3, <3>1, <3>2
  <2> QED BY <2>4, <2>5
<1> QED BY <1>2, <1>3 DEF ScratchBehind

(* What several sequences one behind the other read and write.               *)
LEMMA PiecesReads ==
  ASSUME NEW m \in Nat, NEW f \in [1..m -> Seq(Instr)], NEW v
  PROVE  /\ Exposes(FlattenSeq(f), v) => \E j \in 1..m : Exposes(f[j], v) /\ \A i \in 1..(j - 1) : ~Writes(f[i], v)
         /\ (\E j \in 1..m : Writes(f[j], v)) => Writes(FlattenSeq(f), v)
<1>1. Piecewise(Instr, f, m) /\ \A j \in 1..m : f[j] \in Seq(Instr)
  BY FlattenPieces
<1>2. ASSUME NEW j \in 1..m
      PROVE  /\ OffsetIn(f, j - 1) \in Nat /\ OffsetIn(f, j) = OffsetIn(f, j - 1) + Len(f[j])
             /\ Len(f[j]) \in Nat /\ DOMAIN f[j] = 1..Len(f[j])
             /\ \A y \in 1..Len(f[j]) : /\ FlattenSeq(f)[OffsetIn(f, j - 1) + y] = f[j][y]
                                        /\ OffsetIn(f, j - 1) + y \in DOMAIN FlattenSeq(f)
  <2>1. j - 1 \in 0..m /\ j \in 0..m /\ m \in 0..m /\ j <= m
    OBVIOUS
  <2>2. /\ OffsetIn(f, j - 1) \in Nat /\ OffsetIn(f, j) \in Nat /\ OffsetIn(f, m) \in Nat
        /\ OffsetIn(f, j) <= OffsetIn(f, m)
    BY <1>1, <2>1 DEF Piecewise
  <2>3. /\ OffsetIn(f, j) = OffsetIn(f, j - 1) + Len(f[j])
        /\ \A y \in 1..Len(f[j]) : FlattenSeq(f)[OffsetIn(f, j - 1) + y] = f[j][y]
    BY <1>1 DEF Piecewise
  <2>4. f[j] \in Seq(Instr)
    BY <1>1
  <2>5. DOMAIN FlattenSeq(f) = 1..OffsetIn(f, m)
    BY <1>1 DEF Piecewise
  <2>6. \A y \in 1..Len(f[j]) : OffsetIn(f, j - 1) + y \in 1..OffsetIn(f, m)
    BY <2>2, <2>3, <2>4
  <2> QED BY <2>2, <2>3, <2>4, <2>5, <2>6
<1>3. ASSUME Exposes(FlattenSeq(f), v)
      PROVE  \E j \in 1..m : Exposes(f[j], v) /\ \A i \in 1..(j - 1) : ~Writes(f[i], v)
  <2>1. PICK k \in DOMAIN FlattenSeq(f) :
          v \in Uses(FlattenSeq(f)[k]) /\ \A q \in 1..(k - 1) : v \notin Defs(FlattenSeq(f)[q])
    BY <1>3 DEF Exposes
  <2>2. PICK j \in 1..m : \E x \in 1..Len(f[j]) : k = OffsetIn(f, j - 1) + x
    BY <1>1, <2>1 DEF Piecewise
  <2>3. PICK x \in 1..Len(f[j]) : k = OffsetIn(f, j - 1) + x
    BY <2>2
  <2>4. Exposes(f[j], v)
    <3>1. x \in DOMAIN f[j] /\ v \in Uses(f[j][x])
      BY <1>2, <2>1, <2>3
    <3>2. ASSUME NEW q \in 1..(x - 1) PROVE v \notin Defs(f[j][q])
      <4>1. q \in 1..Len(f[j]) /\ OffsetIn(f, j - 1) + q \in 1..(k - 1)
        <5> DEFINE at == OffsetIn(f, j - 1)
                   n == Len(f[j])
        <5>1. at \in Nat /\ n \in Nat /\ x \in 1..n /\ k = at + x
          BY <1>2, <2>3
        <5> HIDE DEF at, n
        <5>2. q \in 1..n /\ at + q \in 1..(k - 1)
          BY <5>1
        <5> QED BY <5>2 DEF at, n
      <4>2. FlattenSeq(f)[OffsetIn(f, j - 1) + q] = f[j][q]
        BY <1>2, <4>1
      <4> DEFINE y == OffsetIn(f, j - 1) + q
      <4>3. y \in 1..(k - 1)
        BY <4>1
      <4> HIDE DEF y
      <4>4. v \notin Defs(FlattenSeq(f)[y])
        BY <2>1, <4>3
      <4> QED BY <4>2, <4>4 DEF y
    <3> QED BY <3>1, <3>2 DEF Exposes
  <2>5. ASSUME NEW i \in 1..(j - 1), Writes(f[i], v) PROVE FALSE
    <3>1. PICK q \in DOMAIN f[i] : v \in Defs(f[i][q])
      BY <2>5 DEF Writes
    <3>2. i \in 1..m /\ i \in 0..m /\ j - 1 \in 0..m /\ i <= j - 1
      OBVIOUS
    <3>3. OffsetIn(f, i) <= OffsetIn(f, j - 1)
      BY <1>1, <3>2 DEF Piecewise
    <3>4. /\ q \in 1..Len(f[i]) /\ OffsetIn(f, i - 1) \in Nat /\ Len(f[i]) \in Nat
          /\ OffsetIn(f, i) = OffsetIn(f, i - 1) + Len(f[i])
      BY <1>2, <3>1, <3>2
    <3>5. OffsetIn(f, i - 1) + q \in 1..(k - 1)
      <4>1. OffsetIn(f, j - 1) \in Nat /\ Len(f[j]) \in Nat
        BY <1>2
      <4>2. \A a, b, c, l, z \in Nat : \A y \in 1..l : b = a + l /\ b <= c /\ z >= 1 => a + y \in 1..((c + z) - 1)
        OBVIOUS
      <4>3. OffsetIn(f, i) \in Nat /\ x \in Nat /\ x >= 1
        BY <3>4, <4>1
      <4> QED BY <2>3, <3>3, <3>4, <4>1, <4>2, <4>3
    <3>6. FlattenSeq(f)[OffsetIn(f, i - 1) + q] = f[i][q]
      BY <1>2, <3>2, <3>4
    <3> QED BY <2>1, <3>1, <3>5, <3>6
  <2> QED BY <2>4, <2>5
<1>4. ASSUME NEW j \in 1..m, Writes(f[j], v) PROVE Writes(FlattenSeq(f), v)
  <2>1. PICK q \in DOMAIN f[j] : v \in Defs(f[j][q])
    BY <1>4 DEF Writes
  <2>2. OffsetIn(f, j - 1) + q \in DOMAIN FlattenSeq(f) /\ FlattenSeq(f)[OffsetIn(f, j - 1) + q] = f[j][q]
    BY <1>2, <2>1
  <2> QED BY <2>1, <2>2 DEF Writes
<1> QED BY <1>3, <1>4

-----------------------------------------------------------------------------
(* What selection makes of one piece of the function: sequence s has regular *)
(* instructions, reads from before only registers of A, and writes those of  *)
(* W.                                                                         *)
Selects(s, n, A, W) ==
  /\ s \in Seq(Instr) /\ \A k \in DOMAIN s : Regular(s[k], n)
  /\ ScratchBehind(s)
  /\ \A v : Exposes(s, v) => v \in A
  /\ \A v \in W : Writes(s, v)

(* No operand the encoder reads late is lost.                                *)
Apart(s) == \A k \in DOMAIN s : LateApart(s[k])

(* Instructions none of which reads a scratch register.                      *)
LEMMA Listed ==
  ASSUME NEW n, NEW s \in Seq(Instr), NEW A, NEW W,
         \A k \in DOMAIN s : /\ Regular(s[k], n) /\ Uses(s[k]) \subseteq A
                             /\ Uses(s[k]) \cap ToSet(Scratch) = {},
         \A v \in W : \E k \in DOMAIN s : v \in Defs(s[k])
  PROVE  Selects(s, n, A, W)
<1>1. ScratchBehind(s)
  BY DEF ScratchBehind
<1>2. \A v : Exposes(s, v) => v \in A
  BY DEF Exposes
<1>3. \A v \in W : Writes(s, v)
  BY DEF Writes
<1> QED BY <1>1, <1>2, <1>3 DEF Selects

(* The second sequence may read what the first one wrote.                    *)
LEMMA JoinedSelects ==
  ASSUME NEW n, NEW s, NEW t, NEW A, NEW B, NEW W, NEW V,
         Selects(s, n, A, W), Selects(t, n, B, V), B \subseteq A \union W
  PROVE  Selects(s \o t, n, A, W \union V)
<1>1. /\ s \in Seq(Instr) /\ ScratchBehind(s) /\ \A k \in DOMAIN s : Regular(s[k], n)
      /\ t \in Seq(Instr) /\ ScratchBehind(t) /\ \A k \in DOMAIN t : Regular(t[k], n)
  BY DEF Selects
<1>2. /\ \A k \in DOMAIN (s \o t) : Regular((s \o t)[k], n)
      /\ ScratchBehind(s \o t)
  BY <1>1, JoinedFit
<1>3. s \o t \in Seq(Instr)
  BY <1>1
<1>4. ASSUME NEW v, Exposes(s \o t, v) PROVE v \in A
  <2>1. Exposes(s, v) \/ (Exposes(t, v) /\ ~Writes(s, v))
    BY <1>1, <1>4, JoinedReads
  <2> QED BY <2>1 DEF Selects
<1>5. ASSUME NEW v \in W \union V PROVE Writes(s \o t, v)
  <2>1. Writes(s, v) \/ Writes(t, v)
    BY DEF Selects
  <2> QED BY <1>1, <2>1, JoinedReads
<1> QED BY <1>2, <1>3, <1>4, <1>5 DEF Selects

(* Late reads stay apart in sequences joined.                                *)
LEMMA JoinedApart ==
  ASSUME NEW s \in Seq(Instr), NEW t \in Seq(Instr), Apart(s), Apart(t)
  PROVE  Apart(s \o t)
<1> SUFFICES ASSUME NEW k \in DOMAIN (s \o t) PROVE LateApart((s \o t)[k])
  BY DEF Apart
<1>1. \/ k \in DOMAIN s /\ (s \o t)[k] = s[k]
      \/ k - Len(s) \in DOMAIN t /\ k = Len(s) + (k - Len(s)) /\ (s \o t)[k] = t[k - Len(s)]
  BY Joined
<1> QED BY <1>1 DEF Apart

(* And in any number of them.                                                *)
LEMMA PiecesApart ==
  ASSUME NEW m \in Nat, NEW f \in [1..m -> Seq(Instr)], \A j \in 1..m : Apart(f[j])
  PROVE  Apart(FlattenSeq(f))
<1>1. Piecewise(Instr, f, m)
  BY FlattenPieces
<1> SUFFICES ASSUME NEW k \in DOMAIN FlattenSeq(f) PROVE LateApart(FlattenSeq(f)[k])
  BY DEF Apart
<1>2. PICK j \in 1..m : \E x \in 1..Len(f[j]) : k = OffsetIn(f, j - 1) + x
  BY <1>1 DEF Piecewise
<1>3. PICK x \in 1..Len(f[j]) : k = OffsetIn(f, j - 1) + x
  BY <1>2
<1>4. FlattenSeq(f)[k] = f[j][x]
  BY <1>1, <1>3 DEF Piecewise
<1>5. x \in DOMAIN f[j]
  <2>1. f[j] \in Seq(Instr)
    OBVIOUS
  <2> QED BY <2>1
<1> QED BY <1>4, <1>5 DEF Apart

(* Operands that write registers of X and read registers of Y.               *)
Ops(X, Y) == {Def(r) : r \in X} \union {Use(r) : r \in Y}

(* The registers of an instruction with such operands.                       *)
LEMMA ManyOperands ==
  ASSUME NEW X, NEW Y, NEW ops \in Seq(Ops(X, Y)),
         NEW move, NEW tied, NEW late
  PROVE  /\ Defs(Inst(ops, move, tied, late)) \subseteq X
         /\ Uses(Inst(ops, move, tied, late)) \subseteq Y
         /\ \A k \in DOMAIN ops : ops[k].kind = "def" => ops[k].reg \in X
         /\ \A k \in DOMAIN ops : ops[k].kind = "use" => ops[k].reg \in Y
<1> DEFINE i == Inst(ops, move, tied, late)
<1>1. i.ops = ops
  BY DEF Inst
<1>2. \A k \in DOMAIN ops : ops[k] \in {Def(r) : r \in X} \union {Use(r) : r \in Y}
  BY DEF Ops
<1>3. ASSUME NEW k \in DOMAIN ops
      PROVE  /\ ops[k].kind = "def" => ops[k].reg \in X
             /\ ops[k].kind = "use" => ops[k].reg \in Y
  BY <1>2 DEF Def, Use
<1> HIDE DEF i
<1>4. Defs(i) \subseteq X /\ Uses(i) \subseteq Y
  BY <1>1, <1>3 DEF Defs, Uses, Touched
<1> QED BY <1>3, <1>4 DEF i

(* Virtual registers are numbers; a scratch register passes nothing and      *)
(* returns nothing.                                                          *)
LEMMA RegisterKinds ==
  /\ \A n \in Nat : \A v \in 1..n : v \notin PReg /\ v \notin ToSet(Scratch) /\ v \in PReg \union Nat
  /\ ToSet(Scratch) \subseteq PReg /\ ToSet(ArgRegs) \subseteq PReg
  /\ RetReg \in PReg /\ CountReg \in PReg
  /\ RetReg \notin ToSet(Scratch) /\ CountReg \notin ToSet(Scratch)
  /\ ToSet(ArgRegs) \cap ToSet(Scratch) = {}
<1>1. Scratch \in Seq(PReg) /\ ArgRegs \in Seq(PReg) /\ RetReg \in PReg /\ CountReg \in PReg
  BY RegistersAssumption
<1>2. ToSet(Scratch) \subseteq PReg /\ ToSet(ArgRegs) \subseteq PReg
  BY <1>1 DEF ToSet
<1>3. \A n \in Nat : \A v \in 1..n : v \in Nat /\ v \notin PReg
  BY PRegAssumption
<1> QED BY <1>1, <1>2, <1>3, ScratchAssumption

(* A copy between registers.                                                 *)
LEMMA MoveFit ==
  ASSUME NEW n \in Nat, NEW d \in PReg \union 1..n, NEW s \in PReg \union 1..n
  PROVE  /\ Regular(Move(d, s), n) /\ Move(d, s) \in Instr
         /\ Defs(Move(d, s)) = {d} /\ Uses(Move(d, s)) = {s}
         /\ LateApart(Move(d, s))
         /\ DOMAIN Move(d, s).ops = 1..2 /\ Move(d, s).ops[1].reg = d /\ Move(d, s).ops[2].reg = s
<1> DEFINE i == Move(d, s)
<1>2. i \in Instr
  BY InstrForms
<1>3. /\ i.ops = <<Def(d), Use(s)>> /\ i.late = {}
      /\ DOMAIN i.ops = 1..2
      /\ i.ops[1].kind = "def" /\ i.ops[1].reg = d
      /\ i.ops[2].kind = "use" /\ i.ops[2].reg = s
  BY DEF Move, Inst, Def, Use
<1> HIDE DEF i
<1>1. Defs(i) = {d} /\ Uses(i) = {s}
  BY <1>3 DEF Defs, Uses, Touched
<1>4. \A k \in DOMAIN i.ops : i.ops[k].kind = "def" <=> k = 1
  BY <1>3
<1>5. \A k \in DOMAIN i.ops : i.ops[k].reg \in PReg \union 1..n
  BY <1>3
<1>6. Regular(i, n)
  BY <1>2, <1>3, <1>4, <1>5 DEF Regular
<1>7. LateApart(i)
  BY <1>3 DEF LateApart
<1> QED BY <1>1, <1>2, <1>3, <1>6, <1>7 DEF i

(* An instruction that writes at most one register that is not physical, its *)
(* first operand.                                                             *)
LEMMA InstFit ==
  ASSUME NEW n \in Nat, NEW X, NEW Y, X \subseteq PReg \union 1..n, Y \subseteq PReg \union 1..n,
         NEW ops \in Seq(Ops(X, Y)),
         X \subseteq PReg \/ \A k \in DOMAIN ops : ops[k].kind = "def" <=> k = 1,
         NEW tied \in SUBSET Nat, NEW late \in SUBSET Nat
  PROVE  /\ Regular(Inst(ops, FALSE, tied, late), n) /\ Inst(ops, FALSE, tied, late) \in Instr
         /\ Defs(Inst(ops, FALSE, tied, late)) \subseteq X
         /\ Uses(Inst(ops, FALSE, tied, late)) \subseteq Y
         /\ \A k \in DOMAIN ops : ops[k].reg \in X \union Y
<1> DEFINE i == Inst(ops, FALSE, tied, late)
<1>1. /\ Defs(i) \subseteq X /\ Uses(i) \subseteq Y
      /\ \A k \in DOMAIN ops : ops[k].kind = "def" => ops[k].reg \in X
      /\ \A k \in DOMAIN ops : ops[k].kind = "use" => ops[k].reg \in Y
  BY ManyOperands
<1>2. \A r \in PReg \union 1..n : Def(r) \in Operand /\ Use(r) \in Operand
  BY DEF Operand, Def, Use
<1>3. Ops(X, Y) \subseteq Operand
  BY <1>2 DEF Ops
<1>4. ops \in Seq(Operand) /\ i.ops = ops /\ i.move = FALSE
  BY <1>3, SeqWider DEF Inst
<1>5. i \in Instr
  BY <1>4, InstTyped
<1>6. \A k \in DOMAIN ops : ops[k].kind \in {"def", "use"}
  BY DEF Def, Use, Ops
<1> HIDE DEF i
<1>7. \A k \in DOMAIN i.ops : i.ops[k].reg \in PReg \union 1..n
  BY <1>1, <1>4, <1>6
<1>8. Defs(i) \subseteq PReg \/ \A k \in DOMAIN i.ops : i.ops[k].kind = "def" <=> k = 1
  BY <1>1, <1>4
<1>9. Regular(i, n)
  BY <1>4, <1>5, <1>7, <1>8 DEF Regular
<1> QED BY <1>1, <1>5, <1>6, <1>9 DEF i

(* An instruction with a destination and two sources.                        *)
Triple(i, d, a, b, tied, late) ==
  i = Inst(<<Def(d), Use(a), Use(b)>>, FALSE, tied, late) /\ tied \in SUBSET Nat /\ late \in SUBSET Nat

(* It names these three registers.                                           *)
LEMMA TripleFit ==
  ASSUME NEW n \in Nat, NEW d \in PReg \union 1..n, NEW a \in PReg \union 1..n, NEW b \in PReg \union 1..n,
         NEW tied, NEW late, NEW i, Triple(i, d, a, b, tied, late)
  PROVE  /\ Regular(i, n) /\ i \in Instr /\ Defs(i) = {d} /\ Uses(i) = {a, b}
<1> DEFINE ops == <<Def(d), Use(a), Use(b)>>
           X == {d}
           Y == {a, b}
           R == Ops(X, Y)
<1>0. i = Inst(ops, FALSE, tied, late) /\ tied \in SUBSET Nat /\ late \in SUBSET Nat
  BY DEF Triple
<1>1. ops \in Seq(R)
  <2>1. Def(d) \in R /\ Use(a) \in R /\ Use(b) \in R
    BY DEF Ops
  <2> HIDE DEF R
  <2> QED BY <2>1
<1>2. \A k \in DOMAIN ops : ops[k].kind = "def" <=> k = 1
  BY DEF Def, Use
<1>3. X \subseteq PReg \union 1..n /\ Y \subseteq PReg \union 1..n
  OBVIOUS
<1>5. /\ DOMAIN i.ops = 1..3
      /\ i.ops[1].kind = "def" /\ i.ops[1].reg = d
      /\ i.ops[2].kind = "use" /\ i.ops[2].reg = a
      /\ i.ops[3].kind = "use" /\ i.ops[3].reg = b
  BY <1>0 DEF Inst, Def, Use
<1>4. Regular(i, n) /\ i \in Instr
  <2> HIDE DEF ops, X, Y
  <2> QED BY <1>0, <1>1, <1>2, <1>3, InstFit
<1>6. Defs(i) = {d} /\ Uses(i) = {a, b}
  BY <1>5 DEF Defs, Uses, Touched
<1> QED BY <1>4, <1>5, <1>6

(* One instruction and its registers.                                        *)
LEMMA OneSelects ==
  ASSUME NEW n, NEW i \in Instr, Regular(i, n), Uses(i) \cap ToSet(Scratch) = {},
         NEW A, Uses(i) \subseteq A, NEW W, W \subseteq Defs(i)
  PROVE  Selects(<<i>>, n, A, W) /\ (LateApart(i) => Apart(<<i>>))
<1> DEFINE s == <<i>>
<1>1. s \in Seq(Instr) /\ DOMAIN s = {1} /\ s[1] = i
  BY ShortSeqs
<1> HIDE DEF s
<1>2. Selects(s, n, A, W)
  BY <1>1, Listed
<1>3. LateApart(i) => Apart(s)
  BY <1>1 DEF Apart
<1> QED BY <1>2, <1>3 DEF s

(* What selection makes of an operation.                                     *)
LowersTo(o, s, n) ==
  /\ Selects(s, n, ToSet(o.args), {o.d})
  /\ o.d \notin ToSet(o.args) => Apart(s)

(* An operation on the registers 1..n.                                       *)
Registered(o, n) ==
  o \in Operation /\ Takes(o) /\ o.d \in 1..n /\ o.args \in Seq(1..n)

(* The result of an operation is a virtual register; its operands counted.   *)
LEMMA ResultKind ==
  ASSUME NEW n \in Nat, NEW o, Registered(o, n)
  PROVE  /\ o.d \in PReg \union 1..n /\ o.d \notin PReg /\ o.d \notin ToSet(Scratch)
         /\ o.op \in {"bin", "shift", "xadd"} => DOMAIN o.args = 1..2
         /\ o.op \in {"select", "cmpxchg"} => DOMAIN o.args = 1..3
<1>1. o.d \in 1..n /\ o.args \in Seq(1..n) /\ Takes(o)
  BY DEF Registered
<1>2. DOMAIN o.args = 1..Len(o.args)
  BY <1>1
<1>3. /\ o.op \in {"bin", "shift", "xadd"} => Len(o.args) = 2
      /\ o.op \in {"select", "cmpxchg"} => Len(o.args) = 3
  BY <1>1 DEF Takes
<1> DEFINE d == o.d
<1>4. d \in 1..n
  BY <1>1
<1> HIDE DEF d
<1>5. d \in PReg \union 1..n /\ d \notin PReg /\ d \notin ToSet(Scratch)
  BY <1>4, RegisterKinds
<1> QED BY <1>2, <1>3, <1>5 DEF d

(* A constant writes its result.                                             *)
LEMMA LowersConst ==
  ASSUME NEW n \in Nat, NEW o, Registered(o, n), o.op = "const"
  PROVE  LowersTo(o, Lower(o), n)
<1> DEFINE i == Plain(<<Def(o.d)>>)
<1>1. Lower(o) = <<i>>
  BY DEF Lower
<1>2. i \in Instr /\ Defs(i) = {o.d} /\ Uses(i) = {} /\ DOMAIN i.ops = {1} /\ i.ops[1] = Def(o.d)
      /\ i.late = {} /\ i.move = FALSE
  <2>1. o.d \in PReg \union Nat
    BY DEF Registered
  <2>2. Def(o.d) \in Operand
    BY <2>1, InstrForms
  <2>3. i \in Instr
    BY <2>2, ShortSeqs, InstrForms
  <2>4. i.ops = <<Def(o.d)>> /\ i.late = {} /\ i.move = FALSE
    BY DEF Plain, Inst
  <2>5. Defs(i) = {o.d} /\ Uses(i) = {}
    BY <2>4 DEF Defs, Uses, Touched, Def
  <2> QED BY <2>3, <2>4, <2>5
<1> HIDE DEF i
<1>3. Regular(i, n)
  <2>1. \A k \in DOMAIN i.ops : i.ops[k].reg = o.d /\ i.ops[k].kind = "def" /\ k = 1
    BY <1>2 DEF Def
  <2> QED BY <1>2, <2>1 DEF Regular, Registered
<1>4. LateApart(i)
  BY <1>2 DEF LateApart
<1>5. Selects(<<i>>, n, ToSet(o.args), {o.d}) /\ Apart(<<i>>)
  BY <1>2, <1>3, <1>4, OneSelects
<1> QED BY <1>1, <1>5 DEF LowersTo

(* Its operands are virtual registers.                                       *)
LEMMA ArgKinds ==
  ASSUME NEW n \in Nat, NEW o, Registered(o, n), NEW k \in DOMAIN o.args
  PROVE  /\ o.args[k] \in 1..n /\ o.args[k] \in ToSet(o.args) /\ o.args[k] \in PReg \union 1..n
         /\ o.args[k] \notin PReg /\ o.args[k] \notin ToSet(Scratch)
<1>1. o.args \in Seq(1..n)
  BY DEF Registered
<1>2. o.args[k] \in 1..n /\ o.args[k] \in ToSet(o.args)
  BY <1>1 DEF ToSet
<1> QED BY <1>2, RegisterKinds

(* A binary operation.                                                       *)
LEMMA LowersBin ==
  ASSUME NEW n \in Nat, NEW o, Registered(o, n), o.op = "bin"
  PROVE  LowersTo(o, Lower(o), n)
<1>1. DOMAIN o.args = 1..2 /\ o.d \in PReg \union 1..n
  BY ResultKind
<1> DEFINE a == o.args[1]
           b == o.args[2]
           T == {2, 3}
           L == {}
           d == o.d
           i == Inst(<<Def(d), Use(a), Use(b)>>, FALSE, T, L)
<1>2. /\ a \in PReg \union 1..n /\ a \in ToSet(o.args) /\ a \notin ToSet(Scratch)
      /\ b \in PReg \union 1..n /\ b \in ToSet(o.args) /\ b \notin ToSet(Scratch)
  BY <1>1, ArgKinds
<1>3. Lower(o) = <<i>>
  BY DEF Lower
<1> HIDE DEF a, b
<1>4. Regular(i, n) /\ i \in Instr /\ Defs(i) = {o.d} /\ Uses(i) = {a, b} /\ i.late = {}
  <2>1. Triple(i, d, a, b, T, L)
    BY DEF Triple
  <2>2. d \in PReg \union 1..n /\ i.late = {}
    BY <1>1 DEF Inst
  <2> HIDE DEF i, T, L, d
  <2>3. Regular(i, n) /\ i \in Instr /\ Defs(i) = {d} /\ Uses(i) = {a, b}
    BY <1>2, <2>1, <2>2, TripleFit
  <2> QED BY <2>2, <2>3 DEF d
<1> HIDE DEF i
<1>5. LateApart(i)
  BY <1>4 DEF LateApart
<1>6. Selects(<<i>>, n, ToSet(o.args), {o.d}) /\ Apart(<<i>>)
  BY <1>2, <1>4, <1>5, OneSelects
<1> QED BY <1>3, <1>6 DEF LowersTo

(* An exchange-and-add reads its address after it has written its result.    *)
LEMMA LowersXadd ==
  ASSUME NEW n \in Nat, NEW o, Registered(o, n), o.op = "xadd"
  PROVE  LowersTo(o, Lower(o), n)
<1>1. DOMAIN o.args = 1..2 /\ o.d \in PReg \union 1..n /\ o.d \notin PReg
  BY ResultKind
<1> DEFINE a == o.args[1]
           b == o.args[2]
           T == {}
           L == {2}
           d == o.d
           i == Inst(<<Def(d), Use(a), Use(b)>>, FALSE, T, L)
<1>2. /\ a \in PReg \union 1..n /\ a \in ToSet(o.args) /\ a \notin ToSet(Scratch) /\ a \notin PReg
      /\ b \in PReg \union 1..n /\ b \in ToSet(o.args) /\ b \notin ToSet(Scratch)
  BY <1>1, ArgKinds
<1>3. Lower(o) = <<i>>
  BY DEF Lower
<1> HIDE DEF a, b
<1>4. /\ Regular(i, n) /\ i \in Instr /\ Defs(i) = {o.d} /\ Uses(i) = {a, b}
      /\ i.late = {2} /\ i.tied = {} /\ i.ops[2].reg = a
  <2>1. Triple(i, d, a, b, T, L)
    BY DEF Triple
  <2>2. d \in PReg \union 1..n /\ i.late = {2} /\ i.tied = {} /\ i.ops[2].reg = a
    BY <1>1 DEF Inst, Use
  <2> HIDE DEF i, T, L, d
  <2>3. Regular(i, n) /\ i \in Instr /\ Defs(i) = {d} /\ Uses(i) = {a, b}
    BY <1>2, <2>1, <2>2, TripleFit
  <2> QED BY <2>2, <2>3 DEF d
<1> HIDE DEF i
<1>5. o.d \notin ToSet(o.args) => LateApart(i)
  BY <1>1, <1>2, <1>4 DEF LateApart
<1>6. Selects(<<i>>, n, ToSet(o.args), {o.d}) /\ (LateApart(i) => Apart(<<i>>))
  BY <1>2, <1>4, OneSelects
<1> QED BY <1>3, <1>5, <1>6 DEF LowersTo

(* Reading less and writing more is fit as well.                             *)
LEMMA SelectsLess ==
  ASSUME NEW s, NEW n, NEW A, NEW W, Selects(s, n, A, W), NEW B, A \subseteq B, NEW V, V \subseteq W
  PROVE  Selects(s, n, B, V)
<1>1. \A v : Exposes(s, v) => v \in B
  BY DEF Selects
<1>2. \A v \in V : Writes(s, v)
  BY DEF Selects
<1> QED BY <1>1, <1>2 DEF Selects

(* Short sequences come apart.                                               *)
LEMMA TuplesJoin ==
  \A x, y, z : <<x, y>> = <<x>> \o <<y>> /\ <<x, y, z>> = <<x, y>> \o <<z>>
<1> SUFFICES ASSUME NEW x, NEW y, NEW z
             PROVE  <<x, y>> = <<x>> \o <<y>> /\ <<x, y, z>> = <<x, y>> \o <<z>>
  OBVIOUS
<1> DEFINE S == {x, y, z}
<1>0. x \in S /\ y \in S /\ z \in S
  OBVIOUS
<1> HIDE DEF S
<1>1. <<x>> \in Seq(S) /\ <<y>> \in Seq(S) /\ <<z>> \in Seq(S) /\ <<x, y>> \in Seq(S) /\ <<x, y, z>> \in Seq(S)
  BY <1>0, ShortSeqs
<1>2. <<x, y>> = <<x>> \o <<y>>
  <2> DEFINE s == <<x, y>>
             t == <<x>> \o <<y>>
  <2>1. s \in Seq(S) /\ t \in Seq(S) /\ Len(s) = 2 /\ Len(t) = 2
    BY <1>1
  <2>2. s[1] = x /\ s[2] = y /\ t[1] = x /\ t[2] = y
    BY <1>1
  <2> HIDE DEF s, t
  <2>3. \A k \in 1..2 : s[k] = t[k]
    BY <2>2
  <2>4. s = t
    BY <2>1, <2>3
  <2> QED BY <2>4 DEF s, t
<1>3. <<x, y, z>> = <<x, y>> \o <<z>>
  <2> DEFINE s == <<x, y, z>>
             t == <<x, y>> \o <<z>>
  <2>1. s \in Seq(S) /\ t \in Seq(S) /\ Len(s) = 3 /\ Len(t) = 3
    BY <1>1
  <2>2. s[1] = x /\ s[2] = y /\ s[3] = z /\ t[1] = x /\ t[2] = y /\ t[3] = z
    BY <1>1
  <2> HIDE DEF s, t
  <2>3. \A k \in 1..3 : s[k] = t[k]
    BY <2>2
  <2>4. s = t
    BY <2>1, <2>3
  <2> QED BY <2>4 DEF s, t
<1> QED BY <1>2, <1>3

(* Three instructions in a row.                                              *)
LEMMA InTurn ==
  ASSUME NEW x \in Instr, NEW y \in Instr, NEW z \in Instr, NEW n,
         NEW A, NEW B, NEW C, NEW U, NEW V, NEW W,
         Selects(<<x>>, n, A, U), Selects(<<y>>, n, B, V), Selects(<<z>>, n, C, W),
         B \subseteq A \union U, C \subseteq A \union U \union V
  PROVE  /\ Selects(<<x, y, z>>, n, A, W)
         /\ Apart(<<x>>) /\ Apart(<<y>>) /\ Apart(<<z>>) => Apart(<<x, y, z>>)
<1> DEFINE a == <<x>>
           b == <<y>>
           c == <<z>>
<1>1. a \in Seq(Instr) /\ b \in Seq(Instr) /\ c \in Seq(Instr) /\ a \o b \in Seq(Instr)
  BY ShortSeqs
<1>2. <<x, y, z>> = (a \o b) \o c
  <2>1. <<x, y>> = a \o b
    BY TuplesJoin, Zenon
  <2>2. <<x, y, z>> = <<x, y>> \o <<z>>
    BY TuplesJoin
  <2> QED BY <2>1, <2>2
<1> HIDE DEF a, b, c
<1>3. Selects(a \o b, n, A, U \union V)
  BY JoinedSelects DEF a, b
<1>4. C \subseteq A \union (U \union V) /\ W \subseteq (U \union V) \union W /\ A \subseteq A
  OBVIOUS
<1>5. Selects((a \o b) \o c, n, A, (U \union V) \union W)
  BY <1>3, <1>4, JoinedSelects DEF c
<1>6. Selects((a \o b) \o c, n, A, W)
  BY <1>4, <1>5, SelectsLess
<1>7. ASSUME Apart(a), Apart(b), Apart(c) PROVE Apart((a \o b) \o c)
  <2>1. Apart(a \o b)
    BY <1>1, <1>7, JoinedApart
  <2> QED BY <1>1, <1>7, <2>1, JoinedApart
<1> QED BY <1>2, <1>6, <1>7 DEF a, b, c

(* A select copies one operand into its result before it reads the others.   *)
LEMMA LowersSelect ==
  ASSUME NEW n \in Nat, NEW o, Registered(o, n), o.op = "select"
  PROVE  LowersTo(o, Lower(o), n)
<1>1. DOMAIN o.args = 1..3 /\ o.d \in PReg \union 1..n /\ o.d \notin PReg /\ o.d \notin ToSet(Scratch)
  BY ResultKind
<1> DEFINE a == o.args[1]
           b == o.args[2]
           c == o.args[3]
           d == o.d
           T == {}
           L == {3}
           x == Move(d, c)
           y == Plain(<<Use(a)>>)
           z == Inst(<<Def(d), Use(d), Use(b)>>, FALSE, T, L)
<1>2. /\ a \in PReg \union 1..n /\ a \in ToSet(o.args) /\ a \notin ToSet(Scratch)
      /\ b \in PReg \union 1..n /\ b \in ToSet(o.args) /\ b \notin ToSet(Scratch) /\ b \notin PReg
      /\ c \in PReg \union 1..n /\ c \in ToSet(o.args) /\ c \notin ToSet(Scratch)
      /\ d \in PReg \union 1..n /\ d \notin ToSet(Scratch) /\ d \notin PReg
  BY <1>1, ArgKinds
<1>3. Lower(o) = <<x, y, z>>
  BY DEF Lower
<1> HIDE DEF a, b, c, d
<1>4. x \in Instr /\ Selects(<<x>>, n, ToSet(o.args), {d}) /\ Apart(<<x>>)
  <2>1. x \in Instr /\ Regular(x, n) /\ Uses(x) = {c} /\ Defs(x) = {d} /\ LateApart(x)
    BY <1>2, MoveFit
  <2> HIDE DEF x
  <2> QED BY <1>2, <2>1, OneSelects
<1>5. y \in Instr /\ Selects(<<y>>, n, ToSet(o.args), {}) /\ Apart(<<y>>)
  <2>1. <<Use(a)>> \in Seq(Ops({}, {a}))
    <3>1. Use(a) \in Ops({}, {a})
      BY DEF Ops
    <3> QED BY <3>1
  <2>2. Regular(y, n) /\ y \in Instr /\ Uses(y) \subseteq {a}
    <3> DEFINE X == {}
               Y == {a}
               ops == <<Use(a)>>
    <3>1. ops \in Seq(Ops(X, Y))
      BY <2>1
    <3>2. X \subseteq PReg \union 1..n /\ Y \subseteq PReg \union 1..n /\ X \subseteq PReg
      BY <1>2
    <3>3. T \in SUBSET Nat
      OBVIOUS
    <3>4. y = Inst(ops, FALSE, T, T)
      BY DEF Plain
    <3> HIDE DEF ops, X, Y, T, y
    <3>5. Regular(y, n) /\ y \in Instr /\ Uses(y) \subseteq Y
      BY <3>1, <3>2, <3>3, <3>4, InstFit
    <3> QED BY <3>5 DEF Y
  <2>3. LateApart(y)
    BY DEF LateApart, Plain, Inst
  <2> HIDE DEF y
  <2>4. Uses(y) \subseteq ToSet(o.args) /\ Uses(y) \cap ToSet(Scratch) = {} /\ {} \subseteq Defs(y)
    BY <1>2, <2>2
  <2> QED BY <2>2, <2>3, <2>4, OneSelects
<1>6. z \in Instr /\ Selects(<<z>>, n, {d, b}, {d}) /\ (o.d \notin ToSet(o.args) => Apart(<<z>>))
  <2>1. Triple(z, d, d, b, T, L) /\ z.late = {3} /\ z.tied = {} /\ z.ops[3].reg = b
    BY DEF Triple, Inst, Use
  <2> HIDE DEF z, T, L
  <2>2. z \in Instr /\ Regular(z, n) /\ Uses(z) = {d, b} /\ Defs(z) = {d}
    BY <1>2, <2>1, TripleFit
  <2>3. o.d \notin ToSet(o.args) => LateApart(z)
    BY <1>2, <2>1, <2>2 DEF LateApart, d
  <2> QED BY <1>2, <2>2, <2>3, OneSelects
<1> HIDE DEF x, y, z
<1>7. Selects(<<x, y, z>>, n, ToSet(o.args), {d})
  <2>1. {d, b} \subseteq ToSet(o.args) \union {d} \union {}
    BY <1>2
  <2> QED BY <1>4, <1>5, <1>6, <2>1, InTurn
<1>8. o.d \notin ToSet(o.args) => Apart(<<x, y, z>>)
  <2>1. {d, b} \subseteq ToSet(o.args) \union {d} \union {}
    BY <1>2
  <2> QED BY <1>4, <1>5, <1>6, <2>1, InTurn
<1> QED BY <1>3, <1>7, <1>8 DEF LowersTo, d

(* Two instructions in a row.                                                *)
LEMMA InTwo ==
  ASSUME NEW x \in Instr, NEW y \in Instr, NEW n, NEW A, NEW B, NEW U, NEW V,
         Selects(<<x>>, n, A, U), Selects(<<y>>, n, B, V), B \subseteq A \union U
  PROVE  /\ Selects(<<x, y>>, n, A, V)
         /\ Apart(<<x>>) /\ Apart(<<y>>) => Apart(<<x, y>>)
<1> DEFINE a == <<x>>
           b == <<y>>
<1>1. a \in Seq(Instr) /\ b \in Seq(Instr)
  BY ShortSeqs
<1>2. <<x, y>> = a \o b
  BY TuplesJoin
<1> HIDE DEF a, b
<1>3. Selects(a \o b, n, A, U \union V)
  BY JoinedSelects DEF a, b
<1>4. V \subseteq U \union V /\ A \subseteq A
  OBVIOUS
<1>5. Selects(a \o b, n, A, V)
  BY <1>3, <1>4, SelectsLess
<1>6. ASSUME Apart(a), Apart(b) PROVE Apart(a \o b)
  BY <1>1, <1>6, JoinedApart
<1> QED BY <1>2, <1>5, <1>6 DEF a, b

(* A copy on its own.                                                        *)
LEMMA MoveSelects ==
  ASSUME NEW n \in Nat, NEW d \in PReg \union 1..n, NEW s \in PReg \union 1..n, s \notin ToSet(Scratch)
  PROVE  Move(d, s) \in Instr /\ Selects(<<Move(d, s)>>, n, {s}, {d}) /\ Apart(<<Move(d, s)>>)
<1>1. /\ Move(d, s) \in Instr /\ Regular(Move(d, s), n) /\ Uses(Move(d, s)) = {s}
      /\ Defs(Move(d, s)) = {d} /\ LateApart(Move(d, s))
  BY MoveFit
<1>2. {s} \subseteq {s} /\ {d} \subseteq {d} /\ {s} \cap ToSet(Scratch) = {}
  OBVIOUS
<1> QED BY <1>1, <1>2, OneSelects

(* A shift takes its count in the register for counts.                       *)
LEMMA LowersShift ==
  ASSUME NEW n \in Nat, NEW o, Registered(o, n), o.op = "shift"
  PROVE  LowersTo(o, Lower(o), n)
<1>1. DOMAIN o.args = 1..2 /\ o.d \in PReg \union 1..n /\ o.d \notin PReg
  BY ResultKind
<1> DEFINE a == o.args[1]
           b == o.args[2]
           d == o.d
           T == {2}
           L == {3}
           x == Move(CountReg, b)
           y == Inst(<<Def(d), Use(a), Use(CountReg)>>, FALSE, T, L)
<1>2. /\ a \in PReg \union 1..n /\ a \in ToSet(o.args) /\ a \notin ToSet(Scratch)
      /\ b \in PReg \union 1..n /\ b \in ToSet(o.args) /\ b \notin ToSet(Scratch)
      /\ d \in PReg \union 1..n /\ d \notin PReg
      /\ CountReg \in PReg \union 1..n /\ CountReg \in PReg /\ CountReg \notin ToSet(Scratch)
  BY <1>1, ArgKinds, RegisterKinds
<1>3. Lower(o) = <<x, y>>
  BY DEF Lower
<1> HIDE DEF a, b, d
<1>4. x \in Instr /\ Selects(<<x>>, n, {b}, {CountReg}) /\ Apart(<<x>>)
  BY <1>2, MoveSelects
<1>5. y \in Instr /\ Selects(<<y>>, n, {a, CountReg}, {d}) /\ Apart(<<y>>)
  <2>1. Triple(y, d, a, CountReg, T, L) /\ y.late = {3} /\ y.move = FALSE /\ y.ops[3].reg = CountReg
    BY DEF Triple, Inst, Use
  <2> HIDE DEF y, T, L
  <2>2. y \in Instr /\ Regular(y, n) /\ Uses(y) = {a, CountReg} /\ Defs(y) = {d}
    BY <1>2, <2>1, TripleFit
  <2>3. LateApart(y)
    BY <1>2, <2>1, <2>2 DEF LateApart
  <2> QED BY <1>2, <2>2, <2>3, OneSelects
<1> HIDE DEF x, y
<1>6. {a, CountReg} \subseteq ({b, a} \union {CountReg}) /\ {b} \subseteq {b, a} /\ {CountReg} \subseteq {CountReg}
  OBVIOUS
<1>7. Selects(<<x>>, n, {b, a}, {CountReg})
  BY <1>4, <1>6, SelectsLess
<1>8. Selects(<<x, y>>, n, {b, a}, {d}) /\ Apart(<<x, y>>)
  BY <1>4, <1>5, <1>6, <1>7, InTwo
<1>9. {b, a} \subseteq ToSet(o.args) /\ {d} \subseteq {d}
  BY <1>2
<1>10. Selects(<<x, y>>, n, ToSet(o.args), {d})
  BY <1>8, <1>9, SelectsLess
<1> QED BY <1>3, <1>8, <1>10 DEF LowersTo, d

(* A compare-exchange takes and leaves a value in the result register.       *)
LEMMA LowersCmpxchg ==
  ASSUME NEW n \in Nat, NEW o, Registered(o, n), o.op = "cmpxchg"
  PROVE  LowersTo(o, Lower(o), n)
<1>1. DOMAIN o.args = 1..3 /\ o.d \in PReg \union 1..n
  BY ResultKind
<1> DEFINE a == o.args[1]
           b == o.args[2]
           c == o.args[3]
           d == o.d
           x == Move(RetReg, b)
           y == Plain(<<Def(RetReg), Use(RetReg), Use(a), Use(c)>>)
           z == Move(d, RetReg)
           A == ToSet(o.args)
<1>2. /\ a \in PReg \union 1..n /\ a \in A /\ a \notin ToSet(Scratch)
      /\ b \in PReg \union 1..n /\ b \in A /\ b \notin ToSet(Scratch)
      /\ c \in PReg \union 1..n /\ c \in A /\ c \notin ToSet(Scratch)
      /\ d \in PReg \union 1..n
      /\ RetReg \in PReg \union 1..n /\ RetReg \in PReg /\ RetReg \notin ToSet(Scratch)
  BY <1>1, ArgKinds, RegisterKinds
<1>3. Lower(o) = <<x, y, z>>
  BY DEF Lower
<1> HIDE DEF a, b, c, d, A
<1>4. x \in Instr /\ Selects(<<x>>, n, A, {RetReg}) /\ Apart(<<x>>)
  <2>1. x \in Instr /\ Selects(<<x>>, n, {b}, {RetReg}) /\ Apart(<<x>>)
    BY <1>2, MoveSelects
  <2>2. {b} \subseteq A /\ {RetReg} \subseteq {RetReg}
    BY <1>2
  <2> QED BY <2>1, <2>2, SelectsLess
<1>5. z \in Instr /\ Selects(<<z>>, n, {RetReg}, {d}) /\ Apart(<<z>>)
  BY <1>2, MoveSelects
<1>6. y \in Instr /\ Selects(<<y>>, n, A \union {RetReg}, {}) /\ Apart(<<y>>)
  <2> DEFINE X == {RetReg}
             Y == {RetReg, a, c}
             ops == <<Def(RetReg), Use(RetReg), Use(a), Use(c)>>
             R == Ops(X, Y)
             T == {}
  <2>1. ops \in Seq(R)
    <3>1. Def(RetReg) \in R /\ Use(RetReg) \in R /\ Use(a) \in R /\ Use(c) \in R
      BY DEF Ops
    <3> HIDE DEF R
    <3> QED BY <3>1
  <2>2. X \subseteq PReg \union 1..n /\ Y \subseteq PReg \union 1..n /\ X \subseteq PReg /\ T \in SUBSET Nat
    BY <1>2
  <2>3. y = Inst(ops, FALSE, T, T) /\ LateApart(y)
    BY DEF Plain, Inst, LateApart
  <2> HIDE DEF ops, X, Y, T, y
  <2>4. Regular(y, n) /\ y \in Instr /\ Uses(y) \subseteq Y
    BY <2>1, <2>2, <2>3, InstFit
  <2>5. Uses(y) \subseteq A \union {RetReg} /\ Uses(y) \cap ToSet(Scratch) = {} /\ {} \subseteq Defs(y)
    BY <1>2, <2>4 DEF Y
  <2> QED BY <2>3, <2>4, <2>5, OneSelects
<1> HIDE DEF x, y, z
<1>7. {RetReg} \subseteq A \union {RetReg} \union {} /\ A \union {RetReg} \subseteq A \union {RetReg}
  OBVIOUS
<1>8. Selects(<<x, y, z>>, n, A, {d}) /\ Apart(<<x, y, z>>)
  BY <1>4, <1>5, <1>6, <1>7, InTurn
<1> QED BY <1>3, <1>8 DEF LowersTo, d, A

(* An operation that encodes all its operands itself.                        *)
LEMMA LowersWide ==
  ASSUME NEW n \in Nat, NEW o, Registered(o, n), o.op = "wide"
  PROVE  LowersTo(o, Lower(o), n)
<1> DEFINE d == o.d
           X == {d}
           Y == ToSet(o.args)
           R == Ops(X, Y)
           reads == [k \in DOMAIN o.args |-> Use(o.args[k])]
           ops == <<Def(d)>> \o reads
           T == {}
           i == Plain(ops)
<1>1. Lower(o) = <<i>>
  BY DEF Lower
<1>2. o.args \in Seq(1..n) /\ d \in PReg \union 1..n
  BY DEF Registered
<1>3. <<Def(d)>> \in Seq(R) /\ reads \in Seq(R)
  <2>1. Def(d) \in R /\ \A k \in DOMAIN o.args : Use(o.args[k]) \in R
    BY DEF ToSet, Ops
  <2> HIDE DEF R
  <2>2. Len(o.args) \in Nat /\ DOMAIN o.args = 1..Len(o.args)
    BY <1>2
  <2> QED BY <2>1, <2>2, ShortSeqs
<1>4. ops \in Seq(R) /\ \A k \in DOMAIN ops : ops[k].kind = "def" <=> k = 1
  <2>1. Len(o.args) \in Nat /\ DOMAIN o.args = 1..Len(o.args) /\ Len(reads) = Len(o.args)
    BY <1>2
  <2>2. \A k \in DOMAIN ops : ops[k] = IF k = 1 THEN Def(d) ELSE Use(o.args[k - 1])
    BY <2>1
  <2> HIDE DEF R
  <2>3. ops \in Seq(R)
    BY <1>3
  <2> HIDE DEF ops
  <2> QED BY <2>2, <2>3 DEF Def, Use
<1>5. Y \subseteq 1..n
  BY <1>2 DEF ToSet
<1>6. X \subseteq PReg \union 1..n /\ Y \subseteq PReg \union 1..n /\ T \in SUBSET Nat
  BY <1>2, <1>5
<1>7. i = Inst(ops, FALSE, T, T) /\ LateApart(i)
  BY DEF Plain, Inst, LateApart
<1>8. i.ops = ops /\ Len(ops) # 0 /\ 1 \in DOMAIN ops /\ ops[1] = Def(d)
  <2>1. reads \in Seq(R)
    BY <1>3
  <2> HIDE DEF reads, R
  <2> QED BY <2>1 DEF Plain, Inst
<1> HIDE DEF ops, X, Y, T, i, d
<1>9. Regular(i, n) /\ i \in Instr /\ Uses(i) \subseteq Y
  BY <1>4, <1>6, <1>7, InstFit
<1>10. d \in Defs(i)
  BY <1>8 DEF Defs, Touched, Def
<1>11. Uses(i) \cap ToSet(Scratch) = {} /\ {d} \subseteq Defs(i)
  BY <1>5, <1>9, <1>10, RegisterKinds
<1>12. Selects(<<i>>, n, Y, {d}) /\ Apart(<<i>>)
  BY <1>7, <1>9, <1>11, OneSelects
<1> QED BY <1>1, <1>12 DEF LowersTo, d, Y

(* Before a call its operands are moved, behind it its result is.            *)
Calls(i, middle, reads) == i = Plain(<<Def(RetReg)>> \o middle \o reads)

(* The call itself names fixed registers only.                               *)
LEMMA CallFit ==
  ASSUME NEW n \in Nat, NEW P, P \subseteq PReg, NEW middle \in Seq({Def(r) : r \in PReg}),
         NEW reads \in Seq({Use(r) : r \in P}), NEW i, Calls(i, middle, reads)
  PROVE  /\ Regular(i, n) /\ i \in Instr /\ LateApart(i)
         /\ Uses(i) \subseteq P /\ RetReg \in Defs(i)
         /\ \A x \in DOMAIN i.ops : i.ops[x].reg \in PReg
<1> DEFINE R == Ops(PReg, P)
           ops == <<Def(RetReg)>> \o middle \o reads
           T == {}
<1>1. <<Def(RetReg)>> \in Seq(R) /\ middle \in Seq(R) /\ reads \in Seq(R)
  <2>1. Def(RetReg) \in R /\ {Def(r) : r \in PReg} \subseteq R /\ {Use(r) : r \in P} \subseteq R
    BY RegistersAssumption DEF Ops
  <2> HIDE DEF R
  <2> QED BY <2>1, SeqWider, ShortSeqs
<1>2. ops \in Seq(R) /\ Len(ops) # 0 /\ 1 \in DOMAIN ops /\ ops[1] = Def(RetReg)
  <2> HIDE DEF R
  <2> QED BY <1>1
<1>3. i = Inst(ops, FALSE, T, T) /\ i.late = {} /\ i.ops = ops /\ T \in SUBSET Nat
  BY DEF Plain, Inst, Calls
<1>4. PReg \subseteq PReg \union 1..n /\ P \subseteq PReg \union 1..n /\ PReg \subseteq PReg
  OBVIOUS
<1> HIDE DEF ops, T
<1>5. /\ Regular(i, n) /\ i \in Instr /\ Uses(i) \subseteq P
      /\ \A k \in DOMAIN ops : ops[k].reg \in PReg \union P
  BY <1>2, <1>3, <1>4, InstFit
<1>6. LateApart(i)
  BY <1>3 DEF LateApart
<1>7. RetReg \in Defs(i)
  <2>1. i.ops = ops
    BY <1>3
  <2>2. ops[1].kind = "def" /\ ops[1].reg = RetReg
    BY <1>2 DEF Def
  <2>3. 1 \in DOMAIN i.ops /\ i.ops[1].kind = "def" /\ i.ops[1].reg = RetReg
    BY <1>2, <2>1, <2>2
  <2> QED BY <2>3 DEF Defs, Touched
<1> QED BY <1>3, <1>5, <1>6, <1>7

(* What a call overwrites are physical registers.                            *)
LEMMA ClobbersDefine == Clobbers \in Seq({Def(r) : r \in PReg})
<1> DEFINE pieces == [k \in DOMAIN CallerSaved |->
                        IF CallerSaved[k] = RetReg THEN <<>> ELSE <<Def(CallerSaved[k])>>]
           R == {Def(r) : r \in PReg}
<1>1. CallerSaved \in Seq(PReg)
  BY RegistersAssumption
<1>2. ASSUME NEW k \in DOMAIN CallerSaved PROVE pieces[k] \in Seq(R)
  <2>1. Def(CallerSaved[k]) \in R
    BY <1>1
  <2> HIDE DEF R
  <2> QED BY <2>1
<1>3. DOMAIN CallerSaved = 1..Len(CallerSaved) /\ Len(CallerSaved) \in Nat
  BY <1>1
<1>4. pieces \in [1..Len(CallerSaved) -> Seq(R)]
  <2> HIDE DEF R
  <2> QED BY <1>2, <1>3
<1>5. pieces \in Seq(Seq(R))
  <2> HIDE DEF pieces, R
  <2> QED BY <1>3, <1>4
<1> QED BY <1>5, FlattenTyped DEF Clobbers

(* A call moves its arguments into their registers and takes its result      *)
(* from one.                                                                 *)
LEMMA LowersCall ==
  ASSUME NEW n \in Nat, NEW o, Registered(o, n), o.op = "call"
  PROVE  LowersTo(o, Lower(o), n)
<1> DEFINE K == DOMAIN o.args
           A == ToSet(o.args)
           P == {ArgRegs[k] : k \in K}
           s == [k \in K |-> Move(ArgRegs[k], o.args[k])]
           reads == [k \in K |-> Use(ArgRegs[k])]
           y == Plain(<<Def(RetReg)>> \o Clobbers \o reads)
           z == Move(o.d, RetReg)
           t == <<y, z>>
<1>1. Lower(o) = s \o t
  BY DEF Lower
<1>2. /\ o.args \in Seq(1..n) /\ Len(o.args) \in Nat /\ K = 1..Len(o.args)
      /\ K \subseteq DOMAIN ArgRegs /\ o.d \in PReg \union 1..n
  BY RegistersAssumption DEF Registered, Takes
<1>3. ASSUME NEW k \in K
      PROVE  /\ ArgRegs[k] \in PReg /\ ArgRegs[k] \in P /\ ArgRegs[k] \notin ToSet(Scratch)
             /\ o.args[k] \in PReg \union 1..n /\ o.args[k] \in A /\ o.args[k] \notin ToSet(Scratch)
  <2>1. ArgRegs[k] \in ToSet(ArgRegs)
    BY <1>2 DEF ToSet
  <2> QED BY <2>1, ArgKinds, RegisterKinds
<1>4. P \subseteq PReg /\ P \cap ToSet(Scratch) = {}
  BY <1>3
<1>5. \A k \in K : Use(ArgRegs[k]) \in {Use(r) : r \in P}
  OBVIOUS
<1> HIDE DEF A, P
<1>6. \A k \in K : /\ s[k] \in Instr /\ Regular(s[k], n) /\ LateApart(s[k])
                   /\ Defs(s[k]) = {ArgRegs[k]} /\ Uses(s[k]) = {o.args[k]}
  <2> SUFFICES ASSUME NEW k \in K
               PROVE  LET m == Move(ArgRegs[k], o.args[k])
                      IN  /\ m \in Instr /\ Regular(m, n) /\ LateApart(m)
                          /\ Defs(m) = {ArgRegs[k]} /\ Uses(m) = {o.args[k]}
    OBVIOUS
  <2>1. ArgRegs[k] \in PReg \union 1..n /\ o.args[k] \in PReg \union 1..n
    BY <1>3
  <2> QED BY <2>1, MoveFit
<1>7. reads \in Seq({Use(r) : r \in P})
  BY <1>2, <1>5
<1>8. DOMAIN s = K
  OBVIOUS
<1>9. s \in Seq(Instr)
  <2>1. s \in [1..Len(o.args) -> Instr]
    BY <1>2, <1>6
  <2> QED BY <1>2, <2>1
<1> HIDE DEF reads, s
<1> HIDE DEF K
<1>10. Selects(s, n, A, P)
  <2>1. \A k \in DOMAIN s : Regular(s[k], n) /\ Uses(s[k]) \subseteq A /\ Uses(s[k]) \cap ToSet(Scratch) = {}
    BY <1>3, <1>6, <1>8
  <2>2. \A v \in P : \E k \in DOMAIN s : v \in Defs(s[k])
    BY <1>6, <1>8 DEF P
  <2> QED BY <1>9, <2>1, <2>2, Listed
<1>11. Apart(s)
  BY <1>6, <1>8 DEF Apart
<1>12. y \in Instr /\ Selects(<<y>>, n, P, {RetReg}) /\ Apart(<<y>>)
  <2>1. Regular(y, n) /\ y \in Instr /\ LateApart(y) /\ Uses(y) \subseteq P /\ RetReg \in Defs(y)
    <3>1. Calls(y, Clobbers, reads)
      BY DEF Calls
    <3> HIDE DEF y
    <3> QED BY <1>4, <1>7, <3>1, ClobbersDefine, CallFit
  <2> HIDE DEF y
  <2>2. Uses(y) \cap ToSet(Scratch) = {} /\ {RetReg} \subseteq Defs(y)
    BY <1>4, <2>1
  <2> QED BY <2>1, <2>2, OneSelects
<1>13. z \in Instr /\ Selects(<<z>>, n, {RetReg}, {o.d}) /\ Apart(<<z>>)
  BY <1>2, MoveSelects, RegisterKinds
<1> HIDE DEF y, z
<1>14. {RetReg} \subseteq P \union {RetReg}
  OBVIOUS
<1>15. Selects(t, n, P, {o.d}) /\ Apart(t) /\ t \in Seq(Instr)
  BY <1>12, <1>13, <1>14, InTwo, ShortSeqs
<1> HIDE DEF t
<1>16. P \subseteq A \union P /\ {o.d} \subseteq P \union {o.d} /\ A \subseteq A
  OBVIOUS
<1>17. Selects(s \o t, n, A, P \union {o.d})
  BY <1>10, <1>15, <1>16, JoinedSelects
<1>18. Selects(s \o t, n, A, {o.d})
  BY <1>16, <1>17, SelectsLess
<1>19. Apart(s \o t)
  BY <1>9, <1>11, <1>15, JoinedApart
<1> QED BY <1>1, <1>18, <1>19 DEF LowersTo, A

(* An instruction may read a scratch register that the one ahead writes.     *)
LEMMA BehindScratch ==
  ASSUME NEW s, NEW n, NEW A, NEW W, Selects(s, n, A, W), NEW i \in Instr, Regular(i, n),
         Uses(i) \subseteq W, \A x \in DOMAIN i.ops : i.ops[x].reg \in PReg,
         Uses(i) \cap ToSet(Scratch) # {} =>
           Len(s) # 0 /\ Uses(i) \cap ToSet(Scratch) \subseteq Defs(s[Len(s)]),
         NEW V, V \subseteq Defs(i)
  PROVE  Selects(s \o <<i>>, n, A, V)
<1> DEFINE t == <<i>>
<1>1. /\ s \in Seq(Instr) /\ ScratchBehind(s) /\ \A k \in DOMAIN s : Regular(s[k], n)
      /\ t \in Seq(Instr) /\ DOMAIN t = {1} /\ t[1] = i /\ Len(t) = 1
  BY ShortSeqs DEF Selects
<1> HIDE DEF t
<1>2. /\ s \o t \in Seq(Instr) /\ DOMAIN (s \o t) = 1..(Len(s) + 1)
      /\ Len(s) \in Nat /\ DOMAIN s = 1..Len(s)
      /\ \A k \in DOMAIN s : (s \o t)[k] = s[k]
      /\ (s \o t)[Len(s) + 1] = i
  <2>1. /\ s \o t \in Seq(Instr) /\ Len(s \o t) = Len(s) + Len(t) /\ Len(s) \in Nat /\ DOMAIN s = 1..Len(s)
        /\ \A k \in DOMAIN s : k \in DOMAIN (s \o t) /\ (s \o t)[k] = s[k]
        /\ \A k \in DOMAIN t : Len(s) + k \in DOMAIN (s \o t) /\ (s \o t)[Len(s) + k] = t[k]
    BY <1>1, Joined
  <2>2. Len(s \o t) = Len(s) + 1
    BY <1>1, <2>1
  <2>3. DOMAIN (s \o t) = 1..Len(s \o t)
    BY <2>1
  <2>4. 1 \in DOMAIN t
    BY <1>1
  <2>5. (s \o t)[Len(s) + 1] = i
    BY <1>1, <2>1, <2>4
  <2> QED BY <2>1, <2>2, <2>3, <2>5
<1>3. ASSUME NEW k \in DOMAIN (s \o t)
      PROVE  /\ Regular((s \o t)[k], n)
             /\ Uses((s \o t)[k]) \cap ToSet(Scratch) # {} =>
                  /\ k # 1 /\ Uses((s \o t)[k]) \cap ToSet(Scratch) \subseteq Defs((s \o t)[k - 1])
                  /\ \A x \in DOMAIN (s \o t)[k].ops : (s \o t)[k].ops[x].reg \in PReg
  <2>1. CASE k \in DOMAIN s
    <3>1. (s \o t)[k] = s[k] /\ Regular(s[k], n) /\ k \in 1..Len(s)
      BY <1>1, <1>2, <2>1
    <3>2. ASSUME Uses(s[k]) \cap ToSet(Scratch) # {}
          PROVE  /\ k # 1 /\ Uses(s[k]) \cap ToSet(Scratch) \subseteq Defs(s[k - 1])
                 /\ \A x \in DOMAIN s[k].ops : s[k].ops[x].reg \in PReg
      BY <1>1, <2>1, <3>2 DEF ScratchBehind
    <3>3. k # 1 => (s \o t)[k - 1] = s[k - 1]
      BY <1>2, <3>1
    <3> QED BY <3>1, <3>2, <3>3
  <2>2. CASE k = Len(s) + 1
    <3>1. (s \o t)[k] = i
      BY <1>2, <2>2
    <3>2. Len(s) # 0 => k # 1 /\ (s \o t)[k - 1] = s[Len(s)]
      BY <1>2, <2>2
    <3> QED BY <3>1, <3>2
  <2>3. k \in DOMAIN s \/ k = Len(s) + 1
    BY <1>2
  <2> QED BY <2>1, <2>2, <2>3, Zenon
<1>4. ScratchBehind(s \o t) /\ \A k \in DOMAIN (s \o t) : Regular((s \o t)[k], n)
  BY <1>3 DEF ScratchBehind
<1>5. ASSUME NEW v, Exposes(s \o t, v) PROVE v \in A
  <2>1. Exposes(s, v) \/ (Exposes(t, v) /\ ~Writes(s, v))
    BY <1>1, <1>5, JoinedReads
  <2>2. Exposes(t, v) => v \in W
    BY <1>1 DEF Exposes
  <2> QED BY <2>1, <2>2 DEF Selects
<1>6. ASSUME NEW v \in V PROVE Writes(s \o t, v)
  <2>1. Writes(t, v)
    BY <1>1 DEF Writes
  <2> QED BY <1>1, <2>1, JoinedReads
<1> QED BY <1>2, <1>4, <1>5, <1>6 DEF Selects, t

(* The moves of those operands of a system call that K names, and the         *)
(* registers that receive them.                                              *)
Passed(args, K) == {SyscallRegs[k] : k \in K \cap DOMAIN args}

(* The arguments K moved into the registers of a system call.                *)
Passing(args, K) ==
  FlattenSeq([k \in DOMAIN args |-> IF k \in K THEN <<Move(SyscallRegs[k], args[k])>> ELSE <<>>])

(* They write these registers, and read the arguments alone.                 *)
LEMMA PassingFit ==
  ASSUME NEW n \in Nat, NEW args \in Seq(1..n), Len(args) <= Len(SyscallRegs), NEW K
  PROVE  /\ Selects(Passing(args, K), n, ToSet(args), Passed(args, K))
         /\ Apart(Passing(args, K)) /\ Passing(args, K) \in Seq(Instr)
         /\ \A x \in DOMAIN Passing(args, K) :
              \E k \in K \cap DOMAIN args : Defs(Passing(args, K)[x]) = {SyscallRegs[k]}
<1> DEFINE mv(k) == Move(SyscallRegs[k], args[k])
           f == [k \in DOMAIN args |-> IF k \in K THEN <<mv(k)>> ELSE <<>>]
           m == Len(args)
           s == Passing(args, K)
<1>1. /\ m \in Nat /\ DOMAIN args = 1..m /\ DOMAIN f = 1..m
      /\ \A k \in 1..m : SyscallRegs[k] \in PReg /\ args[k] \in 1..n /\ args[k] \in ToSet(args)
  BY RegistersAssumption DEF ToSet
<1>2. ASSUME NEW k \in 1..m
      PROVE  /\ mv(k) \in Instr /\ Regular(mv(k), n) /\ LateApart(mv(k))
             /\ Defs(mv(k)) = {SyscallRegs[k]} /\ Uses(mv(k)) = {args[k]}
             /\ Uses(mv(k)) \subseteq ToSet(args) /\ Uses(mv(k)) \cap ToSet(Scratch) = {}
  <2>1. SyscallRegs[k] \in PReg \union 1..n /\ args[k] \in PReg \union 1..n
    BY <1>1
  <2>2. /\ mv(k) \in Instr /\ Regular(mv(k), n) /\ LateApart(mv(k))
        /\ Defs(mv(k)) = {SyscallRegs[k]} /\ Uses(mv(k)) = {args[k]}
    BY <2>1, MoveFit
  <2>3. args[k] \notin ToSet(Scratch) /\ args[k] \in ToSet(args)
    BY <1>1, RegisterKinds
  <2> QED BY <2>2, <2>3
<1> HIDE DEF mv
<1>3. \A k \in 1..m : f[k] \in Seq(Instr) /\ Len(f[k]) = IF k \in K THEN 1 ELSE 0
  BY <1>1, <1>2, ShortSeqs
<1>4. \A k \in 1..m : k \in K => f[k][1] = mv(k)
  BY <1>1
<1>5. s = FlattenSeq(f)
  BY DEF Passing, mv
<1>6. f \in [1..m -> Seq(Instr)]
  BY <1>1, <1>3
<1> HIDE DEF f, s, m
<1>7. Piecewise(Instr, f, m)
  BY <1>1, <1>6, FlattenPieces
<1>8. ASSUME NEW x \in DOMAIN s PROVE \E k \in 1..m : k \in K /\ s[x] = mv(k)
  <2>1. PICK k \in 1..m : \E y \in 1..Len(f[k]) : x = OffsetIn(f, k - 1) + y
    BY <1>5, <1>7 DEF Piecewise
  <2>2. PICK y \in 1..Len(f[k]) : x = OffsetIn(f, k - 1) + y
    BY <2>1
  <2>3. s[x] = f[k][y]
    BY <1>5, <1>7, <2>2 DEF Piecewise
  <2>4. k \in K /\ y = 1
    BY <1>3, <2>2
  <2> QED BY <1>4, <2>3, <2>4
<1>9. ASSUME NEW k \in 1..m, k \in K PROVE \E x \in DOMAIN s : s[x] = mv(k)
  <2>0. Len(f[k]) = 1
    BY <1>3, <1>9
  <2>1. 1 \in 1..Len(f[k]) /\ f[k][1] = mv(k) /\ Len(f[k]) = 1
    BY <1>4, <1>9, <2>0
  <2>2. s[OffsetIn(f, k - 1) + 1] = mv(k)
    BY <1>5, <1>7, <2>1 DEF Piecewise
  <2>3. OffsetIn(f, k - 1) + 1 \in 1..OffsetIn(f, m)
    <3>1. k - 1 \in 0..m /\ k \in 0..m /\ m \in 0..m /\ k <= m
      BY <1>1
    <3>2. /\ OffsetIn(f, k - 1) \in Nat /\ OffsetIn(f, k) \in Nat /\ OffsetIn(f, m) \in Nat
          /\ OffsetIn(f, k) <= OffsetIn(f, m) /\ OffsetIn(f, k) = OffsetIn(f, k - 1) + Len(f[k])
      BY <1>7, <3>1 DEF Piecewise
    <3> QED BY <2>1, <3>2
  <2>4. DOMAIN s = 1..OffsetIn(f, m)
    <3>1. s \in Seq(Instr) /\ Len(s) = OffsetIn(f, m)
      BY <1>5, <1>7 DEF Piecewise
    <3> QED BY <3>1
  <2> QED BY <2>2, <2>3, <2>4
<1>10. s \in Seq(Instr)
  BY <1>5, <1>7 DEF Piecewise
<1>11. \A x \in DOMAIN s : /\ Regular(s[x], n) /\ Uses(s[x]) \subseteq ToSet(args)
                           /\ Uses(s[x]) \cap ToSet(Scratch) = {} /\ LateApart(s[x])
  BY <1>2, <1>8
<1>12. \A x \in DOMAIN s : \E k \in K \cap DOMAIN args : Defs(s[x]) = {SyscallRegs[k]}
  BY <1>1, <1>2, <1>8
<1>13. \A v \in Passed(args, K) : \E x \in DOMAIN s : v \in Defs(s[x])
  <2> SUFFICES ASSUME NEW k \in K \cap DOMAIN args PROVE \E x \in DOMAIN s : SyscallRegs[k] \in Defs(s[x])
    BY DEF Passed
  <2>1. PICK x \in DOMAIN s : s[x] = mv(k)
    BY <1>1, <1>9
  <2> QED BY <1>1, <1>2, <2>1
<1>14. Selects(s, n, ToSet(args), Passed(args, K))
  BY <1>10, <1>11, <1>13, Listed
<1>15. Apart(s)
  BY <1>11 DEF Apart
<1> QED BY <1>10, <1>12, <1>14, <1>15 DEF s

(* Joining is associative.                                                   *)
LEMMA JoinedTwice ==
  ASSUME NEW S, NEW s \in Seq(S), NEW t \in Seq(S), NEW u \in Seq(S)
  PROVE  s \o (t \o u) = (s \o t) \o u
<1> DEFINE a == s \o (t \o u)
           b == (s \o t) \o u
           N == Len(s) + Len(t) + Len(u)
<1>1. /\ t \o u \in Seq(S) /\ Len(t \o u) = Len(t) + Len(u)
      /\ s \o t \in Seq(S) /\ Len(s \o t) = Len(s) + Len(t)
      /\ Len(s) \in Nat /\ Len(t) \in Nat /\ Len(u) \in Nat
  OBVIOUS
<1>2. a \in Seq(S) /\ b \in Seq(S) /\ Len(a) = N /\ Len(b) = N
  BY <1>1
<1>3. ASSUME NEW k \in 1..N PROVE a[k] = b[k]
  <2>1. CASE k <= Len(s)
    BY <1>1, <2>1
  <2>2. CASE k > Len(s) /\ k <= Len(s) + Len(t)
    BY <1>1, <2>2
  <2>3. CASE k > Len(s) + Len(t)
    BY <1>1, <2>3
  <2> QED BY <1>1, <2>1, <2>2, <2>3
<1> HIDE DEF a, b
<1>4. a = b
  BY <1>2, <1>3
<1> QED BY <1>4 DEF a, b

(* The one argument register that is a scratch register is written last.     *)
LEMMA SyscallMovesFit ==
  ASSUME NEW n \in Nat, NEW args \in Seq(1..n), Len(args) <= Len(SyscallRegs)
  PROVE  LET s == SyscallMoves(args)
             P == {SyscallRegs[k] : k \in DOMAIN args}
         IN  /\ Selects(s, n, ToSet(args), P) /\ Apart(s) /\ s \in Seq(Instr)
             /\ P \cap ToSet(Scratch) # {} =>
                  Len(s) # 0 /\ P \cap ToSet(Scratch) \subseteq Defs(s[Len(s)])
<1> DEFINE D == DOMAIN args
           K == {k \in D : SyscallRegs[k] \in ToSet(Scratch)}
           P == {SyscallRegs[k] : k \in D}
           A == ToSet(args)
           s == Passing(args, D \ K)
           t == Passing(args, K)
           PS == Passed(args, D \ K)
           PT == Passed(args, K)
<1>1. SyscallMoves(args) = s \o t
  <2>1. [k \in D |-> IF (SyscallRegs[k] \in ToSet(Scratch)) = FALSE THEN <<Move(SyscallRegs[k], args[k])>> ELSE <<>>]
          = [k \in D |-> IF k \in D \ K THEN <<Move(SyscallRegs[k], args[k])>> ELSE <<>>]
    OBVIOUS
  <2>2. [k \in D |-> IF (SyscallRegs[k] \in ToSet(Scratch)) = TRUE THEN <<Move(SyscallRegs[k], args[k])>> ELSE <<>>]
          = [k \in D |-> IF k \in K THEN <<Move(SyscallRegs[k], args[k])>> ELSE <<>>]
    OBVIOUS
  <2> HIDE DEF K
  <2> QED BY <2>1, <2>2, Zenon DEF SyscallMoves, Passing
<1>2. /\ Selects(s, n, A, PS) /\ Apart(s) /\ s \in Seq(Instr)
      /\ Selects(t, n, A, PT) /\ Apart(t) /\ t \in Seq(Instr)
      /\ \A x \in DOMAIN t : \E k \in K \cap D : Defs(t[x]) = {SyscallRegs[k]}
  <2> DEFINE L == D \ K
  <2> HIDE DEF K, L
  <2> QED BY PassingFit DEF L
<1>3. A \subseteq A \union PS /\ P \subseteq PS \union PT
  BY DEF Passed
<1>4. D \subseteq DOMAIN SyscallRegs
  BY RegistersAssumption
<1> HIDE DEF s, t, A
<1>5. Selects(s \o t, n, A, P)
  <2> HIDE DEF PS, PT, P
  <2>1. Selects(s \o t, n, A, PS \union PT)
    BY <1>2, <1>3, JoinedSelects
  <2> QED BY <1>3, <2>1, SelectsLess
<1>6. Apart(s \o t) /\ s \o t \in Seq(Instr)
  BY <1>2, JoinedApart
<1>7. ASSUME P \cap ToSet(Scratch) # {}
      PROVE  Len(s \o t) # 0 /\ P \cap ToSet(Scratch) \subseteq Defs((s \o t)[Len(s \o t)])
  <2>1. PICK k \in K : TRUE
    BY <1>7
  <2>2. SyscallRegs[k] \in PT
    BY <2>1 DEF Passed
  <2>3. PICK x \in DOMAIN t : SyscallRegs[k] \in Defs(t[x])
    BY <1>2, <2>2 DEF Selects, Writes
  <2>4. Len(t) \in DOMAIN t /\ Len(s \o t) = Len(s) + Len(t) /\ Len(s) \in Nat /\ Len(t) \in 1..Len(t)
    BY <1>2, <2>3
  <2>5. (s \o t)[Len(s \o t)] = t[Len(t)]
    BY <1>2, <2>4, Joined
  <2>6. PICK j \in K \cap D : Defs(t[Len(t)]) = {SyscallRegs[j]}
    BY <1>2, <2>4
  <2>7. ASSUME NEW r \in P \cap ToSet(Scratch) PROVE r = SyscallRegs[j]
    <3>1. PICK i \in D : r = SyscallRegs[i]
      BY <2>7
    <3>2. SyscallRegs[i] \in ToSet(Scratch) /\ SyscallRegs[j] \in ToSet(Scratch)
      BY <2>6, <2>7, <3>1
    <3>3. i = j
      BY <1>4, <2>6, <3>1, <3>2, ScratchAssumption
    <3> QED BY <3>1, <3>3
  <2> QED BY <2>4, <2>5, <2>6, <2>7
<1> QED BY <1>1, <1>5, <1>6, <1>7 DEF A

(* A system call.                                                            *)
LEMMA LowersSyscall ==
  ASSUME NEW n \in Nat, NEW o, Registered(o, n), o.op = "syscall"
  PROVE  LowersTo(o, Lower(o), n)
<1> DEFINE K == DOMAIN o.args
           A == ToSet(o.args)
           P == {SyscallRegs[k] : k \in K}
           s == SyscallMoves(o.args)
           middle == [k \in DOMAIN SyscallClobbers |-> Def(SyscallClobbers[k])]
           reads == [k \in K |-> Use(SyscallRegs[k])]
           y == Plain(<<Def(RetReg)>> \o middle \o reads)
           z == Move(o.d, RetReg)
<1>1. Lower(o) = s \o <<y, z>>
  BY DEF Lower
<1>2. /\ o.args \in Seq(1..n) /\ Len(o.args) \in Nat /\ K = 1..Len(o.args)
      /\ Len(o.args) <= Len(SyscallRegs) /\ o.d \in PReg \union 1..n
  BY DEF Registered, Takes
<1>3. \A k \in K : SyscallRegs[k] \in PReg
  BY <1>2, RegistersAssumption
<1>4. P \subseteq PReg
  BY <1>3
<1>5. reads \in Seq({Use(r) : r \in P})
  <2>1. \A k \in K : Use(SyscallRegs[k]) \in {Use(r) : r \in P}
    OBVIOUS
  <2> HIDE DEF P
  <2> QED BY <1>2, <2>1
<1>6. middle \in Seq({Def(r) : r \in PReg})
  BY RegistersAssumption
<1>7. /\ Selects(s, n, A, P) /\ Apart(s) /\ s \in Seq(Instr)
      /\ P \cap ToSet(Scratch) # {} => Len(s) # 0 /\ P \cap ToSet(Scratch) \subseteq Defs(s[Len(s)])
  BY <1>2, SyscallMovesFit
<1> HIDE DEF A, P, s
<1>8. /\ Regular(y, n) /\ y \in Instr /\ LateApart(y) /\ Uses(y) \subseteq P /\ RetReg \in Defs(y)
      /\ \A x \in DOMAIN y.ops : y.ops[x].reg \in PReg
  <2>1. Calls(y, middle, reads)
    BY DEF Calls
  <2> HIDE DEF y, middle, reads
  <2> QED BY <1>4, <1>5, <1>6, <2>1, CallFit
<1> HIDE DEF y, middle, reads
<1>9. Selects(s \o <<y>>, n, A, {RetReg})
  <2>1. Uses(y) \cap ToSet(Scratch) # {} => Len(s) # 0 /\ Uses(y) \cap ToSet(Scratch) \subseteq Defs(s[Len(s)])
    BY <1>7, <1>8
  <2>2. {RetReg} \subseteq Defs(y)
    BY <1>8
  <2> QED BY <1>7, <1>8, <2>1, <2>2, BehindScratch
<1>10. z \in Instr /\ Selects(<<z>>, n, {RetReg}, {o.d}) /\ Apart(<<z>>)
  BY <1>2, MoveSelects, RegisterKinds
<1> HIDE DEF z
<1>11. {RetReg} \subseteq A \union {RetReg} /\ {o.d} \subseteq {RetReg} \union {o.d} /\ A \subseteq A
  OBVIOUS
<1>12. Selects((s \o <<y>>) \o <<z>>, n, A, {o.d})
  <2> DEFINE u == s \o <<y>>
             w == <<z>>
  <2>1. Selects(u, n, A, {RetReg}) /\ Selects(w, n, {RetReg}, {o.d})
    BY <1>9, <1>10
  <2> HIDE DEF u, w
  <2>2. Selects(u \o w, n, A, {RetReg} \union {o.d})
    BY <1>11, <2>1, JoinedSelects
  <2>3. Selects(u \o w, n, A, {o.d})
    BY <1>11, <2>2, SelectsLess
  <2> QED BY <2>3 DEF u, w
<1>13. <<y>> \in Seq(Instr) /\ <<z>> \in Seq(Instr) /\ <<y, z>> \in Seq(Instr) /\ <<y, z>> = <<y>> \o <<z>>
  BY <1>8, <1>10, ShortSeqs, TuplesJoin
<1>14. s \o (<<y>> \o <<z>>) = (s \o <<y>>) \o <<z>>
  <2> DEFINE u == <<y>>
             w == <<z>>
  <2>1. u \in Seq(Instr) /\ w \in Seq(Instr)
    BY <1>13
  <2> HIDE DEF u, w
  <2>2. s \o (u \o w) = (s \o u) \o w
    BY <1>7, <2>1, JoinedTwice
  <2> QED BY <2>2 DEF u, w
<1>15. Apart(s \o <<y, z>>)
  <2>1. Apart(<<y>>)
    BY <1>8, ShortSeqs DEF Apart
  <2>2. Apart(<<y>> \o <<z>>)
    BY <1>10, <1>13, <2>1, JoinedApart
  <2>3. Apart(<<y, z>>)
    BY <1>13, <2>2
  <2> QED BY <1>7, <1>13, <2>3, JoinedApart
<1>16. Selects(s \o <<y, z>>, n, A, {o.d})
  BY <1>12, <1>13, <1>14
<1> QED BY <1>1, <1>15, <1>16 DEF LowersTo, A

(* Every operation reads only its arguments before it writes its result,     *)
(* and writes that.                                                          *)
LEMMA LowersAll ==
  ASSUME NEW n \in Nat, NEW o, Registered(o, n)
  PROVE  LowersTo(o, Lower(o), n)
<1>1. o.op \in {"const", "bin", "select", "shift", "xadd", "cmpxchg", "call", "syscall", "wide"}
  BY DEF Registered, Operation
<1> QED BY <1>1, LowersConst, LowersBin, LowersSelect, LowersShift, LowersXadd, LowersCmpxchg,
           LowersCall, LowersSyscall, LowersWide

(* The entry takes the parameters from the argument registers.               *)
LEMMA PrologueFit ==
  ASSUME NEW n \in Nat, NEW params \in Seq(1..n), Len(params) <= Len(ArgRegs)
  PROVE  /\ Selects(Prologue(params), n, ToSet(ArgRegs), ToSet(params)) /\ Apart(Prologue(params))
         /\ Prologue(params) \in Seq(Instr)
<1> DEFINE s == Prologue(params)
<1>1. /\ DOMAIN params = 1..Len(params) /\ Len(params) \in Nat
      /\ DOMAIN s = DOMAIN params /\ \A k \in DOMAIN s : s[k] = Move(params[k], ArgRegs[k])
  BY DEF Prologue
<1>2. ASSUME NEW k \in DOMAIN s
      PROVE  /\ Regular(s[k], n) /\ s[k] \in Instr /\ LateApart(s[k])
             /\ Defs(s[k]) = {params[k]} /\ Uses(s[k]) = {ArgRegs[k]}
             /\ ArgRegs[k] \in ToSet(ArgRegs) /\ ArgRegs[k] \notin ToSet(Scratch)
  <2>1. k \in DOMAIN ArgRegs
    BY <1>1, RegistersAssumption
  <2>2. ArgRegs[k] \in ToSet(ArgRegs)
    BY <2>1 DEF ToSet
  <2>3. ArgRegs[k] \in PReg \union 1..n /\ params[k] \in PReg \union 1..n /\ ArgRegs[k] \notin ToSet(Scratch)
    BY <1>1, <2>2, RegisterKinds
  <2> QED BY <1>1, <2>2, <2>3, MoveFit
<1>3. s \in Seq(Instr)
  <2>1. s \in [1..Len(params) -> Instr]
    BY <1>1, <1>2 DEF Prologue
  <2> QED BY <1>1, <2>1
<1> HIDE DEF s
<1>4. \A v \in ToSet(params) : \E k \in DOMAIN s : v \in Defs(s[k])
  BY <1>1, <1>2 DEF ToSet
<1>5. \A k \in DOMAIN s : /\ Regular(s[k], n) /\ Uses(s[k]) \subseteq ToSet(ArgRegs)
                          /\ Uses(s[k]) \cap ToSet(Scratch) = {}
  BY <1>2
<1>6. Selects(s, n, ToSet(ArgRegs), ToSet(params))
  BY <1>3, <1>4, <1>5, Listed
<1>7. Apart(s)
  BY <1>2 DEF Apart
<1> QED BY <1>3, <1>6, <1>7 DEF s

(* What reads registers and writes none.                                     *)
LEMMA ReaderFit ==
  ASSUME NEW n \in Nat, NEW P, P \subseteq PReg \union 1..n, P \cap ToSet(Scratch) = {},
         NEW reads \in Seq({Use(r) : r \in P})
  PROVE  /\ Plain(reads) \in Instr /\ Selects(<<Plain(reads)>>, n, P, {}) /\ Apart(<<Plain(reads)>>)
         /\ Defs(Plain(reads)) = {}
<1> DEFINE i == Plain(reads)
           X == {}
           T == {}
<1>1. reads \in Seq(Ops(X, P))
  <2>1. {Use(r) : r \in P} \subseteq Ops(X, P)
    BY DEF Ops
  <2> HIDE DEF X
  <2> QED BY <2>1, SeqWider
<1>2. X \subseteq PReg \union 1..n /\ X \subseteq PReg /\ T \in SUBSET Nat
  OBVIOUS
<1>3. i = Inst(reads, FALSE, T, T) /\ LateApart(i)
  BY DEF Plain, Inst, LateApart
<1> HIDE DEF i, T, X
<1>4. Regular(i, n) /\ i \in Instr /\ Defs(i) \subseteq X /\ Uses(i) \subseteq P
  BY <1>1, <1>2, <1>3, InstFit
<1>5. Uses(i) \cap ToSet(Scratch) = {} /\ {} \subseteq Defs(i) /\ Defs(i) = {}
  BY <1>4 DEF X
<1>6. Selects(<<i>>, n, P, {}) /\ Apart(<<i>>)
  BY <1>3, <1>4, <1>5, OneSelects
<1> QED BY <1>4, <1>5, <1>6 DEF i

(* The end of a block reads the registers its source reads.                  *)
LEMMA TerminatorFit ==
  ASSUME NEW n \in Nat, NEW b, b.uses \in Seq(1..n)
  PROVE  LET s == Terminator(b)
         IN  /\ Selects(s, n, ToSet(b.uses), {}) /\ Apart(s) /\ s \in Seq(Instr)
             /\ Len(s) # 0 /\ Defs(s[Len(s)]) = {}
<1> DEFINE K == DOMAIN b.uses
           A == ToSet(b.uses)
<1>1. /\ K = 1..Len(b.uses) /\ Len(b.uses) \in Nat
      /\ \A k \in K : /\ b.uses[k] \in 1..n /\ b.uses[k] \in PReg \union 1..n
                      /\ b.uses[k] \in A /\ b.uses[k] \notin ToSet(Scratch)
  <2>1. K = 1..Len(b.uses) /\ Len(b.uses) \in Nat /\ \A k \in K : b.uses[k] \in 1..n
    OBVIOUS
  <2>2. \A k \in K : b.uses[k] \in A
    BY DEF ToSet
  <2>3. \A k \in K : b.uses[k] \notin ToSet(Scratch)
    BY <2>1, RegisterKinds
  <2> QED BY <2>1, <2>2, <2>3
<1>2. CASE b.edges # <<>>
  <2> DEFINE reads == [k \in K |-> Use(b.uses[k])]
             i == Plain(reads)
  <2>1. Terminator(b) = <<i>>
    BY <1>2 DEF Terminator
  <2>2. reads \in Seq({Use(r) : r \in A})
    <3>1. \A k \in K : Use(b.uses[k]) \in {Use(r) : r \in A}
      BY <1>1
    <3> HIDE DEF A
    <3> QED BY <1>1, <3>1
  <2>3. A \subseteq PReg \union 1..n /\ A \cap ToSet(Scratch) = {}
    BY <1>1 DEF ToSet
  <2> HIDE DEF reads, A
  <2>4. i \in Instr /\ Selects(<<i>>, n, A, {}) /\ Apart(<<i>>) /\ Defs(i) = {}
    BY <2>2, <2>3, ReaderFit
  <2> HIDE DEF i
  <2>5. <<i>> \in Seq(Instr) /\ Len(<<i>>) = 1 /\ <<i>>[1] = i
    BY <2>4, ShortSeqs
  <2> QED BY <2>1, <2>4, <2>5 DEF A
<1>3. CASE b.edges = <<>>
  <2> DEFINE s == [k \in K |-> Move(RetReg, b.uses[k])]
             P == IF K = {} THEN {} ELSE {RetReg}
             reads == [k \in K |-> Use(RetReg)]
             i == Plain(reads)
  <2>1. Terminator(b) = s \o <<i>>
    BY <1>3 DEF Terminator
  <2>2. reads \in Seq({Use(r) : r \in P})
    <3>1. \A k \in K : Use(RetReg) \in {Use(r) : r \in P}
      OBVIOUS
    <3> HIDE DEF P
    <3> QED BY <1>1, <3>1
  <2>3. P \subseteq PReg \union 1..n /\ P \cap ToSet(Scratch) = {} /\ RetReg \in PReg \union 1..n
    BY RegisterKinds
  <2>4. ASSUME NEW k \in K
        PROVE  /\ s[k] \in Instr /\ Regular(s[k], n) /\ LateApart(s[k])
               /\ Defs(s[k]) = {RetReg} /\ Uses(s[k]) = {b.uses[k]}
    <3>1. s[k] = Move(RetReg, b.uses[k])
      OBVIOUS
    <3> HIDE DEF s
    <3> QED BY <1>1, <2>3, <3>1, MoveFit
  <2>5. s \in Seq(Instr) /\ DOMAIN s = K
    <3>1. s \in [1..Len(b.uses) -> Instr]
      BY <1>1, <2>4
    <3> QED BY <1>1, <3>1
  <2> HIDE DEF s, reads
  <2>6. Selects(s, n, A, P)
    <3>1. ASSUME NEW k \in DOMAIN s
          PROVE  Regular(s[k], n) /\ Uses(s[k]) \subseteq A /\ Uses(s[k]) \cap ToSet(Scratch) = {}
      <4>1. k \in K /\ Uses(s[k]) = {b.uses[k]} /\ Regular(s[k], n)
        BY <2>4, <2>5
      <4>2. b.uses[k] \in A /\ b.uses[k] \notin ToSet(Scratch)
        BY <1>1, <4>1
      <4> HIDE DEF A
      <4> QED BY <4>1, <4>2
    <3>2. \A v \in P : \E k \in DOMAIN s : v \in Defs(s[k])
      BY <2>4, <2>5
    <3> HIDE DEF A, P
    <3> QED BY <2>5, <3>1, <3>2, Listed
  <2>7. Apart(s)
    BY <2>4, <2>5 DEF Apart
  <2> HIDE DEF P, A
  <2>8. i \in Instr /\ Selects(<<i>>, n, P, {}) /\ Apart(<<i>>) /\ Defs(i) = {}
    BY <2>2, <2>3, ReaderFit
  <2> HIDE DEF i
  <2>9. <<i>> \in Seq(Instr)
    BY <2>8, ShortSeqs
  <2>10. Selects(s \o <<i>>, n, A, {}) /\ Apart(s \o <<i>>)
    <3> DEFINE t == <<i>>
               N == {}
    <3>1. Selects(t, n, P, N) /\ Apart(t) /\ t \in Seq(Instr) /\ P \subseteq A \union P
      BY <2>8, <2>9
    <3>2. N \subseteq P \union N /\ A \subseteq A
      OBVIOUS
    <3> HIDE DEF t, N
    <3>3. Selects(s \o t, n, A, P \union N)
      BY <2>6, <3>1, JoinedSelects
    <3>4. Selects(s \o t, n, A, N)
      BY <3>2, <3>3, SelectsLess
    <3>5. Apart(s \o t)
      BY <2>5, <2>7, <3>1, JoinedApart
    <3> QED BY <3>4, <3>5 DEF t, N
  <2>11. /\ s \o <<i>> \in Seq(Instr) /\ Len(s \o <<i>>) = Len(s) + 1 /\ Len(s) \in Nat
         /\ (s \o <<i>>)[Len(s) + 1] = i
    BY <2>5, <2>8
  <2> QED BY <2>1, <2>8, <2>10, <2>11 DEF A
<1> QED BY <1>2, <1>3

(* What the form of a function says of one block.                            *)
LEMMA SourceFacts ==
  ASSUME NEW f \in Functions, NEW b \in DOMAIN f.blocks
  PROVE  /\ f.vregs \in Nat
         /\ DOMAIN f.blocks[b].body = 1..Len(f.blocks[b].body) /\ Len(f.blocks[b].body) \in Nat
         /\ \A k \in DOMAIN f.blocks[b].body : Registered(f.blocks[b].body[k], f.vregs)
         /\ f.blocks[b].params \in Seq(1..f.vregs) /\ f.blocks[b].uses \in Seq(1..f.vregs)
         /\ b = 1 => Len(f.blocks[b].params) <= Len(ArgRegs)
<1> DEFINE sb == f.blocks[b]
<1>1. WellFormed(f)
  BY FunctionsAssumption
<1>2. f.blocks \in Seq(SourceBlock)
  BY <1>1 DEF WellFormed
<1>20. sb \in SourceBlock
  <2> DEFINE blocks == f.blocks
  <2>1. blocks \in Seq(SourceBlock) /\ b \in DOMAIN blocks
    BY <1>2
  <2> HIDE DEF blocks
  <2>2. blocks[b] \in SourceBlock
    BY <2>1
  <2> QED BY <2>2 DEF blocks
<1>3. /\ sb.body \in Seq(Operation)
      /\ DOMAIN sb.body = 1..Len(sb.body) /\ Len(sb.body) \in Nat
  <2>1. sb.body \in Seq(Operation)
    BY <1>20 DEF SourceBlock
  <2> DEFINE body == sb.body
  <2>2. body \in Seq(Operation)
    BY <2>1
  <2> HIDE DEF body
  <2>3. DOMAIN body = 1..Len(body) /\ Len(body) \in Nat
    BY <2>2
  <2> QED BY <2>1, <2>3 DEF body
<1>4. /\ \A o \in ToSet(sb.body) : Takes(o) /\ o.d \in 1..f.vregs /\ o.args \in Seq(1..f.vregs)
      /\ sb.params \in Seq(1..f.vregs) /\ sb.uses \in Seq(1..f.vregs)
      /\ f.vregs \in Nat
      /\ b = 1 => Len(sb.params) <= Len(ArgRegs)
  BY <1>1 DEF WellFormed
<1> HIDE DEF sb
<1>5. \A k \in DOMAIN sb.body : sb.body[k] \in ToSet(sb.body) /\ sb.body[k] \in Operation
  BY <1>3 DEF ToSet
<1>6. \A k \in DOMAIN sb.body : Registered(sb.body[k], f.vregs)
  BY <1>4, <1>5 DEF Registered
<1> QED BY <1>3, <1>4, <1>6 DEF sb

(* What selection makes of the body of a block.                              *)
LEMMA BodyFit ==
  ASSUME NEW f \in Functions, NEW b \in DOMAIN f.blocks
  PROVE  LET body == f.blocks[b].body
             s == FlattenSeq([k \in DOMAIN body |-> Lower(body[k])])
         IN  /\ s \in Seq(Instr) /\ ScratchBehind(s) /\ \A k \in DOMAIN s : Regular(s[k], f.vregs)
             /\ \A v : Exposes(s, v) => \E k \in DOMAIN body : /\ v \in ToSet(body[k].args)
                                                               /\ \A j \in 1..(k - 1) : body[j].d # v
             /\ \A k \in DOMAIN body : Writes(s, body[k].d)
             /\ (\A k \in DOMAIN body : body[k].d \notin ToSet(body[k].args)) => Apart(s)
<1> DEFINE n == f.vregs
           body == f.blocks[b].body
           m == Len(body)
           p == [k \in DOMAIN body |-> Lower(body[k])]
           s == FlattenSeq(p)
<1>1. n \in Nat /\ DOMAIN body = 1..m /\ m \in Nat /\ \A k \in 1..m : Registered(body[k], n)
  BY SourceFacts
<1>2. DOMAIN p = 1..m /\ \A k \in 1..m : p[k] = Lower(body[k])
  BY <1>1
<1>3. p = [k \in 1..m |-> p[k]]
  BY <1>2
<1> HIDE DEF p, body, m, n
<1>4. ASSUME NEW k \in 1..m
      PROVE  /\ Selects(p[k], n, ToSet(body[k].args), {body[k].d})
             /\ body[k].d \notin ToSet(body[k].args) => Apart(p[k])
  BY <1>1, <1>2, LowersAll DEF LowersTo
<1>5. ASSUME NEW k \in 1..m
      PROVE  /\ p[k] \in Seq(Instr) /\ ScratchBehind(p[k]) /\ \A x \in DOMAIN p[k] : Regular(p[k][x], n)
             /\ Writes(p[k], body[k].d) /\ \A v : Exposes(p[k], v) => v \in ToSet(body[k].args)
  BY <1>4 DEF Selects
<1>6. p \in [1..m -> Seq(Instr)]
  BY <1>3, <1>5
<1>7. s \in Seq(Instr) /\ ScratchBehind(s) /\ \A k \in DOMAIN s : Regular(s[k], n)
  BY <1>1, <1>5, <1>6, PiecesFit
<1>8. ASSUME NEW v, Exposes(s, v)
      PROVE  \E k \in 1..m : v \in ToSet(body[k].args) /\ \A j \in 1..(k - 1) : body[j].d # v
  <2>1. \E k \in 1..m : Exposes(p[k], v) /\ \A j \in 1..(k - 1) : ~Writes(p[j], v)
    BY <1>1, <1>6, <1>8, PiecesReads
  <2>2. PICK k \in 1..m : Exposes(p[k], v) /\ \A j \in 1..(k - 1) : ~Writes(p[j], v)
    BY <2>1
  <2>3. ASSUME NEW j \in 1..(k - 1) PROVE body[j].d # v
    <3>1. j \in 1..m
      BY <1>1
    <3> QED BY <1>5, <2>2, <3>1
  <2> QED BY <1>5, <2>2, <2>3
<1>9. \A k \in 1..m : Writes(s, body[k].d)
  BY <1>1, <1>5, <1>6, PiecesReads
<1>10. (\A k \in 1..m : body[k].d \notin ToSet(body[k].args)) => Apart(s)
  BY <1>1, <1>4, <1>6, PiecesApart
<1> HIDE DEF s
<1>11. /\ s \in Seq(Instr) /\ ScratchBehind(s) /\ \A k \in DOMAIN s : Regular(s[k], n)
       /\ \A v : Exposes(s, v) => \E k \in DOMAIN body : /\ v \in ToSet(body[k].args)
                                                         /\ \A j \in 1..(k - 1) : body[j].d # v
       /\ \A k \in DOMAIN body : Writes(s, body[k].d)
       /\ (\A k \in DOMAIN body : body[k].d \notin ToSet(body[k].args)) => Apart(s)
  BY <1>1, <1>7, <1>8, <1>9, <1>10
<1> QED BY <1>11 DEF s, p, body, n

(* What selection makes of a block.                                          *)
BlockLowered(f, b, s) ==
  /\ s \in Seq(Instr) /\ ScratchBehind(s) /\ \A k \in DOMAIN s : Regular(s[k], f.vregs)
  /\ Len(s) # 0 /\ Defs(s[Len(s)]) = {}
  /\ b # 1 => \A r \in PReg : ~Exposes(s, r)
  /\ \A v \in 1..f.vregs : /\ Exposes(s, v) => ReadsFirst(f, b, v)
                           /\ Assigns(f, b, v) => Writes(s, v)
  /\ (\A o \in ToSet(f.blocks[b].body) : o.d \notin ToSet(o.args)) => Apart(s)

(* So every block of a function is lowered as it should be.                  *)
LEMMA LoweredFit ==
  ASSUME NEW f \in Functions, NEW b \in DOMAIN f.blocks
  PROVE  BlockLowered(f, b, Lowered(f)[b].insts)
<1> DEFINE sb == f.blocks[b]
           n == f.vregs
           body == sb.body
           p == IF b = 1 THEN Prologue(f.blocks[1].params) ELSE <<>>
           s == FlattenSeq([k \in DOMAIN body |-> Lower(body[k])])
           t == Terminator(sb)
           P == IF b = 1 THEN ToSet(ArgRegs) ELSE {}
           W == IF b = 1 THEN ToSet(sb.params) ELSE {}
<1>1. Lowered(f)[b].insts = (p \o s) \o t
  BY DEF Lowered
<1>2. /\ n \in Nat /\ DOMAIN body = 1..Len(body) /\ Len(body) \in Nat
      /\ \A k \in DOMAIN body : Registered(body[k], n)
      /\ sb.params \in Seq(1..n) /\ sb.uses \in Seq(1..n)
      /\ b = 1 => Len(sb.params) <= Len(ArgRegs)
  BY SourceFacts
<1>3. Selects(p, n, P, W) /\ Apart(p) /\ p \in Seq(Instr)
  <2>1. CASE b = 1
    <3>1. p = Prologue(sb.params) /\ P = ToSet(ArgRegs) /\ W = ToSet(sb.params)
      BY <2>1
    <3> HIDE DEF p, sb, P, W
    <3> QED BY <1>2, <2>1, <3>1, PrologueFit
  <2>2. CASE b # 1
    <3>1. p = <<>> /\ P = {} /\ W = {}
      BY <2>2
    <3> HIDE DEF p, P, W
    <3>2. p \in Seq(Instr) /\ DOMAIN p = {}
      BY <3>1
    <3> QED BY <3>1, <3>2 DEF Selects, Apart, ScratchBehind, Exposes, Writes
  <2> QED BY <2>1, <2>2
<1>4. /\ s \in Seq(Instr) /\ ScratchBehind(s) /\ \A k \in DOMAIN s : Regular(s[k], n)
      /\ \A v : Exposes(s, v) => \E k \in DOMAIN body : /\ v \in ToSet(body[k].args)
                                                        /\ \A j \in 1..(k - 1) : body[j].d # v
      /\ \A k \in DOMAIN body : Writes(s, body[k].d)
      /\ (\A k \in DOMAIN body : body[k].d \notin ToSet(body[k].args)) => Apart(s)
  BY BodyFit
<1>5. Selects(t, n, ToSet(sb.uses), {}) /\ Apart(t) /\ t \in Seq(Instr) /\ Len(t) # 0 /\ Defs(t[Len(t)]) = {}
  <2> HIDE DEF sb, n
  <2> QED BY <1>2, TerminatorFit
<1>6. b # 1 => P = {}
  OBVIOUS
<1>7. P \subseteq PReg /\ W = (IF b = 1 THEN ToSet(sb.params) ELSE {})
  BY RegisterKinds
<1> DEFINE u == p \o s
           w == u \o t
<1> HIDE DEF s, p, t, P, W
<1>8. u \in Seq(Instr) /\ ScratchBehind(u) /\ \A k \in DOMAIN u : Regular(u[k], n)
  <2>1. ScratchBehind(p) /\ \A k \in DOMAIN p : Regular(p[k], n)
    BY <1>3 DEF Selects
  <2>2. u \in Seq(Instr)
    BY <1>3, <1>4
  <2>3. \A k \in DOMAIN s : Regular(s[k], n)
    BY <1>4
  <2>4. ScratchBehind(s) /\ s \in Seq(Instr) /\ p \in Seq(Instr)
    BY <1>3, <1>4
  <2> HIDE DEF n
  <2>5. (\A k \in DOMAIN (p \o s) : Regular((p \o s)[k], n)) /\ ScratchBehind(p \o s)
    BY <2>1, <2>3, <2>4, JoinedFit
  <2> QED BY <2>2, <2>5
<1>9. \A v : /\ Exposes(u, v) => Exposes(p, v) \/ (Exposes(s, v) /\ ~Writes(p, v))
             /\ Writes(p, v) \/ Writes(s, v) => Writes(u, v)
  BY <1>3, <1>4, JoinedReads
<1> HIDE DEF u
<1>10. w \in Seq(Instr) /\ ScratchBehind(w) /\ \A k \in DOMAIN w : Regular(w[k], n)
  <2>1. ScratchBehind(t) /\ \A k \in DOMAIN t : Regular(t[k], n)
    BY <1>5 DEF Selects
  <2>2. w \in Seq(Instr)
    BY <1>5, <1>8
  <2>3. \A k \in DOMAIN u : Regular(u[k], n)
    BY <1>8
  <2>4. ScratchBehind(u) /\ u \in Seq(Instr) /\ t \in Seq(Instr)
    BY <1>5, <1>8
  <2> HIDE DEF n
  <2>5. (\A k \in DOMAIN (u \o t) : Regular((u \o t)[k], n)) /\ ScratchBehind(u \o t)
    BY <2>1, <2>3, <2>4, JoinedFit
  <2> QED BY <2>2, <2>5
<1>11. \A v : /\ Exposes(w, v) => Exposes(u, v) \/ (Exposes(t, v) /\ ~Writes(u, v))
              /\ Writes(u, v) \/ Writes(t, v) => Writes(w, v)
  BY <1>5, <1>8, JoinedReads
<1>12. Len(w) # 0 /\ Defs(w[Len(w)]) = {}
  <2>1. Len(t) \in DOMAIN t
    BY <1>5
  <2> QED BY <1>5, <1>8, <2>1, Joined
<1>13. ASSUME Apart(s) PROVE Apart(w)
  <2>1. Apart(u)
    BY <1>3, <1>4, <1>13, JoinedApart DEF u
  <2> QED BY <1>5, <1>8, <2>1, JoinedApart
<1> HIDE DEF w, sb, n
<1>14. /\ \A v : Exposes(p, v) => v \in P
       /\ \A v \in W : Writes(p, v)
       /\ \A v : Exposes(t, v) => v \in ToSet(sb.uses)
  BY <1>3, <1>5 DEF Selects
<1>15. ASSUME NEW v PROVE Exposes(w, v) => v \in P \/ v \in 1..n
  <2>1. \A k \in DOMAIN body : ToSet(body[k].args) \subseteq 1..n
    BY <1>2 DEF Registered, ToSet
  <2>2. ToSet(sb.uses) \subseteq 1..n
    BY <1>2 DEF ToSet
  <2> QED BY <1>4, <1>9, <1>11, <1>14, <2>1, <2>2
<1>16. b # 1 => \A r \in PReg : ~Exposes(w, r)
  BY <1>2, <1>6, <1>15, RegisterKinds
<1>17. ASSUME NEW v \in 1..n, Assigns(f, b, v) PROVE Writes(u, v)
  <2>1. CASE \E o \in ToSet(body) : o.d = v
    <3>1. PICK k \in DOMAIN body : body[k].d = v
      BY <2>1 DEF ToSet
    <3> QED BY <1>4, <1>9, <3>1
  <2>2. CASE b = 1 /\ v \in ToSet(sb.params)
    BY <1>7, <1>9, <1>14, <2>2
  <2> QED BY <1>17, <2>1, <2>2 DEF Assigns, sb
<1>18. ASSUME NEW v \in 1..n, Exposes(w, v) PROVE ReadsFirst(f, b, v)
  <2>1. v \notin P
    BY <1>2, <1>7, RegisterKinds
  <2>2. \/ Exposes(s, v) /\ ~Writes(p, v)
        \/ Exposes(t, v) /\ ~Writes(u, v)
    BY <1>9, <1>11, <1>14, <1>18, <2>1
  <2>3. CASE Exposes(s, v) /\ ~Writes(p, v)
    <3>1. ~(b = 1 /\ v \in ToSet(sb.params))
      BY <1>7, <1>14, <2>3
    <3>2. \E k \in DOMAIN body : v \in ToSet(body[k].args) /\ \A j \in 1..(k - 1) : body[j].d # v
      BY <1>4, <2>3
    <3> QED BY <3>1, <3>2 DEF ReadsFirst, sb
  <2>4. CASE Exposes(t, v) /\ ~Writes(u, v)
    <3>1. ~Assigns(f, b, v) /\ v \in ToSet(sb.uses)
      BY <1>14, <1>17, <2>4
    <3> QED BY <3>1 DEF ReadsFirst, sb
  <2> QED BY <2>2, <2>3, <2>4
<1>19. (\A o \in ToSet(body) : o.d \notin ToSet(o.args)) => Apart(w)
  <2>1. \A k \in DOMAIN body : body[k] \in ToSet(body)
    BY DEF ToSet
  <2> QED BY <1>4, <1>13, <2>1
<1>20. BlockLowered(f, b, w)
  <2>1. \A v \in 1..n : Assigns(f, b, v) => Writes(w, v)
    BY <1>11, <1>17
  <2> QED BY <1>10, <1>12, <1>16, <1>18, <1>19, <2>1 DEF BlockLowered, n, sb
<1> QED BY <1>1, <1>20 DEF w, u

(* The moves of a parallel copy and the copies left: a move or a copy reads  *)
(* an argument, or what an earlier move wrote; and every parameter is written *)
(* by a move or awaits its copy.                                             *)
MovedBefore(ms, k) == {ms[j].dst : j \in 1..(k - 1)}
CopiesFed(ms, cs, n, args, params) ==
  /\ \A k \in DOMAIN ms : /\ ms[k].dst \in 1..n /\ ms[k].src \in 1..n \union {Imm}
                          /\ ms[k].src \in ToSet(args) \union {Imm} \union MovedBefore(ms, k)
  /\ \A i \in DOMAIN cs : cs[i].src \in ToSet(args) \union {Imm} \union MovedBefore(ms, Len(ms) + 1)
  /\ \A i \in DOMAIN params : params[i] # args[i] =>
       params[i] \in {cs[j].dst : j \in DOMAIN cs} \union MovedBefore(ms, Len(ms) + 1)

(* It is so when the copy starts,                                            *)
LEMMA FedBegin ==
  ASSUME NEW n, NEW dsts, NEW srcs \in Seq(1..n \union {Imm}),
         DOMAIN dsts = DOMAIN srcs, Begin(n, dsts, srcs)
  PROVE  CopiesFed(moves', copies', vregs', srcs, dsts)
<1> DEFINE I == {i \in DOMAIN dsts : srcs[i] # dsts[i]}
<1>1. moves' = <<>> /\ copies' = [i \in I |-> [dst |-> dsts[i], src |-> srcs[i]]]
  BY DEF Begin
<1>2. /\ DOMAIN copies' = I
      /\ \A i \in I : copies'[i].dst = dsts[i] /\ copies'[i].src = srcs[i]
  BY <1>1
<1>3. \A i \in I : srcs[i] \in ToSet(srcs)
  BY DEF ToSet
<1>4. \A i \in DOMAIN dsts : dsts[i] # srcs[i] => dsts[i] \in {copies'[j].dst : j \in DOMAIN copies'}
  BY <1>2
<1>5. DOMAIN moves' = {}
  BY <1>1
<1> QED BY <1>2, <1>3, <1>4, <1>5 DEF CopiesFed

(* One more move.                                                            *)
OneMore(ms, mt, x) ==
  /\ DOMAIN mt = 1..(Len(ms) + 1) /\ Len(mt) = Len(ms) + 1 /\ Len(ms) \in Nat
  /\ DOMAIN ms = 1..Len(ms)
  /\ \A k \in DOMAIN ms : mt[k] = ms[k] /\ MovedBefore(mt, k) = MovedBefore(ms, k)
  /\ mt[Len(ms) + 1] = x
  /\ MovedBefore(mt, Len(ms) + 1) = MovedBefore(ms, Len(ms) + 1)
  /\ MovedBefore(mt, Len(mt) + 1) = MovedBefore(ms, Len(ms) + 1) \union {x.dst}

(* A move appended is one more move.                                         *)
LEMMA MovedMore ==
  ASSUME NEW S, NEW ms \in Seq(S), NEW x \in S
  PROVE  OneMore(ms, Append(ms, x), x)
<1> DEFINE mt == Append(ms, x)
           n == Len(ms)
<1>1. /\ DOMAIN mt = 1..(n + 1) /\ Len(mt) = n + 1 /\ n \in Nat /\ DOMAIN ms = 1..n
      /\ \A k \in 1..n : mt[k] = ms[k]
      /\ mt[n + 1] = x
  OBVIOUS
<1> HIDE DEF mt, n
<1>2. ASSUME NEW k \in 1..(n + 1) PROVE MovedBefore(mt, k) = MovedBefore(ms, k)
  <2>1. \A j \in 1..(k - 1) : j \in 1..n
    BY <1>1
  <2> QED BY <1>1, <2>1 DEF MovedBefore
<1>3. MovedBefore(mt, (n + 1) + 1) = MovedBefore(ms, n + 1) \union {x.dst}
  <2>1. 1..(((n + 1) + 1) - 1) = 1..((n + 1) - 1) \union {n + 1}
    BY <1>1
  <2>2. \A j \in 1..((n + 1) - 1) : mt[j] = ms[j]
    BY <1>1
  <2> QED BY <1>1, <2>1, <2>2 DEF MovedBefore
<1> QED BY <1>1, <1>2, <1>3 DEF mt, n, OneMore

(* when a copy is emitted,                                                   *)
LEMMA FedEmit ==
  ASSUME CopyShape, NEW args, NEW params, CopiesFed(moves, copies, vregs, args, params), EmitReady
  PROVE  CopiesFed(moves', copies', vregs', args, params)
<1> DEFINE D == DOMAIN copies
           i == First(Ready)
           N == Len(moves)
<1>1. i \in D
  <2>1. Ready \subseteq D /\ D \subseteq Nat /\ Ready # {}
    BY DEF CopyShape, Ready, EmitReady
  <2>2. First(Ready) \in Ready
    BY <2>1, FirstOfSome
  <2> QED BY <2>1, <2>2
<1>2. moves' = Append(moves, copies[i]) /\ copies' = Restrict(copies, D \ {i}) /\ vregs' = vregs
  BY DEF EmitReady
<1> HIDE DEF i
<1>3. DOMAIN copies' = D \ {i} /\ \A j \in D \ {i} : copies'[j] = copies[j]
  BY <1>2 DEF Restrict
<1>4. copies[i] \in [dst : 1..vregs, src : 1..vregs \union {Imm}]
  BY <1>1 DEF CopyShape
<1>5. copies[i] \in [dst : Nat, src : Nat \union {Imm}] /\ moves \in Seq([dst : Nat, src : Nat \union {Imm}])
  BY <1>4 DEF CopyShape
<1>6. /\ DOMAIN moves' = 1..(N + 1) /\ Len(moves') = N + 1 /\ N \in Nat /\ DOMAIN moves = 1..N
      /\ \A k \in DOMAIN moves : moves'[k] = moves[k] /\ MovedBefore(moves', k) = MovedBefore(moves, k)
      /\ moves'[N + 1] = copies[i]
      /\ MovedBefore(moves', N + 1) = MovedBefore(moves, N + 1)
      /\ MovedBefore(moves', Len(moves') + 1) = MovedBefore(moves, N + 1) \union {copies[i].dst}
  <2>1. OneMore(moves, moves', copies[i])
    BY <1>2, <1>5, MovedMore
  <2> QED BY <2>1 DEF OneMore
<1> HIDE DEF N
<1>7. ASSUME NEW k \in DOMAIN moves'
      PROVE  /\ moves'[k].dst \in 1..vregs /\ moves'[k].src \in 1..vregs \union {Imm}
             /\ moves'[k].src \in ToSet(args) \union {Imm} \union MovedBefore(moves', k)
  <2>1. CASE k \in DOMAIN moves
    BY <1>6, <2>1 DEF CopiesFed
  <2>2. CASE k = N + 1
    <3>1. copies[i].src \in ToSet(args) \union {Imm} \union MovedBefore(moves, N + 1)
      BY <1>1 DEF CopiesFed, N
    <3> QED BY <1>4, <1>6, <2>2, <3>1
  <2>3. k \in DOMAIN moves \/ k = N + 1
    BY <1>6
  <2> QED BY <2>1, <2>2, <2>3
<1>8. \A j \in DOMAIN copies' : copies'[j].src \in ToSet(args) \union {Imm} \union MovedBefore(moves', Len(moves') + 1)
  BY <1>3, <1>6 DEF CopiesFed, N
<1>9. ASSUME NEW j \in DOMAIN params, params[j] # args[j]
      PROVE  params[j] \in {copies'[x].dst : x \in DOMAIN copies'} \union MovedBefore(moves', Len(moves') + 1)
  <2>1. params[j] \in {copies[x].dst : x \in D} \union MovedBefore(moves, N + 1)
    BY <1>9 DEF CopiesFed, N
  <2>2. \A x \in D : x = i \/ (copies'[x] = copies[x] /\ x \in DOMAIN copies')
    BY <1>3
  <2> QED BY <1>6, <2>1, <2>2
<1> QED BY <1>2, <1>7, <1>8, <1>9 DEF CopiesFed

(* and when a cycle is broken: the temporary is written first.               *)
LEMMA FedBreak ==
  ASSUME CopyShape, vregs \in Nat, NEW args, NEW params,
         CopiesFed(moves, copies, vregs, args, params), BreakCycle
  PROVE  CopiesFed(moves', copies', vregs', args, params)
<1> DEFINE D == DOMAIN copies
           is == {k \in D : copies[k].src # Imm}
           i == First(is)
           s == copies[i].src
           t == vregs + 1
           N == Len(moves)
           x == [dst |-> t, src |-> s]
<1>1. PICK k \in D : TRUE
  BY DEF BreakCycle, NoneLeft
<1>2. i \in is
  <2>1. PICK j \in D : copies[j].src = copies[k].dst
    BY <1>1 DEF BreakCycle, Ready, Reads
  <2>2. copies[k].dst \in Nat
    BY <1>1 DEF CopyShape
  <2>3. j \in is
    BY <2>1, <2>2, ImmAssumption
  <2> QED BY <2>3, FirstOfSome DEF CopyShape
<1>3. /\ vregs' = t
      /\ moves' = Append(moves, x)
      /\ copies' = [j \in D |-> IF copies[j].src = s THEN [copies[j] EXCEPT !.src = t] ELSE copies[j]]
  BY DEF BreakCycle, Reads
<1> HIDE DEF i
<1>4. i \in D /\ s \in 1..vregs
  BY <1>2 DEF CopyShape
<1>5. \A j \in D : copies[j] \in [dst : 1..vregs, src : 1..vregs \union {Imm}]
  BY DEF CopyShape
<1>6. /\ DOMAIN copies' = D
      /\ \A j \in D : /\ copies'[j].dst = copies[j].dst
                      /\ copies'[j].src = IF copies[j].src = s THEN t ELSE copies[j].src
  BY <1>3, <1>5
<1>7. s \in ToSet(args) \union {Imm} \union MovedBefore(moves, N + 1)
  BY <1>4 DEF CopiesFed
<1>8. x \in [dst : Nat, src : Nat \union {Imm}] /\ moves \in Seq([dst : Nat, src : Nat \union {Imm}])
      /\ x.dst = t /\ x.src = s
  BY <1>4 DEF CopyShape
<1> HIDE DEF x, s, t
<1>9. /\ DOMAIN moves' = 1..(N + 1) /\ Len(moves') = N + 1 /\ N \in Nat /\ DOMAIN moves = 1..N
      /\ \A j \in DOMAIN moves : moves'[j] = moves[j] /\ MovedBefore(moves', j) = MovedBefore(moves, j)
      /\ moves'[N + 1] = x
      /\ MovedBefore(moves', N + 1) = MovedBefore(moves, N + 1)
      /\ MovedBefore(moves', Len(moves') + 1) = MovedBefore(moves, N + 1) \union {x.dst}
  <2>1. OneMore(moves, moves', x)
    BY <1>3, <1>8, MovedMore
  <2> QED BY <2>1 DEF OneMore
<1> HIDE DEF N
<1>10. t \in 1..t /\ 1..vregs \subseteq 1..t
  BY DEF t
<1>11. ASSUME NEW j \in DOMAIN moves'
       PROVE  /\ moves'[j].dst \in 1..t /\ moves'[j].src \in 1..t \union {Imm}
              /\ moves'[j].src \in ToSet(args) \union {Imm} \union MovedBefore(moves', j)
  <2>1. CASE j \in DOMAIN moves
    <3>1. /\ moves[j].dst \in 1..vregs /\ moves[j].src \in 1..vregs \union {Imm}
          /\ moves[j].src \in ToSet(args) \union {Imm} \union MovedBefore(moves, j)
      BY <2>1 DEF CopiesFed
    <3> QED BY <1>9, <1>10, <2>1, <3>1
  <2>2. CASE j = N + 1
    BY <1>4, <1>7, <1>8, <1>9, <1>10, <2>2
  <2>3. j \in DOMAIN moves \/ j = N + 1
    BY <1>9
  <2> QED BY <2>1, <2>2, <2>3
<1>12. ASSUME NEW j \in DOMAIN copies'
       PROVE  copies'[j].src \in ToSet(args) \union {Imm} \union MovedBefore(moves', Len(moves') + 1)
  <2>1. copies[j].src \in ToSet(args) \union {Imm} \union MovedBefore(moves, N + 1)
    BY <1>6 DEF CopiesFed, N
  <2> QED BY <1>6, <1>8, <1>9, <2>1
<1>13. ASSUME NEW j \in DOMAIN params, params[j] # args[j]
       PROVE  params[j] \in {copies'[y].dst : y \in DOMAIN copies'} \union MovedBefore(moves', Len(moves') + 1)
  <2>1. params[j] \in {copies[y].dst : y \in D} \union MovedBefore(moves, N + 1)
    BY <1>13 DEF CopiesFed, N
  <2> QED BY <1>6, <1>9, <2>1
<1> QED BY <1>3, <1>11, <1>12, <1>13 DEF CopiesFed

(* More registers do no harm.                                                *)
LEMMA RegularMore ==
  ASSUME NEW n \in Nat, NEW m \in Nat, n <= m, NEW i, Regular(i, n)
  PROVE  Regular(i, m)
<1>1. \A r : r \in PReg \union 1..n => r \in PReg \union 1..m
  OBVIOUS
<1> QED BY <1>1 DEF Regular

(* What selection makes of an edge with arguments, of registers 1..n of the  *)
(* function and temporaries up to m.                                         *)
EdgeFit(block, edge, params, n, m) ==
  LET s == block.insts
  IN  /\ block.succ = <<edge.to>>
      /\ s \in Seq(Instr) /\ ScratchBehind(s) /\ (\A k \in DOMAIN s : Regular(s[k], m))
      /\ Len(s) # 0 /\ Defs(s[Len(s)]) = {} /\ Apart(s)
      /\ \A v : Exposes(s, v) => v \in ToSet(edge.args) /\ v \in 1..n
      /\ \A i \in DOMAIN params : params[i] # edge.args[i] => Writes(s, params[i])

(* Nor to the moves of an edge.                                              *)
LEMMA EdgeFitMore ==
  ASSUME NEW n, NEW m \in Nat, NEW l \in Nat, m <= l, NEW block, NEW edge, NEW params,
         EdgeFit(block, edge, params, n, m)
  PROVE  EdgeFit(block, edge, params, n, l)
<1>1. \A k \in DOMAIN block.insts : Regular(block.insts[k], l)
  BY RegularMore DEF EdgeFit
<1> QED BY <1>1 DEF EdgeFit

(* The block of moves.                                                       *)
LEMMA EdgeBlockFit ==
  ASSUME CopyShape, vregs \in Nat, NoneLeft, NEW n \in Nat, n <= vregs,
         NEW edge, edge.args \in Seq(1..n \union {Imm}),
         NEW params, CopiesFed(moves, copies, vregs, edge.args, params)
  PROVE  EdgeFit(EdgeBlock(edge.to), edge, params, n, vregs)
<1> DEFINE N == Len(moves)
           moved == [k \in DOMAIN moves |-> IF moves[k].src = Imm THEN Plain(<<Def(moves[k].dst)>>)
                                            ELSE Move(moves[k].dst, moves[k].src)]
           s == moved \o <<Jump>>
<1>1. EdgeBlock(edge.to) = [insts |-> s, succ |-> <<edge.to>>]
  BY DEF EdgeBlock
<1>2. DOMAIN moves = 1..N /\ N \in Nat
  BY DEF CopyShape
<1>3. \A k \in 1..N : moves[k].dst \in 1..vregs /\ moves[k].src \in 1..vregs \union {Imm}
  BY <1>2 DEF CopiesFed
<1>4. ASSUME NEW k \in 1..N
      PROVE  /\ moved[k] \in Instr /\ Regular(moved[k], vregs) /\ LateApart(moved[k])
             /\ Defs(moved[k]) = {moves[k].dst} /\ Uses(moved[k]) = {moves[k].src} \ {Imm}
  <2> DEFINE d == moves[k].dst
             r == moves[k].src
  <2>1. d \in 1..vregs /\ r \in 1..vregs \union {Imm} /\ d \in PReg \union 1..vregs
    BY <1>3
  <2>0. \A x, y \in PReg \union 1..vregs :
          /\ Move(x, y) \in Instr /\ Regular(Move(x, y), vregs) /\ LateApart(Move(x, y))
          /\ Defs(Move(x, y)) = {x} /\ Uses(Move(x, y)) = {y}
    <3> SUFFICES ASSUME NEW x \in PReg \union 1..vregs, NEW y \in PReg \union 1..vregs
                 PROVE  /\ Move(x, y) \in Instr /\ Regular(Move(x, y), vregs) /\ LateApart(Move(x, y))
                        /\ Defs(Move(x, y)) = {x} /\ Uses(Move(x, y)) = {y}
      OBVIOUS
    <3> DEFINE m == vregs
    <3>1. m \in Nat /\ x \in PReg \union 1..m /\ y \in PReg \union 1..m
      OBVIOUS
    <3> HIDE DEF m
    <3>2. /\ Regular(Move(x, y), m) /\ Move(x, y) \in Instr
          /\ Defs(Move(x, y)) = {x} /\ Uses(Move(x, y)) = {y}
          /\ LateApart(Move(x, y))
      BY <3>1, MoveFit
    <3> QED BY <3>2 DEF m
  <2>2. CASE r = Imm
    <3>1. moved[k] = Plain(<<Def(d)>>)
      BY <1>2, <2>2
    <3> DEFINE i == Plain(<<Def(d)>>)
    <3>2. i.ops = <<Def(d)>> /\ i.late = {} /\ i.move = FALSE
      BY DEF Plain, Inst
    <3>3. i \in Instr
      <4>1. Def(d) \in Operand
        BY <2>1, InstrForms
      <4>2. <<Def(d)>> \in Seq(Operand)
        BY <4>1, ShortSeqs
      <4> QED BY <4>2, InstrForms
    <3>4. Defs(i) = {d} /\ Uses(i) = {}
      BY <3>2 DEF Defs, Uses, Touched, Def
    <3>5. DOMAIN i.ops = {1} /\ i.ops[1].reg = d /\ i.ops[1].kind = "def"
      BY <3>2 DEF Def
    <3> HIDE DEF i, d
    <3>6. Regular(i, vregs)
      BY <2>1, <3>2, <3>3, <3>5 DEF Regular
    <3>7. LateApart(i)
      BY <3>2 DEF LateApart
    <3> QED BY <2>2, <3>1, <3>3, <3>4, <3>6, <3>7 DEF i, d
  <2>3. CASE r # Imm
    <3>1. moved[k] = Move(d, r) /\ r \in PReg \union 1..vregs
      BY <1>2, <2>1, <2>3
    <3> HIDE DEF moved, d, r
    <3>2. /\ Move(d, r) \in Instr /\ Regular(Move(d, r), vregs) /\ LateApart(Move(d, r))
          /\ Defs(Move(d, r)) = {d} /\ Uses(Move(d, r)) = {r}
      BY <2>0, <2>1, <3>1, Zenon
    <3> QED BY <2>3, <3>1, <3>2 DEF d, r
  <2> QED BY <2>2, <2>3
<1>5. moved \in Seq(Instr) /\ DOMAIN moved = 1..N /\ Len(moved) = N
  <2>1. moved \in [1..N -> Instr]
    BY <1>2, <1>4
  <2> QED BY <1>2, <2>1
<1> HIDE DEF moved
<1>6. /\ \A k \in DOMAIN moved : /\ Regular(moved[k], vregs)
                                 /\ Uses(moved[k]) \cap ToSet(Scratch) = {}
                                 /\ Uses(moved[k]) \subseteq 1..vregs
  <2> SUFFICES ASSUME NEW k \in 1..N
               PROVE  Uses(moved[k]) \cap ToSet(Scratch) = {} /\ Uses(moved[k]) \subseteq 1..vregs
    BY <1>4, <1>5
  <2>1. Uses(moved[k]) \subseteq 1..vregs
    BY <1>3, <1>4
  <2> QED BY <2>1, RegisterKinds
<1>7. ScratchBehind(moved)
  BY <1>6 DEF ScratchBehind
<1>8. ASSUME NEW v, Exposes(moved, v) PROVE v \in ToSet(edge.args) /\ v \in 1..n
  <2>1. PICK k \in 1..N : v \in Uses(moved[k]) /\ \A j \in 1..(k - 1) : v \notin Defs(moved[j])
    BY <1>5, <1>8 DEF Exposes
  <2>2. v = moves[k].src /\ v # Imm
    BY <1>4, <2>1
  <2>3. v \in ToSet(edge.args) \union {Imm} \union MovedBefore(moves, k)
    BY <1>2, <2>2 DEF CopiesFed
  <2>4. ASSUME NEW j \in 1..(k - 1) PROVE moves[j].dst # v
    <3>1. j \in 1..N
      BY <1>2
    <3> QED BY <1>4, <2>1, <3>1
  <2>5. v \in ToSet(edge.args)
    BY <2>2, <2>3, <2>4 DEF MovedBefore
  <2> QED BY <2>2, <2>5 DEF ToSet
<1>9. ASSUME NEW i \in DOMAIN params, params[i] # edge.args[i] PROVE Writes(moved, params[i])
  <2>1. params[i] \in {copies[j].dst : j \in DOMAIN copies} \union MovedBefore(moves, N + 1)
    BY <1>9 DEF CopiesFed
  <2>2. DOMAIN copies = {}
    BY DEF NoneLeft
  <2>3. PICK j \in 1..((N + 1) - 1) : params[i] = moves[j].dst
    BY <2>1, <2>2 DEF MovedBefore
  <2>4. j \in 1..N
    BY <1>2
  <2> QED BY <1>4, <1>5, <2>3, <2>4 DEF Writes
<1>10. Jump \in Instr /\ Defs(Jump) = {} /\ Uses(Jump) = {} /\ LateApart(Jump) /\ Regular(Jump, vregs)
  <2>1. <<>> \in Seq(Operand)
    OBVIOUS
  <2>2. Jump \in Instr
    BY <2>1, InstrForms DEF Jump
  <2>3. Jump.ops = <<>> /\ Jump.move = FALSE /\ Jump.late = {}
    BY DEF Jump, Plain, Inst
  <2>4. DOMAIN Jump.ops = {}
    BY <2>3
  <2> QED BY <2>2, <2>3, <2>4 DEF Defs, Uses, Touched, LateApart, Regular
<1> DEFINE t == <<Jump>>
<1>11. t \in Seq(Instr) /\ DOMAIN t = {1} /\ t[1] = Jump /\ Len(t) = 1
  BY <1>10, ShortSeqs
<1> HIDE DEF t
<1>12. ScratchBehind(t) /\ (\A k \in DOMAIN t : Regular(t[k], vregs)) /\ Apart(t)
  BY <1>10, <1>11 DEF ScratchBehind, Apart
<1>13. \A v : ~Exposes(t, v)
  BY <1>10, <1>11 DEF Exposes
<1>14. Apart(moved)
  BY <1>4, <1>5 DEF Apart
<1>15. /\ moved \o t \in Seq(Instr) /\ Len(moved \o t) = N + 1 /\ (moved \o t)[N + 1] = Jump
  <2>1. /\ Len(moved \o t) = Len(moved) + Len(t) /\ moved \o t \in Seq(Instr)
        /\ \A k \in DOMAIN t : (moved \o t)[Len(moved) + k] = t[k]
    BY <1>5, <1>11, Joined
  <2>2. 1 \in DOMAIN t
    BY <1>11
  <2> QED BY <1>5, <1>11, <2>1, <2>2
<1>16. ScratchBehind(moved \o t) /\ \A k \in DOMAIN (moved \o t) : Regular((moved \o t)[k], vregs)
  BY <1>5, <1>6, <1>7, <1>11, <1>12, JoinedFit
<1>17. Apart(moved \o t)
  BY <1>5, <1>11, <1>12, <1>14, JoinedApart
<1>18. \A v : /\ Exposes(moved \o t, v) => Exposes(moved, v)
              /\ Writes(moved, v) => Writes(moved \o t, v)
  BY <1>5, <1>11, <1>13, JoinedReads
<1> DEFINE w == moved \o t
<1>19. EdgeBlock(edge.to).insts = w /\ EdgeBlock(edge.to).succ = <<edge.to>>
  BY <1>1 DEF t
<1>20. Len(w) # 0 /\ Defs(w[Len(w)]) = {}
  BY <1>2, <1>10, <1>15
<1> HIDE DEF w
<1>21. /\ w \in Seq(Instr) /\ ScratchBehind(w) /\ (\A k \in DOMAIN w : Regular(w[k], vregs)) /\ Apart(w)
       /\ \A v : Exposes(w, v) => v \in ToSet(edge.args) /\ v \in 1..n
       /\ \A i \in DOMAIN params : params[i] # edge.args[i] => Writes(w, params[i])
  BY <1>8, <1>9, <1>15, <1>16, <1>17, <1>18 DEF w
<1> QED BY <1>19, <1>20, <1>21 DEF EdgeFit

(* Edge e of block b has its block of moves, when `left` are the edges that   *)
(* await one.                                                                *)
SplitOff(f, left, b, e) == f.blocks[b].edges[e].args # <<>> /\ <<b, e>> \notin left

(* The blocks that selection adds to those of the function.                  *)
Added(f, blocks) == DOMAIN blocks \ DOMAIN f.blocks

(* An edge leads to its target or, when it is split off, to the block of its  *)
(* moves.                                                                    *)
EdgeSelected(f, blocks, left, m, b, e) ==
  LET edge == f.blocks[b].edges[e]
      x == blocks[b].succ[e]
  IN  /\ SplitOff(f, left, b, e) =>
           x \in Added(f, blocks) /\ EdgeFit(blocks[x], edge, f.blocks[edge.to].params, f.vregs, m)
      /\ ~SplitOff(f, left, b, e) => x = edge.to

(* Where selection stands: the blocks of the function are lowered, its       *)
(* edges selected, and every block added is the moves of an edge.            *)
Selected(f, blocks, left, m) ==
  /\ \A b \in DOMAIN f.blocks :
       /\ blocks[b].insts = Lowered(f)[b].insts
       /\ DOMAIN blocks[b].succ = DOMAIN f.blocks[b].edges
       /\ \A e \in DOMAIN f.blocks[b].edges : EdgeSelected(f, blocks, left, m, b, e)
  /\ \A x \in Added(f, blocks) :
       \E b \in DOMAIN f.blocks : \E e \in DOMAIN f.blocks[b].edges :
         SplitOff(f, left, b, e) /\ blocks[b].succ[e] = x

(* The invariant of selection, and of the copy in hand.                      *)
SelectedInv ==
  /\ phase \in {"select", "copy"} => Selected(fn, code, edges, vregs)
  /\ phase = "copy" =>
       LET e == EdgeOf(NextEdge) IN CopiesFed(moves, copies, vregs, e.args, fn.blocks[e.to].params)

(* Selection starts with no edge split off.                                  *)
LEMMA SelectedStart ==
  ASSUME NEW f \in Functions, NEW m
  PROVE  Selected(f, Lowered(f), Splits(f), m)
<1> DEFINE L == Lowered(f)
<1>1. DOMAIN L = DOMAIN f.blocks
  BY DEF Lowered
<1>2. ASSUME NEW b \in DOMAIN f.blocks, NEW e \in DOMAIN f.blocks[b].edges
      PROVE  L[b].succ[e] = f.blocks[b].edges[e].to /\ ~SplitOff(f, Splits(f), b, e)
  BY DEF Lowered, Splits, SplitOff
<1>3. \A b \in DOMAIN f.blocks : DOMAIN L[b].succ = DOMAIN f.blocks[b].edges
  BY DEF Lowered
<1> HIDE DEF L
<1>4. \A b \in DOMAIN f.blocks : \A e \in DOMAIN f.blocks[b].edges : EdgeSelected(f, L, Splits(f), m, b, e)
  BY <1>2 DEF EdgeSelected
<1>5. Added(f, L) = {}
  BY <1>1 DEF Added
<1> QED BY <1>3, <1>4, <1>5 DEF Selected, L

(* A new temporary leaves what was selected as it is.                        *)
LEMMA SelectedWider ==
  ASSUME NEW f, NEW blocks, NEW left, NEW m \in Nat, NEW l \in Nat, m <= l,
         Selected(f, blocks, left, m)
  PROVE  Selected(f, blocks, left, l)
<1>1. ASSUME NEW b \in DOMAIN f.blocks, NEW e \in DOMAIN f.blocks[b].edges
      PROVE  EdgeSelected(f, blocks, left, l, b, e)
  <2> DEFINE edge == f.blocks[b].edges[e]
             x == blocks[b].succ[e]
             params == f.blocks[edge.to].params
  <2>1. EdgeSelected(f, blocks, left, m, b, e)
    BY DEF Selected
  <2>2. EdgeFit(blocks[x], edge, params, f.vregs, m) => EdgeFit(blocks[x], edge, params, f.vregs, l)
    <3> HIDE DEF x, edge, params
    <3> QED BY EdgeFitMore
  <2> QED BY <2>1, <2>2 DEF EdgeSelected
<1> QED BY <1>1 DEF Selected

(* A block is added, and slot k of block b leads there.                      *)
Extended(blocks, c, b, k, new) ==
  LET n == Len(blocks)
  IN  /\ n \in Nat /\ DOMAIN blocks = 1..n /\ DOMAIN c = 1..(n + 1) /\ c[n + 1] = new
      /\ \A x \in 1..n : /\ c[x].insts = blocks[x].insts
                         /\ DOMAIN c[x].succ = DOMAIN blocks[x].succ
                         /\ \A j \in DOMAIN blocks[x].succ :
                              c[x].succ[j] = IF x = b /\ j = k THEN n + 1 ELSE blocks[x].succ[j]
                         /\ x # b => c[x] = blocks[x]

(* It is what an edge that is finished does to the code.                     *)
LEMMA EdgeExtends ==
  ASSUME NEW blocks \in Seq(MachineBlock), NEW b \in DOMAIN blocks, NEW k \in DOMAIN blocks[b].succ,
         NEW new
  PROVE  Extended(blocks, Append([blocks EXCEPT ![b].succ[k] = Len(blocks) + 1], new), b, k, new)
<1> DEFINE n == Len(blocks)
           mid == [blocks EXCEPT ![b].succ[k] = n + 1]
           c == Append(mid, new)
           succ == [blocks[b].succ EXCEPT ![k] = n + 1]
           nb == [blocks[b] EXCEPT !.succ = succ]
<1>1. n \in Nat /\ DOMAIN blocks = 1..n /\ \A x \in 1..n : blocks[x] \in MachineBlock
  OBVIOUS
<1>2. mid = [blocks EXCEPT ![b] = nb]
  OBVIOUS
<1>3. /\ DOMAIN succ = DOMAIN blocks[b].succ
      /\ \A j \in DOMAIN succ : succ[j] = IF j = k THEN n + 1 ELSE blocks[b].succ[j]
  OBVIOUS
<1>4. nb.insts = blocks[b].insts /\ nb.succ = succ
  BY <1>1 DEF MachineBlock
<1> HIDE DEF mid, nb, succ, n
<1>5. DOMAIN mid = 1..n /\ \A x \in 1..n : mid[x] = IF x = b THEN nb ELSE blocks[x]
  BY <1>1, <1>2
<1>6. mid \in [1..n -> {mid[x] : x \in 1..n}]
  <2> DEFINE S == {mid[x] : x \in 1..n}
  <2>1. mid = [x \in 1..n |-> mid[x]]
    BY <1>2, <1>5, <1>1
  <2>2. \A x \in 1..n : mid[x] \in S
    OBVIOUS
  <2> HIDE DEF S
  <2>3. mid \in [1..n -> S]
    BY <2>1, <2>2, Zenon
  <2> QED BY <2>3 DEF S
<1>7. Len(mid) = n /\ mid \in Seq({mid[x] : x \in 1..n})
  BY <1>1, <1>6
<1>8. DOMAIN c = 1..(n + 1) /\ c[n + 1] = new /\ \A x \in 1..n : c[x] = mid[x]
  <2> DEFINE S == {mid[x] : x \in 1..n} \union {new}
  <2>1. mid \in Seq(S) /\ new \in S
    BY <1>1, <1>5, <1>6, <1>7
  <2> HIDE DEF S
  <2> QED BY <2>1, <1>1, <1>7
<1> HIDE DEF c
<1>9. Extended(blocks, c, b, k, new)
  BY <1>1, <1>3, <1>4, <1>5, <1>8 DEF Extended, n
<1> QED BY <1>9 DEF c, mid, n

(* One more edge is split off.                                               *)
LEMMA SelectedEdge ==
  ASSUME NEW f \in Functions, NEW blocks, CodeShape(blocks), Len(f.blocks) <= Len(blocks),
         NEW left, NEW m, Selected(f, blocks, left, m),
         NEW b \in DOMAIN f.blocks, NEW k \in DOMAIN f.blocks[b].edges,
         f.blocks[b].edges[k].args # <<>>, <<b, k>> \in left,
         NEW new,
         EdgeFit(new, f.blocks[b].edges[k], f.blocks[f.blocks[b].edges[k].to].params, f.vregs, m)
  PROVE  Selected(f, Append([blocks EXCEPT ![b].succ[k] = Len(blocks) + 1], new), left \ {<<b, k>>}, m)
<1> DEFINE n == Len(blocks)
           c == Append([blocks EXCEPT ![b].succ[k] = Len(blocks) + 1], new)
           rest == left \ {<<b, k>>}
<1>1. blocks \in Seq(MachineBlock) /\ n \in Nat /\ DOMAIN blocks = 1..n
  BY DEF CodeShape
<1>2. Len(f.blocks) \in Nat /\ DOMAIN f.blocks = 1..Len(f.blocks) /\ DOMAIN f.blocks \subseteq 1..n
  <2>1. f.blocks \in Seq(SourceBlock)
    BY FunctionsAssumption DEF WellFormed
  <2> QED BY <2>1, <1>1
<1>3. DOMAIN blocks[b].succ = DOMAIN f.blocks[b].edges
  BY DEF Selected
<1>4. Extended(blocks, c, b, k, new)
  <2>1. b \in DOMAIN blocks /\ k \in DOMAIN blocks[b].succ
    BY <1>1, <1>2, <1>3
  <2> QED BY <1>1, <2>1, EdgeExtends
<1> HIDE DEF c
<1>5. /\ DOMAIN c = 1..(n + 1) /\ c[n + 1] = new
      /\ \A x \in 1..n : /\ c[x].insts = blocks[x].insts
                         /\ DOMAIN c[x].succ = DOMAIN blocks[x].succ
                         /\ \A j \in DOMAIN blocks[x].succ :
                              c[x].succ[j] = IF x = b /\ j = k THEN n + 1 ELSE blocks[x].succ[j]
                         /\ x # b => c[x] = blocks[x]
  BY <1>4 DEF Extended
<1> HIDE DEF n
<1>6. Added(f, c) = Added(f, blocks) \union {n + 1} /\ n + 1 \notin DOMAIN blocks
  BY <1>1, <1>2, <1>5 DEF Added
<1>7. ASSUME NEW x \in DOMAIN f.blocks
      PROVE  /\ c[x].insts = Lowered(f)[x].insts
             /\ DOMAIN c[x].succ = DOMAIN f.blocks[x].edges
  BY <1>2, <1>5 DEF Selected
<1>8. ASSUME NEW x \in DOMAIN f.blocks, NEW e \in DOMAIN f.blocks[x].edges
      PROVE  /\ <<x, e>> = <<b, k>> => SplitOff(f, rest, x, e) /\ c[x].succ[e] = n + 1
             /\ <<x, e>> # <<b, k>> => /\ SplitOff(f, rest, x, e) <=> SplitOff(f, left, x, e)
                                       /\ c[x].succ[e] = blocks[x].succ[e]
  <2>1. x \in 1..n /\ e \in DOMAIN blocks[x].succ
    BY <1>2 DEF Selected
  <2>2. c[x].succ[e] = IF x = b /\ e = k THEN n + 1 ELSE blocks[x].succ[e]
    BY <1>5, <2>1
  <2> QED BY <2>2 DEF SplitOff
<1>9. ASSUME NEW x \in DOMAIN f.blocks, NEW e \in DOMAIN f.blocks[x].edges
      PROVE  EdgeSelected(f, c, rest, m, x, e)
  <2>1. CASE <<x, e>> = <<b, k>>
    BY <1>5, <1>6, <1>8, <2>1 DEF EdgeSelected
  <2>2. CASE <<x, e>> # <<b, k>>
    <3> DEFINE y == blocks[x].succ[e]
    <3>1. EdgeSelected(f, blocks, left, m, x, e) /\ c[x].succ[e] = y
          /\ (SplitOff(f, rest, x, e) <=> SplitOff(f, left, x, e))
      BY <1>8, <2>2 DEF Selected
    <3>2. y \in Added(f, blocks) => y \in Added(f, c) /\ c[y] = blocks[y]
      <4>1. y \in Added(f, blocks) => y \in 1..n /\ y # b
        BY <1>1 DEF Added
      <4> QED BY <4>1, <1>5, <1>6
    <3> QED BY <3>1, <3>2 DEF EdgeSelected
  <2> QED BY <2>1, <2>2
<1>10. ASSUME NEW x \in Added(f, c)
       PROVE  \E y \in DOMAIN f.blocks : \E e \in DOMAIN f.blocks[y].edges :
                SplitOff(f, rest, y, e) /\ c[y].succ[e] = x
  <2>1. CASE x = n + 1
    BY <1>8, <2>1
  <2>2. CASE x # n + 1
    <3>1. x \in Added(f, blocks)
      BY <1>6, <2>2
    <3>2. PICK y \in DOMAIN f.blocks : \E e \in DOMAIN f.blocks[y].edges :
            SplitOff(f, left, y, e) /\ blocks[y].succ[e] = x
      BY <3>1 DEF Selected
    <3>3. PICK e \in DOMAIN f.blocks[y].edges : SplitOff(f, left, y, e) /\ blocks[y].succ[e] = x
      BY <3>2
    <3>4. <<y, e>> # <<b, k>>
      BY <3>3 DEF SplitOff
    <3> QED BY <3>3, <3>4, <1>8
  <2> QED BY <2>1, <2>2
<1>11. Selected(f, c, rest, m)
  BY <1>7, <1>9, <1>10 DEF Selected
<1> QED BY <1>11 DEF c, n

(* The edge in hand is an edge of the function, and carries arguments.       *)
LEMMA NextEdgeSource ==
  ASSUME CopyInv, edges # {}
  PROVE  \E b \in DOMAIN fn.blocks : \E k \in DOMAIN fn.blocks[b].edges :
           /\ NextEdge = <<b, k>> /\ <<b, k>> \in edges /\ EdgeOf(NextEdge) = fn.blocks[b].edges[k]
           /\ fn.blocks[b].edges[k].args # <<>>
           /\ fn.blocks[b].edges[k].args \in Seq(1..fn.vregs \union {Imm})
<1>1. NextEdge \in edges /\ NextEdge \in Splits(fn) /\ WellFormed(fn)
  BY NextEdgeFound, FunctionsAssumption DEF CopyInv, CopyState
<1>2. PICK b \in DOMAIN fn.blocks :
        \E k \in DOMAIN fn.blocks[b].edges : NextEdge = <<b, k>> /\ fn.blocks[b].edges[k].args # <<>>
  BY <1>1 DEF Splits
<1>3. PICK k \in DOMAIN fn.blocks[b].edges : NextEdge = <<b, k>> /\ fn.blocks[b].edges[k].args # <<>>
  BY <1>2
<1>4. EdgeOf(NextEdge) = fn.blocks[b].edges[k]
  BY <1>3 DEF EdgeOf
<1>5. fn.blocks[b].edges[k].args \in Seq(1..fn.vregs \union {Imm})
  BY <1>1 DEF WellFormed
<1> QED BY <1>1, <1>3, <1>4, <1>5

(* Inductive: at the start,                                                  *)
LEMMA SelectedInit == Init => SelectedInv
<1> SUFFICES ASSUME Init PROVE SelectedInv
  OBVIOUS
<1>1. PICK f \in Functions : Select(f)
  BY DEF Init
<1>2. fn = f /\ code = Lowered(f) /\ edges = Splits(f) /\ phase = "select"
  BY <1>1 DEF Select, Init
<1>3. Selected(fn, code, edges, vregs)
  BY <1>2, SelectedStart
<1> QED BY <1>2, <1>3 DEF SelectedInv

(* and over every step.                                                      *)
LEMMA SelectedNext ==
  ASSUME CopyInv, CodeInv, SelectedInv, [Next]_vars
  PROVE  SelectedInv'
<1> DEFINE e == EdgeOf(NextEdge)
           params == fn.blocks[e.to].params
<1>1. vregs \in Nat /\ fn \in Functions /\ fn.vregs \in Nat /\ fn.vregs <= vregs
  BY FunctionsAssumption DEF CopyInv, CopyState, WellFormed
<1>2. CASE SplitEdge
  <2>1. /\ phase = "select" /\ edges # {} /\ phase' = "copy"
        /\ Begin(vregs, params, e.args) /\ UNCHANGED <<fn, code, edges>>
    BY <1>2 DEF SplitEdge
  <2>2. vregs' = vregs
    BY <2>1 DEF Begin
  <2>3. params \in Seq(1..vregs) /\ DOMAIN params = DOMAIN e.args /\ e.args \in Seq(1..vregs \union {Imm})
    BY <2>1, NextEdgeShape DEF CopyInv
  <2>4. e' = e /\ params' = params
    BY <2>1 DEF EdgeOf, NextEdge
  <2>5. CopiesFed(moves', copies', vregs', e.args, params)
    <3> DEFINE srcs == e.args
               dsts == params
    <3>1. srcs \in Seq(1..vregs \union {Imm}) /\ DOMAIN dsts = DOMAIN srcs /\ Begin(vregs, dsts, srcs)
      BY <2>1, <2>3
    <3> HIDE DEF srcs, dsts, e
    <3>2. CopiesFed(moves', copies', vregs', srcs, dsts)
      BY <3>1, FedBegin
    <3> QED BY <3>2 DEF srcs, dsts
  <2>6. Selected(fn', code', edges', vregs')
    BY <2>1, <2>2 DEF SelectedInv
  <2> QED BY <2>4, <2>5, <2>6 DEF SelectedInv
<1>3. CASE CopyStep
  <2>1. /\ phase = "copy" /\ phase' = "copy" /\ UNCHANGED <<fn, code, edges>>
        /\ EmitReady \/ BreakCycle
    BY <1>3 DEF CopyStep
  <2>2. e' = e /\ params' = params
    BY <2>1 DEF EdgeOf, NextEdge
  <2>3. CopiesFed(moves, copies, vregs, e.args, params) /\ CopyShape
    BY <2>1 DEF SelectedInv, CopyInv
  <2>4. CopiesFed(moves', copies', vregs', e.args, params) /\ vregs' \in Nat /\ vregs <= vregs'
    <3> DEFINE srcs == e.args
               dsts == params
    <3> HIDE DEF e, params
    <3>1. CopiesFed(moves, copies, vregs, srcs, dsts)
      BY <2>3
    <3> HIDE DEF srcs, dsts
    <3>2. CASE EmitReady
      <4>1. CopiesFed(moves', copies', vregs', srcs, dsts)
        BY <2>3, <3>1, <3>2, FedEmit
      <4>2. vregs' = vregs
        BY <3>2 DEF EmitReady
      <4> QED BY <1>1, <4>1, <4>2 DEF srcs, dsts
    <3>3. CASE BreakCycle
      <4>1. CopiesFed(moves', copies', vregs', srcs, dsts)
        BY <1>1, <2>3, <3>1, <3>3, FedBreak
      <4>2. vregs' = vregs + 1
        BY <3>3 DEF BreakCycle
      <4> QED BY <1>1, <4>1, <4>2 DEF srcs, dsts
    <3> QED BY <2>1, <3>2, <3>3
  <2>5. Selected(fn, code, edges, vregs)
    BY <2>1 DEF SelectedInv
  <2> DEFINE l == vregs'
  <2> HIDE DEF l, e, params
  <2>6. Selected(fn, code, edges, l)
    <3>1. l \in Nat /\ vregs <= l
      BY <2>4 DEF l
    <3> QED BY <1>1, <2>5, <3>1, SelectedWider
  <2> QED BY <2>1, <2>2, <2>4, <2>6 DEF SelectedInv, l, e, params
<1>4. CASE FinishEdge
  <2>1. /\ phase = "copy" /\ NoneLeft /\ phase' = "select"
        /\ code' = Append([code EXCEPT ![NextEdge[1]].succ[NextEdge[2]] = Len(code) + 1], EdgeBlock(e.to))
        /\ edges' = edges \ {NextEdge} /\ fn' = fn /\ vregs' = vregs
    BY <1>4 DEF FinishEdge, copyVars
  <2>2. edges # {}
    BY <2>1 DEF CodeInv
  <2>3. PICK b \in DOMAIN fn.blocks : \E k \in DOMAIN fn.blocks[b].edges :
          /\ NextEdge = <<b, k>> /\ <<b, k>> \in edges /\ EdgeOf(NextEdge) = fn.blocks[b].edges[k]
          /\ fn.blocks[b].edges[k].args # <<>>
          /\ fn.blocks[b].edges[k].args \in Seq(1..fn.vregs \union {Imm})
    BY <2>2, NextEdgeSource
  <2>4. PICK k \in DOMAIN fn.blocks[b].edges :
          /\ NextEdge = <<b, k>> /\ <<b, k>> \in edges /\ EdgeOf(NextEdge) = fn.blocks[b].edges[k]
          /\ fn.blocks[b].edges[k].args # <<>>
          /\ fn.blocks[b].edges[k].args \in Seq(1..fn.vregs \union {Imm})
    BY <2>3
  <2> DEFINE edge == fn.blocks[b].edges[k]
             new == EdgeBlock(edge.to)
             n == fn.vregs
             fed == fn.blocks[edge.to].params
  <2>5. CopiesFed(moves, copies, vregs, edge.args, fed)
    BY <2>1, <2>4 DEF SelectedInv
  <2>6. EdgeFit(new, edge, fed, n, vregs)
    <3>1. edge.args \in Seq(1..n \union {Imm}) /\ n \in Nat /\ n <= vregs
      BY <1>1, <2>4
    <3> HIDE DEF edge, fed, n
    <3>2. CopyShape
      BY DEF CopyInv
    <3> QED BY <1>1, <2>1, <2>5, <3>1, <3>2, EdgeBlockFit
  <2>7. /\ code' = Append([code EXCEPT ![b].succ[k] = Len(code) + 1], new)
        /\ edges' = edges \ {<<b, k>>}
    BY <2>1, <2>4
  <2>8. Selected(fn, code, edges, vregs) /\ CodeShape(code) /\ Len(fn.blocks) <= Len(code)
    BY <2>1 DEF SelectedInv, CodeInv
  <2>9. Selected(fn, Append([code EXCEPT ![b].succ[k] = Len(code) + 1], new), edges \ {<<b, k>>}, vregs)
    <3>1. EdgeFit(new, fn.blocks[b].edges[k], fn.blocks[fn.blocks[b].edges[k].to].params, fn.vregs, vregs)
      BY <2>6
    <3> HIDE DEF new
    <3> QED BY <1>1, <2>4, <2>8, <3>1, SelectedEdge
  <2> QED BY <2>1, <2>7, <2>9 DEF SelectedInv
<1>5. CASE StartScan \/ Scan \/ Rewrite \/ RewritePanics \/ Execute \/ Return
  <2>1. phase' \notin {"select", "copy"}
    BY <1>5 DEF StartScan, Scan, Rewrite, RewritePanics, Execute, Return
  <2> QED BY <2>1 DEF SelectedInv
<1>6. CASE UNCHANGED vars
  <2>1. UNCHANGED <<phase, fn, code, edges, vregs, moves, copies>>
    BY <1>6 DEF vars, copyVars
  <2> QED BY <2>1 DEF SelectedInv, EdgeOf, NextEdge
<1> QED BY <1>2, <1>3, <1>4, <1>5, <1>6 DEF Next, Over

(* Every edge is split off.                                                  *)
AllSelected(f, blocks, m) ==
  /\ CodeShape(blocks) /\ Len(f.blocks) <= Len(blocks)
  /\ m \in Nat /\ f.vregs \in Nat /\ f.vregs <= m
  /\ Selected(f, blocks, {}, m)

(* The blocks of the function, among those of the code.                      *)
LEMMA OriginalBlocks ==
  ASSUME NEW f \in Functions, NEW blocks, NEW m, AllSelected(f, blocks, m)
  PROVE  /\ 1 \in DOMAIN f.blocks /\ DOMAIN f.blocks \subseteq DOMAIN blocks
         /\ DOMAIN blocks = DOMAIN f.blocks \union Added(f, blocks)
         /\ \A b \in DOMAIN f.blocks : BlockLowered(f, b, blocks[b].insts)
<1>1. f.blocks \in Seq(SourceBlock) /\ f.blocks # <<>>
  BY FunctionsAssumption DEF WellFormed
<1>2. blocks \in Seq(MachineBlock) /\ Len(f.blocks) <= Len(blocks)
  BY DEF AllSelected, CodeShape
<1>3. 1 \in DOMAIN f.blocks /\ DOMAIN f.blocks \subseteq DOMAIN blocks
  BY <1>1, <1>2
<1>4. \A b \in DOMAIN f.blocks : BlockLowered(f, b, blocks[b].insts)
  <2> SUFFICES ASSUME NEW b \in DOMAIN f.blocks PROVE BlockLowered(f, b, blocks[b].insts)
    OBVIOUS
  <2>1. blocks[b].insts = Lowered(f)[b].insts
    BY DEF AllSelected, Selected
  <2> QED BY <2>1, LoweredFit
<1> QED BY <1>3, <1>4 DEF Added

(* What an edge of the function becomes.                                     *)
LEMMA SelectedEdges ==
  ASSUME NEW f \in Functions, NEW blocks, NEW m, AllSelected(f, blocks, m), NEW b \in DOMAIN f.blocks
  PROVE  /\ DOMAIN blocks[b].succ = DOMAIN f.blocks[b].edges
         /\ \A e \in DOMAIN f.blocks[b].edges :
              LET edge == f.blocks[b].edges[e]
                  params == f.blocks[edge.to].params
                  x == blocks[b].succ[e]
              IN  /\ edge.to \in DOMAIN f.blocks \ {1} /\ edge \in ToSet(f.blocks[b].edges)
                  /\ params \in Seq(1..f.vregs) /\ DOMAIN params = DOMAIN edge.args
                  /\ edge.args = <<>> => x = edge.to /\ ToSet(params) = {}
                  /\ edge.args # <<>> => x \in Added(f, blocks) /\ EdgeFit(blocks[x], edge, params, f.vregs, m)
<1>1. DOMAIN blocks[b].succ = DOMAIN f.blocks[b].edges
  BY DEF AllSelected, Selected
<1> SUFFICES ASSUME NEW e \in DOMAIN f.blocks[b].edges
             PROVE  LET edge == f.blocks[b].edges[e]
                        params == f.blocks[edge.to].params
                        x == blocks[b].succ[e]
                    IN  /\ edge.to \in DOMAIN f.blocks \ {1} /\ edge \in ToSet(f.blocks[b].edges)
                        /\ params \in Seq(1..f.vregs) /\ DOMAIN params = DOMAIN edge.args
                        /\ edge.args = <<>> => x = edge.to /\ ToSet(params) = {}
                        /\ edge.args # <<>> => x \in Added(f, blocks) /\ EdgeFit(blocks[x], edge, params, f.vregs, m)
  BY <1>1
<1> DEFINE edge == f.blocks[b].edges[e]
           params == f.blocks[edge.to].params
           x == blocks[b].succ[e]
<1>2. /\ edge.to \in DOMAIN f.blocks \ {1} /\ edge.args \in Seq(1..f.vregs \union {Imm})
      /\ params \in Seq(1..f.vregs) /\ Len(params) = Len(edge.args)
  BY FunctionsAssumption DEF WellFormed
<1>3. EdgeSelected(f, blocks, {}, m, b, e)
  BY DEF AllSelected, Selected
<1>4. SplitOff(f, {}, b, e) <=> edge.args # <<>>
  BY DEF SplitOff
<1>5. edge.args = <<>> => x = edge.to
  BY <1>3, <1>4 DEF EdgeSelected
<1>6. edge.args # <<>> => x \in Added(f, blocks) /\ EdgeFit(blocks[x], edge, params, f.vregs, m)
  BY <1>3, <1>4 DEF EdgeSelected
<1>7. edge \in ToSet(f.blocks[b].edges)
  BY DEF ToSet
<1> HIDE DEF edge, params, x
<1>8. DOMAIN params = DOMAIN edge.args /\ (edge.args = <<>> => ToSet(params) = {})
  <2>1. DOMAIN params = DOMAIN edge.args
    BY <1>2
  <2>2. edge.args = <<>> => DOMAIN params = {}
    BY <2>1
  <2> QED BY <2>1, <2>2 DEF ToSet
<1>9. /\ edge.to \in DOMAIN f.blocks \ {1} /\ edge \in ToSet(f.blocks[b].edges)
      /\ params \in Seq(1..f.vregs) /\ DOMAIN params = DOMAIN edge.args
      /\ edge.args = <<>> => x = edge.to /\ ToSet(params) = {}
      /\ edge.args # <<>> => x \in Added(f, blocks) /\ EdgeFit(blocks[x], edge, params, f.vregs, m)
  BY <1>2, <1>5, <1>6, <1>7, <1>8
<1> QED BY <1>9 DEF edge, params, x

(* Where a block of moves comes from.                                        *)
LEMMA AddedBlocks ==
  ASSUME NEW f \in Functions, NEW blocks, NEW m, AllSelected(f, blocks, m), NEW x \in Added(f, blocks)
  PROVE  \E b \in DOMAIN f.blocks : \E e \in DOMAIN f.blocks[b].edges :
           f.blocks[b].edges[e].args # <<>> /\ blocks[b].succ[e] = x
BY DEF AllSelected, Selected, SplitOff

(* Each block is fit; only the entry reads a physical register it did not    *)
(* write.                                                                    *)
LEMMA SelectedBlocksFit ==
  ASSUME NEW f \in Functions, NEW blocks, NEW m, AllSelected(f, blocks, m), NEW b \in DOMAIN blocks
  PROVE  /\ BlockFit(blocks[b], m)
         /\ b # 1 => \A r \in PReg : ~Exposes(blocks[b].insts, r)
         /\ \A v : Exposes(blocks[b].insts, v) => v \in PReg \union 1..f.vregs
<1> DEFINE n == f.vregs
           s == blocks[b].insts
<1>1. n \in Nat /\ m \in Nat /\ n <= m
  BY DEF AllSelected
<1>2. 1 \in DOMAIN f.blocks /\ (b \in DOMAIN f.blocks \/ b \in Added(f, blocks))
  BY OriginalBlocks
<1>3. CASE b \in DOMAIN f.blocks
  <2>1. BlockLowered(f, b, s)
    BY <1>3, OriginalBlocks
  <2>2. /\ ScratchBehind(s) /\ (\A k \in DOMAIN s : Regular(s[k], n)) /\ Defs(s[Len(s)]) = {}
        /\ b # 1 => \A r \in PReg : ~Exposes(s, r)
    BY <2>1 DEF BlockLowered
  <2> HIDE DEF s, n
  <2>3. \A k \in DOMAIN s : Regular(s[k], m)
    BY <1>1, <2>2, RegularMore
  <2>4. 1 \notin ToSet(blocks[b].succ)
    <3>1. ASSUME NEW e \in DOMAIN blocks[b].succ PROVE blocks[b].succ[e] # 1
      <4>1. e \in DOMAIN f.blocks[b].edges
        BY <1>3, SelectedEdges
      <4>2. blocks[b].succ[e] \in Added(f, blocks) \/ blocks[b].succ[e] \in DOMAIN f.blocks \ {1}
        BY <1>3, <4>1, SelectedEdges
      <4> QED BY <1>2, <4>2 DEF Added
    <3> QED BY <3>1 DEF ToSet
  <2>5. \A v : Exposes(s, v) => v \in PReg \union 1..n
    <3> SUFFICES ASSUME NEW v, NEW k \in DOMAIN s, v \in Uses(s[k]) PROVE v \in PReg \union 1..n
      BY DEF Exposes
    <3>1. Regular(s[k], n)
      BY <2>2
    <3> QED BY <3>1 DEF Regular, Uses, Touched
  <2> QED BY <2>2, <2>3, <2>4, <2>5 DEF BlockFit, s, n
<1>4. CASE b \in Added(f, blocks)
  <2>1. PICK a \in DOMAIN f.blocks : \E e \in DOMAIN f.blocks[a].edges :
          f.blocks[a].edges[e].args # <<>> /\ blocks[a].succ[e] = b
    BY <1>4, AddedBlocks
  <2>2. PICK e \in DOMAIN f.blocks[a].edges :
          f.blocks[a].edges[e].args # <<>> /\ blocks[a].succ[e] = b
    BY <2>1
  <2> DEFINE edge == f.blocks[a].edges[e]
             params == f.blocks[edge.to].params
  <2>3. EdgeFit(blocks[b], edge, params, n, m) /\ edge.to # 1
    BY <2>2, SelectedEdges
  <2> HIDE DEF edge, params
  <2>4. /\ blocks[b].succ = <<edge.to>>
        /\ ScratchBehind(s) /\ (\A k \in DOMAIN s : Regular(s[k], m))
        /\ Defs(s[Len(s)]) = {}
        /\ \A v : Exposes(s, v) => v \in 1..n
    BY <2>3 DEF EdgeFit
  <2>5. 1 \notin ToSet(blocks[b].succ)
    BY <2>3, <2>4 DEF ToSet
  <2>6. \A r \in PReg : ~Exposes(s, r)
    BY <1>1, <2>4, PRegAssumption
  <2> QED BY <2>4, <2>5, <2>6 DEF BlockFit
<1> QED BY <1>2, <1>3, <1>4

(* No block reads a temporary it did not write.                              *)
LEMMA TemporaryUnneeded ==
  ASSUME NEW f \in Functions, NEW blocks, NEW m, AllSelected(f, blocks, m),
         NEW v \in 1..m, v \notin 1..f.vregs
  PROVE  Unneeded(blocks, v)
<1>1. v \notin PReg
  BY PRegAssumption DEF AllSelected
<1>2. \A b \in DOMAIN blocks : ~Exposes(blocks[b].insts, v)
  BY <1>1, SelectedBlocksFit
<1>3. \A b \in DOMAIN blocks : ToSet(blocks[b].succ) \subseteq DOMAIN blocks
  BY DEF AllSelected, CodeShape
<1>4. 1 \in DOMAIN blocks
  BY OriginalBlocks
<1> QED BY <1>2, <1>3, <1>4 DEF Unneeded

(* A register of the function is read nowhere before it has a value: its     *)
(* definitions dominate its uses, and an edge passes on what its block has.  *)
LEMMA RegisterUnneeded ==
  ASSUME NEW f \in Functions, NEW blocks, NEW m, AllSelected(f, blocks, m), NEW v \in 1..f.vregs
  PROVE  Unneeded(blocks, v)
<1>1. DefinedFirst(f)
  BY FunctionsAssumption DEF WellFormed
<1>2. PICK without \in SUBSET DOMAIN f.blocks :
        /\ 1 \in without
        /\ \A b \in without :
             /\ ~ReadsFirst(f, b, v)
             /\ ~Assigns(f, b, v) =>
                  \A e \in ToSet(f.blocks[b].edges) : e.to \in without \/ v \in ToSet(f.blocks[e.to].params)
  BY <1>1 DEF DefinedFirst
<1> DEFINE Behind(x) == \E b \in without : \E e \in DOMAIN f.blocks[b].edges :
                          ~Assigns(f, b, v) /\ blocks[b].succ[e] = x
           M == without \union {x \in Added(f, blocks) : Behind(x)}
<1>3. M \subseteq DOMAIN blocks /\ 1 \in M
  BY <1>2, OriginalBlocks
<1>4. ASSUME NEW b \in without
      PROVE  /\ ~Exposes(blocks[b].insts, v)
             /\ Writes(blocks[b].insts, v) \/ ToSet(blocks[b].succ) \subseteq M
  <2>1. BlockLowered(f, b, blocks[b].insts) /\ b \in DOMAIN f.blocks
    BY OriginalBlocks
  <2>2. ~Exposes(blocks[b].insts, v) /\ (Assigns(f, b, v) => Writes(blocks[b].insts, v))
    BY <1>2, <2>1 DEF BlockLowered
  <2>3. ASSUME ~Assigns(f, b, v), NEW e \in DOMAIN blocks[b].succ PROVE blocks[b].succ[e] \in M
    <3> DEFINE edge == f.blocks[b].edges[e]
    <3>1. e \in DOMAIN f.blocks[b].edges
      <4>1. DOMAIN blocks[b].succ = DOMAIN f.blocks[b].edges
        BY <2>1, SelectedEdges
      <4> QED BY <4>1
    <3>2. edge.to \in without \/ v \in ToSet(f.blocks[edge.to].params)
      <4>1. edge \in ToSet(f.blocks[b].edges)
        BY <2>1, <3>1, SelectedEdges
      <4> QED BY <1>2, <2>3, <4>1
    <3>3. CASE edge.args = <<>>
      <4>1. blocks[b].succ[e] = edge.to /\ ToSet(f.blocks[edge.to].params) = {}
        BY <2>1, <3>1, <3>3, SelectedEdges
      <4> QED BY <3>2, <4>1
    <3>4. CASE edge.args # <<>>
      <4>1. blocks[b].succ[e] \in Added(f, blocks)
        BY <2>1, <3>1, <3>4, SelectedEdges
      <4> QED BY <2>3, <3>1, <4>1
    <3> QED BY <3>3, <3>4
  <2> QED BY <2>2, <2>3 DEF ToSet
<1>5. ASSUME NEW x \in Added(f, blocks), Behind(x)
      PROVE  /\ ~Exposes(blocks[x].insts, v)
             /\ Writes(blocks[x].insts, v) \/ ToSet(blocks[x].succ) \subseteq M
  <2>1. PICK b \in without : \E e \in DOMAIN f.blocks[b].edges :
          ~Assigns(f, b, v) /\ blocks[b].succ[e] = x
    BY <1>5
  <2>2. PICK e \in DOMAIN f.blocks[b].edges : ~Assigns(f, b, v) /\ blocks[b].succ[e] = x
    BY <2>1
  <2> DEFINE edge == f.blocks[b].edges[e]
             params == f.blocks[edge.to].params
             s == blocks[x].insts
  <2>3. /\ edge.to \in DOMAIN f.blocks /\ edge \in ToSet(f.blocks[b].edges)
        /\ DOMAIN params = DOMAIN edge.args
        /\ edge.args = <<>> => x = edge.to
        /\ edge.args # <<>> => EdgeFit(blocks[x], edge, params, f.vregs, m)
    <3>1. b \in DOMAIN f.blocks
      OBVIOUS
    <3> HIDE DEF M, Behind, s
    <3> QED BY <2>2, <3>1, SelectedEdges
  <2>4. EdgeFit(blocks[x], edge, params, f.vregs, m)
    BY <2>3 DEF Added
  <2>5. v \notin ToSet(edge.args)
    BY <1>2, <2>2, <2>3 DEF ReadsFirst
  <2>6. edge.to \in without \/ v \in ToSet(params)
    BY <1>2, <2>2, <2>3
  <2> HIDE DEF edge, params
  <2>7. /\ blocks[x].succ = <<edge.to>>
        /\ Exposes(s, v) => v \in ToSet(edge.args)
        /\ \A i \in DOMAIN params : params[i] # edge.args[i] => Writes(s, params[i])
    BY <2>4 DEF EdgeFit
  <2>8. v \in ToSet(params) => Writes(s, v)
    <3> SUFFICES ASSUME NEW i \in DOMAIN params, params[i] = v PROVE Writes(s, v)
      BY DEF ToSet
    <3>1. edge.args[i] # v
      BY <2>3, <2>5 DEF ToSet
    <3> QED BY <2>7, <3>1
  <2>9. edge.to \in without => ToSet(blocks[x].succ) \subseteq M
    BY <2>7 DEF ToSet
  <2> QED BY <2>5, <2>6, <2>7, <2>8, <2>9
<1>6. \A b \in M : /\ ~Exposes(blocks[b].insts, v)
                   /\ Writes(blocks[b].insts, v) \/ ToSet(blocks[b].succ) \subseteq M
  <2> SUFFICES ASSUME NEW b \in M
               PROVE  /\ ~Exposes(blocks[b].insts, v)
                      /\ Writes(blocks[b].insts, v) \/ ToSet(blocks[b].succ) \subseteq M
    OBVIOUS
  <2>1. b \in without \/ (b \in Added(f, blocks) /\ Behind(b))
    OBVIOUS
  <2> HIDE DEF M, Behind
  <2> QED BY <1>4, <1>5, <2>1
<1> HIDE DEF M
<1> QED BY <1>3, <1>6 DEF Unneeded

(* The moves of an edge read nothing late.                                   *)
LEMMA LateReadsKept ==
  ASSUME NEW f \in Functions, NEW blocks, NEW m, AllSelected(f, blocks, m)
  PROVE  LateReadsApart(blocks)
<1>1. DefinedFirst(f)
  BY FunctionsAssumption DEF WellFormed
<1>2. PICK entered \in SUBSET DOMAIN f.blocks :
        /\ 1 \in entered
        /\ \A b \in entered : /\ \A e \in ToSet(f.blocks[b].edges) : e.to \in entered
                              /\ \A o \in ToSet(f.blocks[b].body) : o.d \notin ToSet(o.args)
  BY <1>1 DEF DefinedFirst
<1> DEFINE Behind(x) == \E b \in entered : \E e \in DOMAIN f.blocks[b].edges : blocks[b].succ[e] = x
           M == entered \union {x \in Added(f, blocks) : Behind(x)}
           Fit(b) == /\ ToSet(blocks[b].succ) \subseteq M
                     /\ \A k \in DOMAIN blocks[b].insts : LateApart(blocks[b].insts[k])
<1>3. M \subseteq DOMAIN blocks /\ 1 \in M
  BY <1>2, OriginalBlocks
<1>4. ASSUME NEW b \in entered PROVE Fit(b)
  <2>1. BlockLowered(f, b, blocks[b].insts) /\ b \in DOMAIN f.blocks
    BY OriginalBlocks
  <2>2. Apart(blocks[b].insts)
    BY <1>2, <2>1 DEF BlockLowered
  <2>3. ASSUME NEW e \in DOMAIN blocks[b].succ PROVE blocks[b].succ[e] \in M
    <3> DEFINE edge == f.blocks[b].edges[e]
    <3>1. e \in DOMAIN f.blocks[b].edges
      <4>1. DOMAIN blocks[b].succ = DOMAIN f.blocks[b].edges
        BY <2>1, SelectedEdges
      <4> QED BY <4>1
    <3>2. edge \in ToSet(f.blocks[b].edges)
      BY <2>1, <3>1, SelectedEdges
    <3>3. edge.to \in entered
      BY <1>2, <3>2
    <3>4. edge.args = <<>> => blocks[b].succ[e] = edge.to
      BY <2>1, <3>1, SelectedEdges
    <3>5. edge.args # <<>> => blocks[b].succ[e] \in Added(f, blocks)
      BY <2>1, <3>1, SelectedEdges
    <3> QED BY <3>1, <3>3, <3>4, <3>5
  <2> QED BY <2>2, <2>3 DEF Apart, ToSet
<1>5. ASSUME NEW x \in Added(f, blocks), Behind(x) PROVE Fit(x)
  <2>1. PICK b \in entered : \E e \in DOMAIN f.blocks[b].edges : blocks[b].succ[e] = x
    BY <1>5
  <2>2. PICK e \in DOMAIN f.blocks[b].edges : blocks[b].succ[e] = x
    BY <2>1
  <2> DEFINE edge == f.blocks[b].edges[e]
             params == f.blocks[edge.to].params
  <2>3. /\ edge.to \in DOMAIN f.blocks /\ edge \in ToSet(f.blocks[b].edges)
        /\ edge.args = <<>> => x = edge.to
        /\ edge.args # <<>> => EdgeFit(blocks[x], edge, params, f.vregs, m)
    <3>1. b \in DOMAIN f.blocks
      OBVIOUS
    <3> HIDE DEF M, Behind, Fit
    <3> QED BY <2>2, <3>1, SelectedEdges
  <2>4. EdgeFit(blocks[x], edge, params, f.vregs, m)
    BY <2>3 DEF Added
  <2>5. edge.to \in entered
    BY <1>2, <2>3
  <2> HIDE DEF edge, params
  <2>6. blocks[x].succ = <<edge.to>> /\ Apart(blocks[x].insts)
    BY <2>4 DEF EdgeFit
  <2> QED BY <2>5, <2>6 DEF Apart, ToSet
<1>6. \A b \in M : Fit(b)
  <2> SUFFICES ASSUME NEW b \in M PROVE Fit(b)
    OBVIOUS
  <2>1. b \in entered \/ (b \in Added(f, blocks) /\ Behind(b))
    OBVIOUS
  <2> HIDE DEF M, Behind, Fit
  <2> QED BY <1>4, <1>5, <2>1
<1> HIDE DEF M
<1> QED BY <1>3, <1>6 DEF LateReadsApart

(* Selection leaves code that is fit to be laid out.                         *)
LEMMA SelectedCode ==
  ASSUME NEW f \in Functions, NEW blocks, NEW m, AllSelected(f, blocks, m)
  PROVE  CodeFit(blocks, m)
<1>1. CodeShape(blocks)
  BY DEF AllSelected
<1>2. \A v \in 1..m : Unneeded(blocks, v)
  BY TemporaryUnneeded, RegisterUnneeded
<1>3. LateReadsApart(blocks)
  BY LateReadsKept
<1> QED BY <1>1, <1>2, <1>3, SelectedBlocksFit DEF CodeFit

(* The scan starts on code that is fit to run.                               *)
LEMMA ScanStartsFit ==
  ASSUME CopyInv, CodeInv, SelectedInv, StartScan
  PROVE  FitInv'
<1>1. PICK precise \in Modes : \E order \in Orders(code, precise) :
        BeginScan(Laid(code, order, precise), vregs)
  BY DEF StartScan
<1>2. PICK order \in Orders(code, precise) : BeginScan(Laid(code, order, precise), vregs)
  BY <1>1
<1> DEFINE m == Laid(code, order, precise)
<1>3. phase = "select" /\ edges = {} /\ vregs' = vregs
  BY DEF StartScan, copyVars
<1>4. fn \in Functions /\ vregs \in Nat /\ fn.vregs \in Nat /\ fn.vregs <= vregs
  BY FunctionsAssumption DEF CopyInv, CopyState, WellFormed
<1>5. CodeShape(code) /\ Len(fn.blocks) <= Len(code)
  BY DEF CodeInv
<1>6. AllSelected(fn, code, vregs)
  BY <1>3, <1>4, <1>5 DEF SelectedInv, AllSelected
<1>7. CodeFit(code, vregs)
  BY <1>4, <1>6, SelectedCode
<1>8. MachineFit(m, vregs)
  BY <1>7, LaidFit
<1>9. Numbered(m)
  BY <1>5, LaidNumbered
<1>10. mf' = m /\ live' = LivenessOf(m, vregs) /\ assign' = [v \in 1..vregs |-> None]
  BY <1>2 DEF BeginScan
<1> HIDE DEF m
<1>11. VRegs' = 1..vregs
  BY <1>10 DEF VRegs
<1> QED BY <1>3, <1>4, <1>8, <1>9, <1>10, <1>11 DEF FitInv, Analysed

(* The code the scan works on stays fit.                                     *)
LEMMA FitNext ==
  ASSUME CopyInv, CodeInv, SelectedInv, FitInv, [Next]_vars
  PROVE  FitInv'
<1>1. CASE StartScan
  BY <1>1, ScanStartsFit
<1>2. CASE SplitEdge \/ CopyStep \/ FinishEdge
  BY <1>2 DEF SplitEdge, CopyStep, FinishEdge, FitInv
<1>3. CASE Scan
  <2>1. phase = "scan" /\ mf' = mf /\ live' = live /\ vregs' = vregs
    BY <1>3 DEF Scan, ScanStep, AssignFree, TakeFromVictim, SpillCurrent, copyVars
  <2>2. DOMAIN assign' = DOMAIN assign
    BY <1>3 DEF Scan, ScanStep, AssignFree, TakeFromVictim, SpillCurrent
  <2> QED BY <2>1, <2>2 DEF FitInv, Analysed, VRegs
<1>4. CASE Rewrite \/ RewritePanics \/ Execute \/ Return \/ UNCHANGED vars
  <2>1. UNCHANGED <<mf, live, assign, vregs>>
    BY <1>4 DEF Rewrite, RewritePanics, Execute, Return, vars, copyVars, scanVars
  <2>2. phase' \in {"scan", "run"} => phase \in {"scan", "run"}
    BY <1>4 DEF Rewrite, RewritePanics, Execute, Return, vars
  <2> QED BY <2>1, <2>2 DEF FitInv, Analysed, VRegs
<1> QED BY <1>1, <1>2, <1>3, <1>4 DEF Next, Over

(* The invariant of the compiled code.                                       *)
RunInv == TypeInv /\ SelectedInv /\ FitInv /\ PlacedInv /\ HeldInv

(* It holds at the start                                                     *)
LEMMA RunInvInit == Init => RunInv
<1> SUFFICES ASSUME Init PROVE RunInv
  OBVIOUS
<1>1. phase = "select" /\ assign = <<>> /\ active = {} /\ VRegs = {}
  BY DEF Init, VRegs
<1>2. TypeInv /\ FitInv /\ PlacedInv /\ HeldInv
  BY <1>1 DEF TypeInv, FitInv, PlacedInv, SlotsApart, HeldInv
<1> QED BY <1>2, SelectedInit DEF RunInv

(* and over every step.                                                      *)
LEMMA RunInvNext ==
  CopyInv /\ CodeInv /\ ScanInv /\ RunInv /\ [Next]_vars => RunInv'
<1> SUFFICES ASSUME CopyInv, CodeInv, ScanInv, RunInv, [Next]_vars PROVE RunInv'
  OBVIOUS
<1>1. TypeInv /\ SelectedInv /\ FitInv /\ PlacedInv /\ HeldInv
  BY DEF RunInv
<1>2. TypeInv' /\ SelectedInv' /\ FitInv'
  BY <1>1, TypeNext, SelectedNext, FitNext
<1>3. PlacedInv' /\ HeldInv'
  BY <1>1, PlacedNext, HeldNext
<1> QED BY <1>2, <1>3 DEF RunInv

(* In every run of the compiled code, every operand that is read holds the   *)
(* value of the register that the selected code names there                  *)
(* (regalloc.rs:672-704, 735-768, 775-831).                                  *)
THEOREM ReadsAreIntact == Spec => []ReadsIntact
<1>1. ScanInv /\ RunInv => ReadsIntact
  <2> SUFFICES ASSUME ScanInv, RunInv, phase = "run" PROVE ReadsIntact
    BY DEF ReadsIntact
  <2>1. RunState
    BY DEF RunInv, RunState
  <2> QED BY <2>1, ReadsHold
<1> QED BY <1>1, RunInvInit, RunInvNext, CopyInvariant, CodeInvariant, ScanInvariant, PTL DEF Spec

===============================================================================
