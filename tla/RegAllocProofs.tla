---------------------------- MODULE RegAllocProofs ----------------------------
(***************************************************************************)
(* Whatever the functions: the moves of an edge have the effect of one     *)
(* parallel assignment, and no more temporaries than cycles are made; the  *)
(* live stretches of a register lie within its hull, and registers that    *)
(* share a physical one never need it at the same time.  Code that runs on *)
(* the places handed out finds every operand where the allocation put it,  *)
(* as long as it was fit for the scan; SelectionProofs shows that it is.   *)
(***************************************************************************)
EXTENDS RegAlloc, FiniteSetTheorems, InductionLemmas

-----------------------------------------------------------------------------
(* Parallel copies *)

Dsts == {copies[i].dst : i \in DOMAIN copies}
Srcs == {copies[i].src : i \in DOMAIN copies}

CopyShape ==
  /\ IsFiniteSet(DOMAIN copies) /\ DOMAIN copies \subseteq Nat
  /\ copies \in [DOMAIN copies -> [dst : 1..vregs, src : 1..vregs \union {Imm}]]
  /\ \A i \in DOMAIN copies : copies[i].src # copies[i].dst
  /\ \A i, j \in DOMAIN copies : copies[i].dst = copies[j].dst => i = j
  /\ moves \in Seq([dst : Nat, src : Nat \union {Imm}])
  /\ DOMAIN wanted # {} => holds \in Seq(Nat \union {Imm}) /\ Len(holds) = vregs
  /\ DOMAIN wanted \subseteq 1..vregs /\ IsFiniteSet(DOMAIN wanted)
  /\ Dsts \subseteq DOMAIN wanted

(* A copy still to be made finds its value in its source as it is now; a    *)
(* destination no copy is left for has its value.                           *)
CopyValues ==
  /\ \A i \in DOMAIN copies : ValueOf(copies[i].src) = wanted[copies[i].dst]
  /\ \A d \in DOMAIN wanted \ Dsts : holds[d] = wanted[d]

(* The copies that read what no copy will write, a temporary for example.   *)
(* One of them is left while a broken cycle is being emitted, and another   *)
(* copy as long as that one has to wait.                                    *)
Stray == {i \in DOMAIN copies : copies[i].src \notin Dsts}
Allowance == IF Stray = {} THEN 0 ELSE IF Stray \subseteq Ready THEN 1 ELSE 2

Effective == {d \in DOMAIN wanted : wanted[d] # d}

MovesBudgeted ==
  2 * Len(moves) + 3 * Cardinality(DOMAIN copies) <= 3 * Cardinality(Effective) + Allowance

CopyState == fn \in Functions /\ vregs \in Nat /\ vregs >= fn.vregs

CopyInv == CopyState /\ edges \subseteq Splits(fn) /\ CopyShape /\ CopyValues /\ MovesBudgeted

LEMMA FirstOfSome ==
  ASSUME NEW is, is \subseteq Nat, is # {}
  PROVE  First(is) \in is
BY LeastNat DEF First

LEMMA CopyCounts ==
  ASSUME CopyShape
  PROVE  /\ Cardinality(DOMAIN copies) \in Nat /\ Cardinality(Effective) \in Nat
         /\ Len(moves) \in Nat
         /\ IsFiniteSet(Effective) /\ Allowance \in 0..2
<1>1. Effective \subseteq DOMAIN wanted
  BY DEF Effective
<1>2. IsFiniteSet(Effective)
  BY <1>1, FS_Subset DEF CopyShape
<1> QED BY <1>2, FS_CardinalityType DEF CopyShape, Allowance

(* When every destination is read by a copy, the copies that read them are  *)
(* all there are: the copies form cycles.                                   *)
LEMMA NoStrayInCycles ==
  ASSUME CopyShape, Ready = {}
  PROVE  Stray = {}
<1> DEFINE D == DOMAIN copies
           dst == [i \in D |-> copies[i].dst]
           src == [i \in D |-> copies[i].src]
<1>1. Dsts \subseteq Srcs
  <2> SUFFICES ASSUME NEW i \in D PROVE copies[i].dst \in Srcs
    BY DEF Dsts
  <2>1. i \notin Ready
    OBVIOUS
  <2> QED BY <2>1 DEF Ready, Reads, Srcs
<1>2. dst \in Bijection(D, Dsts)
  BY DEF Bijection, Injection, Surjection, IsInjective, CopyShape, Dsts
<1>3. src \in Surjection(D, Srcs)
  BY DEF Surjection, CopyShape, Srcs
<1>4. IsFiniteSet(Dsts) /\ Cardinality(Dsts) = Cardinality(D)
  BY <1>2, FS_Bijection DEF CopyShape, ExistsBijection
<1>5. IsFiniteSet(Srcs) /\ Cardinality(Srcs) <= Cardinality(D)
  BY <1>3, FS_Surjection DEF CopyShape
<1>6. Cardinality(Dsts) <= Cardinality(Srcs)
  BY <1>1, <1>5, FS_Subset
<1>7. Cardinality(Dsts) = Cardinality(Srcs)
  BY <1>4, <1>5, <1>6, FS_CardinalityType
<1>8. Dsts = Srcs
  BY <1>1, <1>5, <1>7, FS_Subset
<1> QED BY <1>8 DEF Stray, Srcs

(* A copy that waits for another one is not alone.                          *)
LEMMA AllowanceBound ==
  ASSUME CopyShape
  PROVE  Allowance <= Cardinality(DOMAIN copies)
<1> DEFINE D == DOMAIN copies
<1>1. IsFiniteSet(D) /\ Cardinality(D) \in Nat
  BY FS_CardinalityType DEF CopyShape
<1>2. CASE Stray = {}
  BY <1>1, <1>2 DEF Allowance
<1>3. CASE Stray # {} /\ Stray \subseteq Ready
  <2>1. D # {}
    BY <1>3 DEF Stray
  <2>2. Cardinality(D) # 0
    BY <1>1, <2>1, FS_EmptySet
  <2> QED BY <1>1, <1>3, <2>2 DEF Allowance
<1>4. CASE ~(Stray \subseteq Ready)
  <2>1. PICK i \in Stray : i \notin Ready
    BY <1>4
  <2>2. PICK j \in D : copies[j].src = copies[i].dst
    BY <2>1 DEF Stray, Ready, Reads
  <2>3. i \in D /\ j \in D /\ i # j
    BY <2>1, <2>2 DEF Stray, CopyShape
  <2>4. Cardinality(D \ {i}) = Cardinality(D) - 1 /\ IsFiniteSet(D \ {i})
    BY <1>1, <2>3, FS_RemoveElement
  <2>5. Cardinality((D \ {i}) \ {j}) = Cardinality(D) - 1 - 1 /\ IsFiniteSet((D \ {i}) \ {j})
    BY <2>3, <2>4, FS_RemoveElement
  <2>6. Cardinality((D \ {i}) \ {j}) \in Nat
    BY <2>5, FS_CardinalityType
  <2> QED BY <1>1, <2>5, <2>6 DEF Allowance
<1> QED BY <1>2, <1>3, <1>4

LEMMA NextEdgeFound ==
  ASSUME fn \in Functions, edges \subseteq Splits(fn), edges # {}
  PROVE  NextEdge \in edges
<1> DEFINE Firsts == {e[1] : e \in edges}
<1>1. \A e \in edges : e[1] \in Nat /\ e[2] \in Nat
  <2> SUFFICES ASSUME NEW e \in edges PROVE e[1] \in Nat /\ e[2] \in Nat
    OBVIOUS
  <2>1. PICK b \in DOMAIN fn.blocks : \E k \in DOMAIN fn.blocks[b].edges : e = <<b, k>>
    BY DEF Splits
  <2>2. PICK k \in DOMAIN fn.blocks[b].edges : e = <<b, k>>
    BY <2>1
  <2>3. WellFormed(fn)
    BY FunctionsAssumption
  <2>4. b \in Nat /\ k \in Nat
    <3>1. fn.blocks \in Seq(SourceBlock)
      BY <2>3 DEF WellFormed
    <3>2. b \in Nat /\ fn.blocks[b] \in SourceBlock
      BY <3>1
    <3> QED BY <3>2 DEF SourceBlock
  <2> QED BY <2>2, <2>4
<1>2. PICK b \in Firsts : \A c \in Firsts : b <= c
  <2>1. Firsts \subseteq Nat /\ Firsts # {}
    BY <1>1
  <2> HIDE DEF Firsts
  <2> QED BY <2>1, LeastNat
<1> DEFINE Seconds == {e[2] : e \in {e \in edges : e[1] = b}}
<1>3. PICK k \in Seconds : \A c \in Seconds : k <= c
  <2>1. Seconds \subseteq Nat /\ Seconds # {}
    BY <1>1
  <2> HIDE DEF Seconds
  <2> QED BY <2>1, LeastNat
<1>4. PICK e \in edges : e[1] = b /\ e[2] = k
  BY <1>3
<1>5. \A d \in edges : e[1] < d[1] \/ (e[1] = d[1] /\ e[2] <= d[2])
  <2> SUFFICES ASSUME NEW d \in edges PROVE e[1] < d[1] \/ (e[1] = d[1] /\ e[2] <= d[2])
    OBVIOUS
  <2>1. b \in Nat /\ d[1] \in Nat /\ b <= d[1]
    BY <1>1, <1>2, <1>4
  <2>2. d[1] = b => k <= d[2]
    BY <1>3
  <2> QED BY <2>1, <2>2, <1>4
<1> QED BY <1>5 DEF NextEdge

LEMMA SeqWider ==
  ASSUME NEW S, NEW T, S \subseteq T, NEW s \in Seq(S)
  PROVE  s \in Seq(T) /\ DOMAIN s = 1..Len(s)
OBVIOUS

(* The edge to be split passes an argument to each parameter.               *)
LEMMA NextEdgeShape ==
  ASSUME CopyState, edges \subseteq Splits(fn), edges # {}
  PROVE  LET e == EdgeOf(NextEdge)
             params == fn.blocks[e.to].params
         IN  /\ params \in Seq(1..vregs) /\ DOMAIN params = DOMAIN e.args
             /\ e.args \in Seq(1..vregs \union {Imm})
             /\ \A i, j \in DOMAIN params : params[i] = params[j] => i = j
<1>1. NextEdge \in Splits(fn) /\ WellFormed(fn) /\ fn.vregs \in Nat
  BY NextEdgeFound, FunctionsAssumption DEF CopyState, WellFormed
<1>2. PICK b \in DOMAIN fn.blocks : \E k \in DOMAIN fn.blocks[b].edges : NextEdge = <<b, k>>
  BY <1>1 DEF Splits
<1>3. PICK k \in DOMAIN fn.blocks[b].edges : NextEdge = <<b, k>>
  BY <1>2
<1> DEFINE e == fn.blocks[b].edges[k]
           params == fn.blocks[e.to].params
<1>4. EdgeOf(NextEdge) = e
  BY <1>3 DEF EdgeOf
<1>5. /\ params \in Seq(1..fn.vregs) /\ Len(params) = Len(e.args)
      /\ e.args \in Seq(1..fn.vregs \union {Imm})
      /\ \A i, j \in DOMAIN params : params[i] = params[j] => i = j
  BY <1>1 DEF WellFormed
<1>6. \A x \in 1..fn.vregs : x \in 1..vregs
  BY <1>1 DEF CopyState
<1> HIDE DEF e, params
<1>7. params \in Seq(1..vregs) /\ e.args \in Seq(1..vregs \union {Imm})
      /\ DOMAIN params = DOMAIN e.args
  <2>1. 1..fn.vregs \subseteq 1..vregs
           /\ 1..fn.vregs \union {Imm} \subseteq 1..vregs \union {Imm}
    BY <1>6
  <2>2. params \in Seq(1..vregs) /\ DOMAIN params = 1..Len(params)
    BY <1>5, <2>1, SeqWider
  <2>3. e.args \in Seq(1..vregs \union {Imm}) /\ DOMAIN e.args = 1..Len(e.args)
    BY <1>5, <2>1, SeqWider
  <2> QED BY <1>5, <2>2, <2>3
<1> QED BY <1>4, <1>5, <1>7 DEF params

LEMMA BeginStep ==
  ASSUME NEW n \in Nat, NEW dsts \in Seq(1..n), NEW srcs \in Seq(1..n \union {Imm}),
         DOMAIN dsts = DOMAIN srcs,
         \A i, j \in DOMAIN dsts : dsts[i] = dsts[j] => i = j,
         Begin(n, dsts, srcs)
  PROVE  CopyShape' /\ CopyValues' /\ MovesBudgeted'
<1> DEFINE I == {i \in DOMAIN dsts : srcs[i] # dsts[i]}
<1>1. /\ vregs' = n /\ moves' = <<>> /\ holds' = [r \in 1..n |-> r]
      /\ copies' = [i \in I |-> [dst |-> dsts[i], src |-> srcs[i]]]
      /\ DOMAIN wanted' = ToSet(dsts)
  BY DEF Begin
<1>2. \A i \in DOMAIN dsts : dsts[i] \in ToSet(dsts) /\ wanted'[dsts[i]] = srcs[i]
  <2> SUFFICES ASSUME NEW i \in DOMAIN dsts
               PROVE  dsts[i] \in ToSet(dsts) /\ wanted'[dsts[i]] = srcs[i]
    OBVIOUS
  <2>1. dsts[i] \in ToSet(dsts)
    BY DEF ToSet
  <2>2. wanted'[dsts[i]] = srcs[CHOOSE j \in DOMAIN dsts : dsts[j] = dsts[i]]
    BY <2>1 DEF Begin
  <2>3. (CHOOSE j \in DOMAIN dsts : dsts[j] = dsts[i]) = i
    OBVIOUS
  <2> QED BY <2>1, <2>2, <2>3
<1>3. IsFiniteSet(I) /\ I \subseteq Nat /\ I \subseteq DOMAIN dsts
  <2>1. DOMAIN dsts = 1..Len(dsts) /\ Len(dsts) \in Nat
    OBVIOUS
  <2>2. IsFiniteSet(DOMAIN dsts)
    BY <2>1, FS_Interval
  <2> QED BY <2>1, <2>2, FS_Subset
<1>4. \A i \in DOMAIN dsts : dsts[i] \in 1..n /\ srcs[i] \in 1..n \union {Imm}
  OBVIOUS
<1>5. DOMAIN wanted' \subseteq 1..n /\ IsFiniteSet(DOMAIN wanted')
  <2>1. ToSet(dsts) \subseteq 1..n
    BY <1>4 DEF ToSet
  <2>2. IsFiniteSet(1..n)
    BY FS_Interval
  <2> QED BY <2>1, <2>2, <1>1, FS_Subset
<1>6. Dsts' = {dsts[i] : i \in I} /\ Dsts' \subseteq DOMAIN wanted'
  BY <1>1, <1>2 DEF Dsts
<1>7. holds' \in Seq(Nat \union {Imm}) /\ Len(holds') = n
  <2> DEFINE h == [r \in 1..n |-> r]
  <2>1. h \in [1..n -> Nat \union {Imm}]
    OBVIOUS
  <2> HIDE DEF h
  <2>2. h \in Seq(Nat \union {Imm}) /\ Len(h) = n
    BY <2>1
  <2> QED BY <1>1, <2>2 DEF h
<1>8. CopyShape'
  <2>1. moves' \in Seq([dst : Nat, src : Nat \union {Imm}])
    BY <1>1
  <2>2. copies' \in [DOMAIN copies' -> [dst : 1..n, src : 1..n \union {Imm}]]
    BY <1>1, <1>4
  <2> QED BY <2>1, <2>2, <1>1, <1>3, <1>5, <1>6, <1>7 DEF CopyShape
<1>9. CopyValues'
  <2>1. ASSUME NEW i \in I PROVE ValueOf(copies[i].src)' = wanted'[copies'[i].dst]
    BY <1>1, <1>2, <1>4, ImmAssumption DEF ValueOf
  <2>2. ASSUME NEW d \in DOMAIN wanted' \ Dsts' PROVE holds'[d] = wanted'[d]
    <3>1. PICK i \in DOMAIN dsts : dsts[i] = d
      BY <1>1 DEF ToSet
    <3>2. i \notin I
      BY <3>1, <1>6
    <3> QED BY <3>1, <3>2, <1>1, <1>2, <1>4
  <2> QED BY <2>1, <2>2, <1>1 DEF CopyValues
<1>10. MovesBudgeted'
  <2> DEFINE f == [i \in I |-> dsts[i]]
  <2>1. f \in Bijection(I, Effective')
    <3>1. \A i \in I : dsts[i] \in Effective'
      BY <1>1, <1>2 DEF Effective
    <3>2. \A d \in Effective' : \E i \in I : f[i] = d
      <4> SUFFICES ASSUME NEW d \in Effective' PROVE \E i \in I : f[i] = d
        OBVIOUS
      <4>1. PICK i \in DOMAIN dsts : dsts[i] = d
        BY <1>1 DEF Effective, ToSet
      <4> QED BY <4>1, <1>2 DEF Effective
    <3> QED BY <3>1, <3>2 DEF Bijection, Injection, Surjection, IsInjective
  <2>2. Cardinality(Effective') = Cardinality(I) /\ Cardinality(I) \in Nat
    BY <2>1, <1>3, FS_Bijection, FS_CardinalityType DEF ExistsBijection
  <2>3. Allowance' \in 0..2
    BY DEF Allowance
  <2>4. Len(moves') = 0 /\ DOMAIN copies' = I
    BY <1>1
  <2> QED BY <2>2, <2>3, <2>4 DEF MovesBudgeted
<1> QED BY <1>8, <1>9, <1>10

LEMMA EmitReadyStep ==
  ASSUME CopyShape, CopyValues, MovesBudgeted, vregs \in Nat, EmitReady
  PROVE  CopyShape' /\ CopyValues' /\ MovesBudgeted'
<1> DEFINE D == DOMAIN copies
           i == First(Ready)
<1>1. i \in Ready /\ i \in D
  <2>1. Ready \subseteq D /\ D \subseteq Nat /\ Ready # {}
    BY DEF CopyShape, Ready, EmitReady
  <2>2. First(Ready) \in Ready
    BY <2>1, FirstOfSome
  <2> QED BY <2>1, <2>2
<1>2. /\ moves' = Append(moves, copies[i])
      /\ holds' = [holds EXCEPT ![copies[i].dst] = ValueOf(copies[i].src)]
      /\ copies' = Restrict(copies, D \ {i})
      /\ vregs' = vregs /\ wanted' = wanted
  BY DEF EmitReady
<1> HIDE DEF i
<1>3. DOMAIN copies' = D \ {i} /\ \A j \in D \ {i} : copies'[j] = copies[j]
  BY <1>2 DEF Restrict
<1>4. Dsts' = Dsts \ {copies[i].dst}
  <2>1. \A j \in D : j # i => copies[j].dst # copies[i].dst
    BY <1>1 DEF CopyShape
  <2>2. Dsts' = {copies[j].dst : j \in D \ {i}}
    BY <1>3 DEF Dsts
  <2> QED BY <2>1, <2>2, <1>1 DEF Dsts
<1>5. \A j \in D : copies[j].src # copies[i].dst
  BY <1>1 DEF Ready, Reads
<1>6. copies[i] \in [dst : 1..vregs, src : 1..vregs \union {Imm}]
  BY <1>1 DEF CopyShape
<1>7. copies[i].dst \in DOMAIN wanted
  BY <1>1 DEF CopyShape, Dsts
<1>8. holds \in Seq(Nat \union {Imm}) /\ Len(holds) = vregs
  BY <1>7 DEF CopyShape
<1>9. ValueOf(copies[i].src) \in Nat \union {Imm}
  BY <1>6, <1>8 DEF ValueOf
<1>10. holds' \in Seq(Nat \union {Imm}) /\ Len(holds') = vregs
       /\ holds'[copies[i].dst] = ValueOf(copies[i].src)
       /\ \A r \in 1..vregs : r # copies[i].dst => holds'[r] = holds[r]
  BY <1>2, <1>6, <1>8, <1>9
<1>11. CopyShape'
  <2>1. copies[i] \in [dst : Nat, src : Nat \union {Imm}]
    BY <1>6
  <2>2. moves' \in Seq([dst : Nat, src : Nat \union {Imm}])
    BY <2>1, <1>2 DEF CopyShape
  <2>3. IsFiniteSet(DOMAIN copies')
    <3>1. IsFiniteSet(D \ {i})
      BY FS_RemoveElement DEF CopyShape
    <3> QED BY <3>1, <1>3
  <2>4. copies' \in [DOMAIN copies' -> [dst : 1..vregs, src : 1..vregs \union {Imm}]]
    BY <1>2, <1>3 DEF CopyShape, Restrict
  <2> QED BY <2>2, <2>3, <2>4, <1>2, <1>3, <1>4, <1>10, ZenonT(30) DEF CopyShape
<1>12. CopyValues'
  <2>1. ASSUME NEW j \in D \ {i} PROVE ValueOf(copies[j].src)' = wanted'[copies'[j].dst]
    <3>1. copies[j].src \in 1..vregs \union {Imm} /\ copies[j].src # copies[i].dst
      BY <1>5 DEF CopyShape
    <3>2. copies'[j] = copies[j] /\ ValueOf(copies[j].src) = wanted[copies[j].dst]
      BY <1>3 DEF CopyValues
    <3>3. ValueOf(copies[j].src)' = ValueOf(copies[j].src)
      BY <3>1, <3>2, <1>10 DEF ValueOf
    <3> QED BY <3>2, <3>3, <1>2
  <2>2. ASSUME NEW d \in DOMAIN wanted \ Dsts' PROVE holds'[d] = wanted[d]
    <3>1. d \in 1..vregs
      BY DEF CopyShape
    <3>2. CASE d = copies[i].dst
      BY <3>2, <1>1, <1>10 DEF CopyValues
    <3>3. CASE d # copies[i].dst
      BY <3>1, <3>3, <1>4, <1>10 DEF CopyValues
    <3> QED BY <3>2, <3>3
  <2> QED BY <2>1, <2>2, <1>2, <1>3 DEF CopyValues
<1>13. MovesBudgeted'
  <2>1. Stray \ {i} \subseteq Stray'
    BY <1>3, <1>4 DEF Stray
  <2>2. Allowance - 1 <= Allowance'
    <3>1. CASE Stray \subseteq Ready
      BY <3>1 DEF Allowance
    <3>2. CASE ~(Stray \subseteq Ready)
      <4>1. Stray' # {}
        BY <3>2, <2>1, <1>1
      <4> QED BY <4>1 DEF Allowance
    <3> QED BY <3>1, <3>2
  <2>3. Cardinality(DOMAIN copies') = Cardinality(D) - 1
    <3>1. Cardinality(D \ {i}) = Cardinality(D) - 1
      BY <1>1, FS_RemoveElement DEF CopyShape
    <3> QED BY <3>1, <1>3
  <2>4. Len(moves') = Len(moves) + 1
    BY <1>2 DEF CopyShape
  <2>5. Effective' = Effective
    BY <1>2 DEF Effective
  <2>6. Allowance' \in 0..2
    BY DEF Allowance
  <2> QED BY <2>2, <2>3, <2>4, <2>5, <2>6, CopyCounts, SMTT(20) DEF MovesBudgeted
<1> QED BY <1>11, <1>12, <1>13

LEMMA BreakCycleStep ==
  ASSUME CopyShape, CopyValues, MovesBudgeted, vregs \in Nat, BreakCycle
  PROVE  CopyShape' /\ CopyValues' /\ MovesBudgeted'
<1> DEFINE D == DOMAIN copies
           is == {k \in D : copies[k].src # Imm}
           i == First(is)
           s == copies[i].src
           t == vregs + 1
<1>1. PICK k \in D : TRUE
  BY DEF BreakCycle, NoneLeft
<1>2. i \in is
  <2>1. PICK j \in D : copies[j].src = copies[k].dst
    BY <1>1 DEF BreakCycle, Ready, Reads
  <2>2. copies[k].dst \in Nat
    BY <1>1 DEF CopyShape
  <2>3. j \in is
    BY <2>1, <2>2, ImmAssumption
  <2> QED BY <2>3, FirstOfSome DEF CopyShape
<1>3. /\ vregs' = t
      /\ moves' = Append(moves, [dst |-> t, src |-> s])
      /\ holds' = Append(holds, holds[s])
      /\ copies' = [j \in D |-> IF copies[j].src = s THEN [copies[j] EXCEPT !.src = t] ELSE copies[j]]
      /\ wanted' = wanted /\ Ready = {}
  BY DEF BreakCycle, Reads
<1> HIDE DEF i
<1>4. i \in D /\ s \in 1..vregs /\ copies[i].dst \in 1..vregs /\ copies[i].dst # s
  BY <1>2 DEF CopyShape
<1>5. \A j \in D : /\ copies[j] \in [dst : 1..vregs, src : 1..vregs \union {Imm}]
                   /\ copies[j].src # copies[j].dst
  BY DEF CopyShape
<1>6. /\ DOMAIN copies' = D
      /\ \A j \in D : /\ copies'[j].dst = copies[j].dst
                      /\ copies'[j].src = IF copies[j].src = s THEN t ELSE copies[j].src
  BY <1>3, <1>5
<1>7. Dsts' = Dsts /\ Dsts \subseteq 1..vregs /\ Dsts \subseteq DOMAIN wanted
  BY <1>5, <1>6 DEF Dsts, CopyShape
<1>8. holds \in Seq(Nat \union {Imm}) /\ Len(holds) = vregs
  <2>1. copies[i].dst \in DOMAIN wanted
    BY <1>4, <1>7 DEF Dsts
  <2> QED BY <2>1 DEF CopyShape
<1>9. holds[s] \in Nat \union {Imm}
  BY <1>4, <1>8
<1>10. /\ holds' \in Seq(Nat \union {Imm}) /\ Len(holds') = t
       /\ holds'[t] = holds[s] /\ \A r \in 1..vregs : holds'[r] = holds[r]
  BY <1>3, <1>8, <1>9
<1>11. CopyShape'
  <2>1. moves' \in Seq([dst : Nat, src : Nat \union {Imm}])
    <3>1. [dst |-> t, src |-> s] \in [dst : Nat, src : Nat \union {Imm}]
      BY <1>4
    <3> QED BY <3>1, <1>3 DEF CopyShape
  <2>2. \A x \in 1..vregs : x \in 1..t /\ x # t
    OBVIOUS
  <2>3. copies' \in [D -> [dst : 1..t, src : 1..t \union {Imm}]]
    <3>1. ASSUME NEW j \in D PROVE copies'[j] \in [dst : 1..t, src : 1..t \union {Imm}]
      <4>1. copies[j] \in [dst : 1..t, src : 1..t \union {Imm}] /\ t \in 1..t
        BY <1>5, <2>2
      <4> QED BY <4>1, <1>3
    <3> QED BY <3>1, <1>3
  <2>4. \A j \in D : copies'[j].src # copies'[j].dst
    BY <1>5, <1>6, <2>2
  <2>5. DOMAIN wanted \subseteq 1..t
    BY <2>2 DEF CopyShape
  <2> QED BY <2>1, <2>3, <2>4, <2>5, <1>3, <1>6, <1>7, <1>10 DEF CopyShape
<1>12. CopyValues'
  <2>1. ASSUME NEW j \in D PROVE ValueOf(copies[j].src)' = wanted[copies[j].dst]
    <3>1. ValueOf(copies[j].src) = wanted[copies[j].dst]
      BY DEF CopyValues
    <3>2. s # Imm /\ t # Imm
      BY <1>2, ImmAssumption
    <3>3. CASE copies[j].src = s
      BY <3>1, <3>2, <3>3, <1>6, <1>10 DEF ValueOf
    <3>4. CASE copies[j].src # s
      BY <3>1, <3>4, <1>5, <1>6, <1>10 DEF ValueOf
    <3> QED BY <3>3, <3>4
  <2>2. ASSUME NEW d \in DOMAIN wanted \ Dsts PROVE holds'[d] = wanted[d]
    BY <1>10 DEF CopyValues, CopyShape
  <2>3. ASSUME NEW j \in D PROVE ValueOf(copies[j].src)' = wanted'[copies'[j].dst]
    BY <2>1, <1>3, <1>6
  <2> QED BY <2>2, <2>3, <1>3, <1>6, <1>7 DEF CopyValues
<1>13. MovesBudgeted'
  <2>1. Allowance = 0
    BY <1>3, NoStrayInCycles DEF Allowance
  <2>2. i \in Stray'
    BY <1>4, <1>6, <1>7 DEF Stray
  <2>3. i \notin Ready'
    <3>1. PICK j \in D : copies[j].src = copies[i].dst
      BY <1>3, <1>4 DEF Ready, Reads
    <3>2. copies'[j].src = copies'[i].dst
      BY <3>1, <1>4, <1>6
    <3> QED BY <3>2, <1>6 DEF Ready, Reads
  <2>4. Allowance' = 2
    BY <2>2, <2>3 DEF Allowance
  <2>5. Len(moves') = Len(moves) + 1
    BY <1>3 DEF CopyShape
  <2>6. Effective' = Effective /\ DOMAIN copies' = D
    BY <1>3, <1>6 DEF Effective
  <2> QED BY <2>1, <2>4, <2>5, <2>6, CopyCounts DEF MovesBudgeted
<1> QED BY <1>11, <1>12, <1>13

LEMMA CopyInit == Init => CopyInv
<1> SUFFICES ASSUME Init PROVE CopyInv
  OBVIOUS
<1>1. /\ fn \in Functions /\ vregs = fn.vregs /\ edges = Splits(fn)
      /\ copies = <<>> /\ moves = <<>> /\ holds = <<>> /\ wanted = <<>>
  BY DEF Init, Select
<1>2. vregs \in Nat
  BY <1>1, FunctionsAssumption DEF WellFormed
<1>3. DOMAIN copies = {} /\ DOMAIN wanted = {} /\ Dsts = {} /\ Effective = {} /\ Stray = {}
  BY <1>1 DEF Dsts, Effective, Stray
<1>4. CopyShape /\ CopyValues
  BY <1>1, <1>3, FS_EmptySet DEF CopyShape, CopyValues
<1>5. MovesBudgeted
  <2>1. Len(moves) = 0 /\ Cardinality(DOMAIN copies) = 0 /\ Cardinality(Effective) = 0
    BY <1>1, <1>3, FS_EmptySet
  <2> QED BY <2>1, <1>3 DEF MovesBudgeted, Allowance
<1> QED BY <1>1, <1>2, <1>4, <1>5 DEF CopyInv, CopyState

LEMMA CopiesKept ==
  ASSUME CopyInv, UNCHANGED <<copyVars, fn>>, edges' \subseteq edges
  PROVE  CopyInv'
<1>1. /\ copies' = copies /\ moves' = moves /\ vregs' = vregs /\ holds' = holds
      /\ wanted' = wanted /\ fn' = fn
  BY DEF copyVars
<1>2. Dsts' = Dsts /\ Ready' = Ready /\ Effective' = Effective
  BY <1>1 DEF Dsts, Ready, Reads, Effective
<1>3. Allowance' = Allowance
  BY <1>1, <1>2 DEF Allowance, Stray
<1>4. CopyState' /\ edges' \subseteq Splits(fn')
  BY <1>1 DEF CopyInv, CopyState
<1>5. CopyShape'
  BY <1>1, <1>2 DEF CopyInv, CopyShape
<1>6. CopyValues'
  BY <1>1, <1>2 DEF CopyInv, CopyValues, ValueOf
<1>7. MovesBudgeted'
  BY <1>1, <1>2, <1>3 DEF CopyInv, MovesBudgeted
<1> QED BY <1>4, <1>5, <1>6, <1>7 DEF CopyInv

LEMMA CopyNext == CopyInv /\ [Next]_vars => CopyInv'
<1> SUFFICES ASSUME CopyInv, [Next]_vars PROVE CopyInv'
  OBVIOUS
<1>1. CASE SplitEdge
  <2> DEFINE e == EdgeOf(NextEdge)
             params == fn.blocks[e.to].params
  <2>1. Begin(vregs, params, e.args) /\ edges # {} /\ UNCHANGED <<fn, edges>> /\ vregs' = vregs
    BY <1>1 DEF SplitEdge, Begin
  <2>2. CopyState /\ edges \subseteq Splits(fn) /\ vregs \in Nat
    BY DEF CopyInv, CopyState
  <2>3. /\ params \in Seq(1..vregs) /\ DOMAIN params = DOMAIN e.args
        /\ e.args \in Seq(1..vregs \union {Imm})
        /\ \A i, j \in DOMAIN params : params[i] = params[j] => i = j
    BY <2>1, <2>2, NextEdgeShape
  <2> HIDE DEF e, params
  <2>4. CopyShape' /\ CopyValues' /\ MovesBudgeted'
    BY <2>1, <2>2, <2>3, BeginStep
  <2> QED BY <2>1, <2>2, <2>4 DEF CopyInv, CopyState
<1>2. CASE CopyStep
  <2>1. CopyShape' /\ CopyValues' /\ MovesBudgeted'
    BY <1>2, EmitReadyStep, BreakCycleStep DEF CopyStep, CopyInv, CopyState
  <2>2. UNCHANGED <<fn, edges>> /\ vregs' \in {vregs, vregs + 1}
    BY <1>2 DEF CopyStep, EmitReady, BreakCycle
  <2>3. fn.vregs \in Nat
    BY FunctionsAssumption DEF CopyInv, CopyState, WellFormed
  <2> QED BY <2>1, <2>2, <2>3 DEF CopyInv, CopyState
<1>3. CASE FinishEdge
  BY <1>3, CopiesKept DEF FinishEdge
<1>4. CASE StartScan \/ Scan \/ Rewrite \/ RewritePanics \/ Execute \/ Return \/ Over
  BY <1>4, CopiesKept DEF StartScan, Scan, Rewrite, RewritePanics, Execute, Return, Over, vars
<1>5. CASE UNCHANGED vars
  BY <1>5, CopiesKept DEF vars
<1> QED BY <1>1, <1>2, <1>3, <1>4, <1>5 DEF Next

LEMMA CopyInvariant == Spec => []CopyInv
BY CopyInit, CopyNext, PTL DEF Spec

(* When the moves of an edge have run, each parameter has the value its     *)
(* argument had before the first of them.                                   *)
THEOREM MovesAreParallel == Spec => []Parallel
<1>1. CopyInv => Parallel
  BY DEF CopyInv, CopyValues, Parallel, NoneLeft, Dsts
<1> QED BY <1>1, CopyInvariant, PTL

(* An edge of n effective copies takes at most n + n/2 moves, whatever the  *)
(* order: a temporary is only made for a cycle, and not twice for one.      *)
THEOREM OneTemporaryPerCycle == Spec => []OneTempPerCycle
<1>1. ASSUME CopyInv PROVE OneTempPerCycle
  <2>1. CopyShape /\ MovesBudgeted
    BY <1>1 DEF CopyInv
  <2>2. Allowance <= Cardinality(DOMAIN copies) /\ Allowance \in 0..2
        /\ Cardinality(DOMAIN copies) \in Nat /\ Cardinality(Effective) \in Nat
        /\ Len(moves) \in Nat
    BY <2>1, AllowanceBound, CopyCounts
  <2>3. 2 * (Len(moves) + Cardinality(DOMAIN copies)) <= 3 * Cardinality(Effective)
    BY <2>1, <2>2 DEF MovesBudgeted
  <2> QED BY <2>3 DEF OneTempPerCycle, Effective
<1> QED BY <1>1, CopyInvariant, PTL
-----------------------------------------------------------------------------
(* Selected code *)

Operand == [kind : {"def", "use"}, reg : PReg \union Nat]
Instr == [ops : Seq(Operand), move : BOOLEAN, tied : SUBSET Nat, late : SUBSET Nat]
MachineBlock == [insts : Seq(Instr), succ : Seq(Nat)]

(* Every block ends with an instruction of its own and leads to blocks.      *)
CodeShape(blocks) ==
  /\ blocks \in Seq(MachineBlock) /\ Len(blocks) # 0
  /\ \A b \in DOMAIN blocks : /\ Len(blocks[b].insts) # 0
                              /\ ToSet(blocks[b].succ) \subseteq DOMAIN blocks

CodeInv ==
  /\ CodeShape(code) /\ fn \in Functions /\ Len(fn.blocks) <= Len(code)
  /\ phase = "copy" => edges # {}

LEMMA ShortSeqs ==
  ASSUME NEW S
  PROVE  /\ \A x \in S : <<x>> \in Seq(S)
         /\ \A x, y \in S : <<x, y>> \in Seq(S)
         /\ \A x, y, z \in S : <<x, y, z>> \in Seq(S)
OBVIOUS

LEMMA SeqItems ==
  ASSUME NEW S, NEW s \in Seq(S)
  PROVE  /\ \A k \in 1..Len(s) : s[k] \in S
         /\ \A k, x : x \in S => /\ [s EXCEPT ![k] = x] \in Seq(S)
                               /\ Len([s EXCEPT ![k] = x]) = Len(s)
                               /\ DOMAIN [s EXCEPT ![k] = x] = DOMAIN s
<1>1. \A k \in 1..Len(s) : s[k] \in S
  OBVIOUS
<1>2. ASSUME NEW k, NEW x \in S
      PROVE  /\ [s EXCEPT ![k] = x] \in Seq(S) /\ Len([s EXCEPT ![k] = x]) = Len(s)
             /\ DOMAIN [s EXCEPT ![k] = x] = DOMAIN s
  <2> DEFINE t == [s EXCEPT ![k] = x]
  <2>0. Len(s) \in Nat /\ DOMAIN s = 1..Len(s)
    OBVIOUS
  <2>1. t \in [1..Len(s) -> S] /\ DOMAIN t = DOMAIN s
    <3>1. t = [i \in DOMAIN s |-> IF i = k THEN x ELSE s[i]]
      BY Zenon
    <3>2. \A i \in 1..Len(s) : (IF i = k THEN x ELSE s[i]) \in S
      BY <1>1
    <3> HIDE DEF t
    <3> QED BY <2>0, <3>1, <3>2, Zenon
  <2> HIDE DEF t
  <2>2. t \in Seq(S) /\ Len(t) = Len(s)
    BY <2>0, <2>1
  <2> QED BY <2>1, <2>2 DEF t
<1> QED BY <1>1, <1>2

LEMMA InstTyped ==
  ASSUME NEW ops \in Seq(Operand), NEW move \in BOOLEAN, NEW tied \in SUBSET Nat, NEW late \in SUBSET Nat
  PROVE  Inst(ops, move, tied, late) \in Instr
BY DEF Inst, Instr

LEMMA InstrForms ==
  /\ \A r \in PReg \union Nat : Def(r) \in Operand /\ Use(r) \in Operand
  /\ \A d, s \in PReg \union Nat : Move(d, s) \in Instr
  /\ \A ops \in Seq(Operand) : Plain(ops) \in Instr
<1>1. \A r \in PReg \union Nat : Def(r) \in Operand /\ Use(r) \in Operand
  BY DEF Def, Use, Operand
<1>2. ASSUME NEW d \in PReg \union Nat, NEW s \in PReg \union Nat PROVE Move(d, s) \in Instr
  <2>1. <<Def(d), Use(s)>> \in Seq(Operand)
    BY <1>1
  <2>2. (IF {d, s} \cap PReg = {} THEN {2} ELSE {}) \in SUBSET Nat
    OBVIOUS
  <2> QED BY <2>1, <2>2, InstTyped DEF Move
<1> QED BY <1>1, <1>2, InstTyped DEF Plain

LEMMA ClobbersTyped == Clobbers \in Seq(Operand)
<1> DEFINE pieces == [k \in DOMAIN CallerSaved |->
                        IF CallerSaved[k] = RetReg THEN <<>> ELSE <<Def(CallerSaved[k])>>]
<1>1. CallerSaved \in Seq(PReg)
  BY RegistersAssumption
<1>2. ASSUME NEW k \in DOMAIN CallerSaved PROVE pieces[k] \in Seq(Operand)
  <2>1. Def(CallerSaved[k]) \in Operand
    BY <1>1, InstrForms
  <2> QED BY <2>1
<1>3. DOMAIN CallerSaved = 1..Len(CallerSaved) /\ Len(CallerSaved) \in Nat
  BY <1>1
<1>4. pieces \in [1..Len(CallerSaved) -> Seq(Operand)]
  BY <1>2, <1>3
<1>5. pieces \in Seq(Seq(Operand))
  <2> HIDE DEF pieces
  <2> QED BY <1>3, <1>4
<1> QED BY <1>5, FlattenTyped DEF Clobbers

LEMMA SyscallMovesTyped ==
  ASSUME NEW args \in Seq(Nat), Len(args) <= Len(SyscallRegs)
  PROVE  SyscallMoves(args) \in Seq(Instr)
<1> DEFINE pieces(borrowed) == [k \in DOMAIN args |->
                                  IF (SyscallRegs[k] \in ToSet(Scratch)) = borrowed
                                  THEN <<Move(SyscallRegs[k], args[k])>> ELSE <<>>]
<1>1. ASSUME NEW borrowed \in BOOLEAN PROVE FlattenSeq(pieces(borrowed)) \in Seq(Instr)
  <2>1. ASSUME NEW k \in DOMAIN args PROVE pieces(borrowed)[k] \in Seq(Instr)
    <3>1. SyscallRegs \in Seq(PReg)
      BY RegistersAssumption
    <3>2. SyscallRegs[k] \in PReg /\ args[k] \in Nat
      BY <3>1
    <3>3. Move(SyscallRegs[k], args[k]) \in Instr
      BY <3>2, InstrForms
    <3> QED BY <3>3
  <2>2. pieces(borrowed) \in Seq(Seq(Instr))
    <3>1. pieces(borrowed) = [k \in 1..Len(args) |-> pieces(borrowed)[k]] /\ DOMAIN args = 1..Len(args)
      OBVIOUS
    <3>2. pieces(borrowed) \in [1..Len(args) -> Seq(Instr)]
      <4> HIDE DEF pieces
      <4> QED BY <2>1, <3>1
    <3> HIDE DEF pieces
    <3> QED BY <3>2
  <2> HIDE DEF pieces
  <2> QED BY <2>2, FlattenTyped
<1>2. SyscallMoves(args) = FlattenSeq(pieces(FALSE)) \o FlattenSeq(pieces(TRUE))
  BY DEF SyscallMoves
<1>3. FlattenSeq(pieces(FALSE)) \in Seq(Instr) /\ FlattenSeq(pieces(TRUE)) \in Seq(Instr)
  BY <1>1
<1> HIDE DEF pieces
<1> DEFINE before == FlattenSeq(pieces(FALSE))
           behind == FlattenSeq(pieces(TRUE))
<1>4. SyscallMoves(args) = before \o behind /\ before \in Seq(Instr) /\ behind \in Seq(Instr)
  BY <1>2, <1>3
<1> HIDE DEF before, behind
<1> QED BY <1>4

LEMMA LowerTyped ==
  ASSUME NEW o \in Operation, Takes(o)
  PROVE  Lower(o) \in Seq(Instr)
<1>1. /\ o.d \in PReg \union Nat /\ o.args \in Seq(Nat)
      /\ \A k \in DOMAIN o.args : o.args[k] \in PReg \union Nat
      /\ RetReg \in PReg \union Nat /\ CountReg \in PReg \union Nat
      /\ o.op \in {"const", "bin", "select", "shift", "xadd", "cmpxchg", "call", "syscall", "wide"}
  BY RegistersAssumption DEF Operation
<1>2. /\ o.op \in {"bin", "shift", "xadd"} => {1, 2} \subseteq DOMAIN o.args
      /\ o.op \in {"select", "cmpxchg"} => {1, 2, 3} \subseteq DOMAIN o.args
  BY <1>1 DEF Takes
<1>3. CASE o.op \in {"const", "bin", "xadd"}
  <2>1. CASE o.op = "const"
    <3>1. Lower(o) = <<Plain(<<Def(o.d)>>)>>
      BY <2>1 DEF Lower
    <3>2. <<Def(o.d)>> \in Seq(Operand)
      BY <1>1, InstrForms
    <3>3. Plain(<<Def(o.d)>>) \in Instr
      BY <3>2, InstrForms
    <3> QED BY <3>1, <3>3
  <2>2. CASE o.op = "bin"
    <3>1. Lower(o) = <<Inst(<<Def(o.d), Use(o.args[1]), Use(o.args[2])>>, FALSE, {2, 3}, {})>>
      BY <2>2 DEF Lower
    <3>2. <<Def(o.d), Use(o.args[1]), Use(o.args[2])>> \in Seq(Operand)
      BY <2>2, <1>1, <1>2, InstrForms
    <3>3. {2, 3} \in SUBSET Nat /\ {} \in SUBSET Nat /\ FALSE \in BOOLEAN
      OBVIOUS
    <3>4. Inst(<<Def(o.d), Use(o.args[1]), Use(o.args[2])>>, FALSE, {2, 3}, {}) \in Instr
      BY <3>2, <3>3, InstTyped, Zenon
    <3> QED BY <3>1, <3>4, ShortSeqs, Zenon
  <2>3. CASE o.op = "xadd"
    <3>1. Lower(o) = <<Inst(<<Def(o.d), Use(o.args[1]), Use(o.args[2])>>, FALSE, {}, {2})>>
      BY <2>3 DEF Lower
    <3>2. <<Def(o.d), Use(o.args[1]), Use(o.args[2])>> \in Seq(Operand)
      BY <2>3, <1>1, <1>2, InstrForms
    <3>3. {2} \in SUBSET Nat /\ {} \in SUBSET Nat /\ FALSE \in BOOLEAN
      OBVIOUS
    <3>4. Inst(<<Def(o.d), Use(o.args[1]), Use(o.args[2])>>, FALSE, {}, {2}) \in Instr
      BY <3>2, <3>3, InstTyped, Zenon
    <3> QED BY <3>1, <3>4, ShortSeqs, Zenon
  <2> QED BY <1>3, <2>1, <2>2, <2>3
<1>4. CASE o.op = "select"
  <2>1. Lower(o) = <<Move(o.d, o.args[3]), Plain(<<Use(o.args[1])>>),
                     Inst(<<Def(o.d), Use(o.d), Use(o.args[2])>>, FALSE, {}, {3})>>
    BY <1>4 DEF Lower
  <2>2. <<Use(o.args[1])>> \in Seq(Operand) /\ <<Def(o.d), Use(o.d), Use(o.args[2])>> \in Seq(Operand)
    BY <1>4, <1>1, <1>2, InstrForms
  <2>3. Move(o.d, o.args[3]) \in Instr
    BY <1>4, <1>1, <1>2, InstrForms
  <2>4. {3} \in SUBSET Nat /\ {} \in SUBSET Nat /\ FALSE \in BOOLEAN
    OBVIOUS
  <2>5. Inst(<<Def(o.d), Use(o.d), Use(o.args[2])>>, FALSE, {}, {3}) \in Instr
    BY <2>2, <2>4, InstTyped, Zenon
  <2>6. Plain(<<Use(o.args[1])>>) \in Instr
    BY <2>2, InstrForms
  <2> QED BY <2>1, <2>3, <2>5, <2>6, ShortSeqs, Zenon
<1>5. CASE o.op = "shift"
  <2>1. Lower(o) = <<Move(CountReg, o.args[2]),
                     Inst(<<Def(o.d), Use(o.args[1]), Use(CountReg)>>, FALSE, {2}, {3})>>
    BY <1>5 DEF Lower
  <2>2. <<Def(o.d), Use(o.args[1]), Use(CountReg)>> \in Seq(Operand)
    BY <1>5, <1>1, <1>2, InstrForms
  <2>3. Move(CountReg, o.args[2]) \in Instr
    BY <1>5, <1>1, <1>2, InstrForms
  <2>4. {2} \in SUBSET Nat /\ {3} \in SUBSET Nat /\ FALSE \in BOOLEAN
    OBVIOUS
  <2>5. Inst(<<Def(o.d), Use(o.args[1]), Use(CountReg)>>, FALSE, {2}, {3}) \in Instr
    BY <2>2, <2>4, InstTyped, Zenon
  <2> QED BY <2>1, <2>3, <2>5, ShortSeqs, Zenon
<1>6. CASE o.op = "cmpxchg"
  <2>1. Lower(o) = <<Move(RetReg, o.args[2]),
                     Plain(<<Def(RetReg), Use(RetReg), Use(o.args[1]), Use(o.args[3])>>),
                     Move(o.d, RetReg)>>
    BY <1>6 DEF Lower
  <2>2. <<Def(RetReg), Use(RetReg), Use(o.args[1]), Use(o.args[3])>> \in Seq(Operand)
    BY <1>6, <1>1, <1>2, InstrForms
  <2>3. Move(RetReg, o.args[2]) \in Instr /\ Move(o.d, RetReg) \in Instr
    BY <1>6, <1>1, <1>2, InstrForms
  <2>4. Plain(<<Def(RetReg), Use(RetReg), Use(o.args[1]), Use(o.args[3])>>) \in Instr
    BY <2>2, InstrForms
  <2> QED BY <2>1, <2>3, <2>4
<1>7. CASE o.op = "call"
  <2> DEFINE moved == [k \in DOMAIN o.args |-> Move(ArgRegs[k], o.args[k])]
             used == [k \in DOMAIN o.args |-> Use(ArgRegs[k])]
  <2>1. Lower(o) = moved \o <<Plain(<<Def(RetReg)>> \o Clobbers \o used), Move(o.d, RetReg)>>
    BY <1>7 DEF Lower
  <2>2. ASSUME NEW k \in DOMAIN o.args
        PROVE  Move(ArgRegs[k], o.args[k]) \in Instr /\ Use(ArgRegs[k]) \in Operand
    <3>1. ArgRegs \in Seq(PReg) /\ Len(o.args) <= Len(ArgRegs)
      BY <1>7, RegistersAssumption DEF Takes
    <3>2. ArgRegs[k] \in PReg
      BY <3>1, <1>1
    <3> QED BY <3>2, <1>1, InstrForms
  <2>3. moved \in Seq(Instr) /\ used \in Seq(Operand)
    BY <1>1, <2>2
  <2> HIDE DEF moved, used
  <2>4. <<Def(RetReg)>> \in Seq(Operand) /\ Move(o.d, RetReg) \in Instr
    BY <1>1, InstrForms
  <2>5. Plain(<<Def(RetReg)>> \o Clobbers \o used) \in Instr
    <3>1. <<Def(RetReg)>> \o Clobbers \o used \in Seq(Operand)
      BY <2>3, <2>4, ClobbersTyped
    <3> QED BY <3>1, InstrForms
  <2> QED BY <2>1, <2>3, <2>4, <2>5
<1>8. CASE o.op = "syscall"
  <2> DEFINE clobbered == [k \in DOMAIN SyscallClobbers |-> Def(SyscallClobbers[k])]
             used == [k \in DOMAIN o.args |-> Use(SyscallRegs[k])]
  <2>1. Lower(o) = SyscallMoves(o.args)
                     \o <<Plain(<<Def(RetReg)>> \o clobbered \o used), Move(o.d, RetReg)>>
    BY <1>8 DEF Lower
  <2>2. Len(o.args) <= Len(SyscallRegs) /\ SyscallRegs \in Seq(PReg) /\ SyscallClobbers \in Seq(PReg)
    BY <1>8, RegistersAssumption DEF Takes
  <2>3. ASSUME NEW k \in DOMAIN o.args PROVE Use(SyscallRegs[k]) \in Operand
    <3>1. SyscallRegs[k] \in PReg
      BY <1>1, <2>2
    <3> QED BY <3>1, InstrForms
  <2>4. ASSUME NEW k \in DOMAIN SyscallClobbers PROVE Def(SyscallClobbers[k]) \in Operand
    BY <2>2, InstrForms
  <2>5. clobbered \in Seq(Operand) /\ used \in Seq(Operand)
    <3>1. clobbered \in Seq(Operand)
      BY <2>2, <2>4
    <3>2. DOMAIN o.args = 1..Len(o.args) /\ Len(o.args) \in Nat
      BY <1>1
    <3>3. used \in [1..Len(o.args) -> Operand]
      BY <3>2, <2>3
    <3>4. used \in Seq(Operand)
      <4> HIDE DEF used
      <4> QED BY <3>2, <3>3
    <3> QED BY <3>1, <3>4
  <2> HIDE DEF clobbered, used
  <2>6. <<Def(RetReg)>> \in Seq(Operand) /\ Move(o.d, RetReg) \in Instr
    BY <1>1, InstrForms
  <2>7. Plain(<<Def(RetReg)>> \o clobbered \o used) \in Instr
    <3>1. <<Def(RetReg)>> \o clobbered \o used \in Seq(Operand)
      BY <2>5, <2>6
    <3> QED BY <3>1, InstrForms
  <2>8. SyscallMoves(o.args) \in Seq(Instr)
    BY <1>1, <2>2, SyscallMovesTyped
  <2> QED BY <2>1, <2>6, <2>7, <2>8
<1>9. CASE o.op = "wide"
  <2> DEFINE used == [k \in DOMAIN o.args |-> Use(o.args[k])]
  <2>1. Lower(o) = <<Plain(<<Def(o.d)>> \o used)>>
    BY <1>9 DEF Lower
  <2>2. \A k \in DOMAIN o.args : Use(o.args[k]) \in Operand
    BY <1>1, InstrForms
  <2>3. used \in Seq(Operand)
    BY <1>1, <2>2
  <2> HIDE DEF used
  <2>4. <<Def(o.d)>> \o used \in Seq(Operand)
    BY <2>3, <1>1, InstrForms
  <2>5. Plain(<<Def(o.d)>> \o used) \in Instr
    BY <2>4, InstrForms
  <2> QED BY <2>1, <2>5
<1> QED BY <1>1, <1>3, <1>4, <1>5, <1>6, <1>7, <1>8, <1>9

LEMMA TerminatorTyped ==
  ASSUME NEW b \in SourceBlock
  PROVE  Terminator(b) \in Seq(Instr) /\ Len(Terminator(b)) # 0
<1>1. /\ b.uses \in Seq(Nat) /\ DOMAIN b.uses = 1..Len(b.uses) /\ Len(b.uses) \in Nat
      /\ RetReg \in PReg \union Nat
  BY RegistersAssumption DEF SourceBlock
<1> DEFINE n == Len(b.uses)
           moved == [k \in DOMAIN b.uses |-> Move(RetReg, b.uses[k])]
           results == [k \in DOMAIN b.uses |-> Use(RetReg)]
           read == [k \in DOMAIN b.uses |-> Use(b.uses[k])]
<1>2. moved \in [1..n -> Instr] /\ results \in [1..n -> Operand] /\ read \in [1..n -> Operand]
  <2>1. ASSUME NEW k \in 1..n
        PROVE  Move(RetReg, b.uses[k]) \in Instr /\ Use(RetReg) \in Operand /\ Use(b.uses[k]) \in Operand
    BY <1>1, InstrForms
  <2> QED BY <1>1, <2>1
<1>3. Terminator(b) = IF b.edges = <<>> THEN moved \o <<Plain(results)>> ELSE <<Plain(read)>>
  BY DEF Terminator
<1>4. n \in Nat
  BY <1>1
<1> HIDE DEF n, moved, results, read
<1>5. moved \in Seq(Instr) /\ results \in Seq(Operand) /\ read \in Seq(Operand)
  <2>1. moved \in Seq(Instr)
    BY <1>2, <1>4
  <2>2. results \in Seq(Operand) /\ read \in Seq(Operand)
    BY <1>2, <1>4
  <2> QED BY <2>1, <2>2
<1>6. Plain(results) \in Instr /\ Plain(read) \in Instr
  BY <1>5, InstrForms
<1> QED BY <1>3, <1>5, <1>6

LEMMA LoweredBlock ==
  ASSUME NEW f \in Functions, NEW b \in DOMAIN f.blocks
  PROVE  /\ Lowered(f)[b] \in MachineBlock /\ Len(Lowered(f)[b].insts) # 0
         /\ ToSet(Lowered(f)[b].succ) \subseteq DOMAIN f.blocks
<1> DEFINE sb == f.blocks[b]
           begin == IF b = 1 THEN Prologue(f.blocks[1].params) ELSE <<>>
           pieces == [k \in DOMAIN sb.body |-> Lower(sb.body[k])]
           succ == [e \in DOMAIN sb.edges |-> sb.edges[e].to]
<1>1. WellFormed(f)
  BY FunctionsAssumption
<1>2. f.blocks \in Seq(SourceBlock) /\ sb \in SourceBlock
  <2> DEFINE blocks == f.blocks
  <2>1. blocks \in Seq(SourceBlock)
    BY <1>1 DEF WellFormed
  <2>2. b \in DOMAIN blocks
    OBVIOUS
  <2> HIDE DEF blocks
  <2>3. blocks[b] \in SourceBlock
    BY <2>1, <2>2
  <2> QED BY <2>1, <2>3 DEF blocks
<1>3. /\ sb.body \in Seq(Operation) /\ sb.edges \in Seq(SourceEdge)
      /\ DOMAIN sb.body = 1..Len(sb.body) /\ Len(sb.body) \in Nat
      /\ DOMAIN sb.edges = 1..Len(sb.edges) /\ Len(sb.edges) \in Nat
  BY <1>2, SMTT(20) DEF SourceBlock
<1>4. Lowered(f)[b] = [insts |-> begin \o FlattenSeq(pieces) \o Terminator(sb), succ |-> succ]
  BY DEF Lowered
<1>5. begin \in Seq(Instr)
  <2>1. CASE b = 1
    <3> DEFINE params == f.blocks[1].params
               moved == [k \in DOMAIN params |-> Move(params[k], ArgRegs[k])]
    <3>1. /\ params \in Seq(Nat) /\ DOMAIN params = 1..Len(params) /\ Len(params) \in Nat
          /\ Len(params) <= Len(ArgRegs) /\ ArgRegs \in Seq(PReg)
      <4>1. f.blocks[1] \in SourceBlock
        BY <2>1, <1>2
      <4>2. params \in Seq(Nat)
        BY <4>1, SMTT(20) DEF SourceBlock
      <4>3. Len(params) <= Len(ArgRegs)
        BY <1>1 DEF WellFormed
      <4>4. ArgRegs \in Seq(PReg)
        BY RegistersAssumption
      <4> HIDE DEF params
      <4> QED BY <4>2, <4>3, <4>4
    <3>2. ASSUME NEW k \in 1..Len(params) PROVE Move(params[k], ArgRegs[k]) \in Instr
      <4>1. params[k] \in Nat /\ ArgRegs[k] \in PReg
        BY <3>1
      <4> QED BY <4>1, InstrForms
    <3>3. moved \in [1..Len(params) -> Instr]
      BY <3>1, <3>2
    <3>4. begin = moved
      BY <2>1 DEF Prologue
    <3> HIDE DEF moved, params
    <3>5. moved \in Seq(Instr)
      BY <3>1, <3>3
    <3> QED BY <3>4, <3>5
  <2>2. CASE b # 1
    BY <2>2
  <2> QED BY <2>1, <2>2
<1>6. FlattenSeq(pieces) \in Seq(Instr)
  <2>1. ASSUME NEW k \in 1..Len(sb.body) PROVE Lower(sb.body[k]) \in Seq(Instr)
    <3>1. sb.body[k] \in Operation /\ sb.body[k] \in ToSet(sb.body)
      BY <1>3 DEF ToSet
    <3>2. Takes(sb.body[k])
      BY <1>1, <3>1 DEF WellFormed
    <3> QED BY <3>1, <3>2, LowerTyped
  <2>2. pieces \in [1..Len(sb.body) -> Seq(Instr)]
    BY <1>3, <2>1
  <2> HIDE DEF pieces
  <2>3. pieces \in Seq(Seq(Instr))
    BY <1>3, <2>2
  <2> QED BY <2>3, FlattenTyped
<1>7. Terminator(sb) \in Seq(Instr) /\ Len(Terminator(sb)) # 0
  BY <1>2, TerminatorTyped
<1>8. \A e \in 1..Len(sb.edges) : sb.edges[e].to \in Nat /\ sb.edges[e].to \in DOMAIN f.blocks
  <2>1. \A e \in 1..Len(sb.edges) : sb.edges[e] \in SourceEdge
    BY <1>3
  <2>2. \A e \in DOMAIN sb.edges : sb.edges[e].to \in DOMAIN f.blocks
    BY <1>1 DEF WellFormed
  <2> QED BY <1>3, <2>1, <2>2 DEF SourceEdge
<1>9. succ \in [1..Len(sb.edges) -> Nat] /\ ToSet(succ) \subseteq DOMAIN f.blocks
  BY <1>3, <1>8 DEF ToSet
<1> DEFINE flat == FlattenSeq(pieces)
           end == Terminator(sb)
<1>10. succ \in Seq(Nat)
  <2> HIDE DEF succ
  <2> QED BY <1>3, <1>9
<1> HIDE DEF begin, flat, end, succ
<1>11. begin \o flat \o end \in Seq(Instr) /\ Len(begin \o flat \o end) # 0
  BY <1>5, <1>6, <1>7 DEF flat, end
<1>12. Lowered(f)[b] = [insts |-> begin \o flat \o end, succ |-> succ]
  BY <1>4 DEF flat, end
<1> QED BY <1>9, <1>10, <1>11, <1>12 DEF MachineBlock

LEMMA LoweredShape ==
  ASSUME NEW f \in Functions
  PROVE  CodeShape(Lowered(f)) /\ Len(Lowered(f)) = Len(f.blocks)
<1>1. f.blocks \in Seq(SourceBlock) /\ Len(f.blocks) # 0
  <2>1. f.blocks \in Seq(SourceBlock) /\ f.blocks # <<>>
    BY FunctionsAssumption DEF WellFormed
  <2> DEFINE bs == f.blocks
  <2>2. bs \in Seq(SourceBlock) /\ bs # <<>>
    BY <2>1
  <2> HIDE DEF bs
  <2>3. Len(bs) # 0
    BY <2>2
  <2> QED BY <2>1, <2>3 DEF bs
<1>2. DOMAIN f.blocks = 1..Len(f.blocks) /\ Len(f.blocks) \in Nat
  BY <1>1
<1> DEFINE L == Lowered(f)
<1>3. DOMAIN L = DOMAIN f.blocks /\ L = [b \in DOMAIN L |-> L[b]]
  BY DEF Lowered
<1>4. \A b \in DOMAIN f.blocks : L[b] \in MachineBlock
  BY LoweredBlock
<1> HIDE DEF L
<1>5. L \in [1..Len(f.blocks) -> MachineBlock]
  BY <1>2, <1>3, <1>4
<1>6. L \in Seq(MachineBlock) /\ Len(L) = Len(f.blocks)
  BY <1>2, <1>5
<1>7. \A b \in DOMAIN L : Len(L[b].insts) # 0 /\ ToSet(L[b].succ) \subseteq DOMAIN L
  BY <1>3, LoweredBlock DEF L
<1> QED BY <1>1, <1>6, <1>7 DEF CodeShape, L

LEMMA EdgeBlockTyped ==
  ASSUME CopyShape, NEW to \in Nat
  PROVE  /\ EdgeBlock(to) \in MachineBlock /\ Len(EdgeBlock(to).insts) # 0
         /\ EdgeBlock(to).succ = <<to>>
<1> DEFINE moved == [k \in DOMAIN moves |-> IF moves[k].src = Imm THEN Plain(<<Def(moves[k].dst)>>)
                                            ELSE Move(moves[k].dst, moves[k].src)]
<1>1. /\ moves \in Seq([dst : Nat, src : Nat \union {Imm}])
      /\ DOMAIN moves = 1..Len(moves) /\ Len(moves) \in Nat
  BY DEF CopyShape
<1>2. ASSUME NEW k \in 1..Len(moves) PROVE moved[k] \in Instr
  <2>1. moves[k].dst \in Nat /\ moves[k].src \in Nat \union {Imm}
    <3>1. moves[k] \in [dst : Nat, src : Nat \union {Imm}]
      BY <1>1, SeqItems, Zenon
    <3> QED BY <3>1
  <2>2. <<Def(moves[k].dst)>> \in Seq(Operand)
    BY <2>1, InstrForms
  <2>3. Plain(<<Def(moves[k].dst)>>) \in Instr
    BY <2>2, InstrForms
  <2>4. moves[k].src # Imm => Move(moves[k].dst, moves[k].src) \in Instr
    BY <2>1, InstrForms
  <2> QED BY <1>1, <2>3, <2>4
<1>3. moved \in [1..Len(moves) -> Instr]
  BY <1>1, <1>2
<1>4. EdgeBlock(to) = [insts |-> moved \o <<Jump>>, succ |-> <<to>>]
  BY DEF EdgeBlock
<1>5. Jump \in Instr
  <2>1. <<>> \in Seq(Operand)
    OBVIOUS
  <2> QED BY <2>1, InstrForms DEF Jump
<1> HIDE DEF moved
<1>6. moved \in Seq(Instr)
  BY <1>1, <1>3
<1>7. moved \o <<Jump>> \in Seq(Instr) /\ Len(moved \o <<Jump>>) # 0 /\ <<to>> \in Seq(Nat)
  BY <1>5, <1>6
<1> QED BY <1>4, <1>7 DEF MachineBlock

(* An edge that was split leads to its block by way of a new one.            *)
LEMMA EdgeFinished ==
  ASSUME CopyInv, CodeInv, FinishEdge, edges # {}
  PROVE  CodeInv'
<1> DEFINE e == NextEdge
           n == Len(code)
           mid == [code EXCEPT ![e[1]].succ[e[2]] = n + 1]
           new == EdgeBlock(EdgeOf(e).to)
<1>1. code' = Append(mid, new) /\ fn' = fn
  BY DEF FinishEdge
<1>2. /\ code \in Seq(MachineBlock) /\ n \in Nat /\ n # 0 /\ DOMAIN code = 1..n
      /\ \A b \in 1..n : /\ code[b] \in MachineBlock /\ Len(code[b].insts) # 0
                         /\ ToSet(code[b].succ) \subseteq 1..n
  BY DEF CodeInv, CodeShape
<1>3. e \in Splits(fn) /\ WellFormed(fn) /\ fn \in Functions
  BY NextEdgeFound, FunctionsAssumption DEF CopyInv, CopyState
<1>4. PICK b \in DOMAIN fn.blocks : \E k \in DOMAIN fn.blocks[b].edges : e = <<b, k>>
  BY <1>3 DEF Splits
<1>5. PICK k \in DOMAIN fn.blocks[b].edges : e = <<b, k>>
  BY <1>4
<1>6. EdgeOf(e).to \in DOMAIN fn.blocks
  BY <1>3, <1>5 DEF WellFormed, EdgeOf
<1>7. DOMAIN fn.blocks \subseteq 1..n
  <2>1. fn.blocks \in Seq(SourceBlock) /\ Len(fn.blocks) <= n
    BY <1>3 DEF WellFormed, CodeInv
  <2> QED BY <2>1, <1>2
<1>8. new \in MachineBlock /\ Len(new.insts) # 0 /\ new.succ = <<EdgeOf(e).to>>
  <2>1. EdgeOf(e).to \in Nat
    BY <1>6, <1>7
  <2> QED BY <2>1, EdgeBlockTyped DEF CopyInv
<1> DEFINE to == EdgeOf(e).to
<1> HIDE DEF e, n, new, to
<1>9. mid = [code EXCEPT ![b] = [code[b] EXCEPT !.succ = [code[b].succ EXCEPT ![k] = n + 1]]]
  BY <1>5
<1> DEFINE succ == [code[b].succ EXCEPT ![k] = n + 1]
<1>10. succ \in Seq(Nat) /\ ToSet(succ) \subseteq 1..(n + 1)
  <2>1. code[b].succ \in Seq(Nat) /\ ToSet(code[b].succ) \subseteq 1..n
    BY <1>2, <1>7 DEF MachineBlock
  <2>2. succ \in Seq(Nat) /\ DOMAIN succ = DOMAIN code[b].succ
    <3> DEFINE s == code[b].succ
    <3>1. s \in Seq(Nat) /\ n + 1 \in Nat
      BY <2>1, <1>2
    <3> HIDE DEF s
    <3>2. [s EXCEPT ![k] = n + 1] \in Seq(Nat) /\ DOMAIN [s EXCEPT ![k] = n + 1] = DOMAIN s
      BY <3>1, SeqItems, Zenon
    <3> QED BY <3>2 DEF s
  <2>3. ASSUME NEW j \in DOMAIN succ PROVE succ[j] \in 1..(n + 1)
    <3>1. code[b].succ[j] \in 1..n
      BY <2>1, <2>2 DEF ToSet
    <3> QED BY <3>1, <2>1, <2>2, <1>2
  <2> QED BY <2>2, <2>3 DEF ToSet
<1> HIDE DEF succ
<1>11. /\ mid \in Seq(MachineBlock) /\ Len(mid) = n
       /\ \A x \in 1..n : /\ mid[x] \in MachineBlock /\ Len(mid[x].insts) # 0
                          /\ ToSet(mid[x].succ) \subseteq 1..(n + 1)
  <2>1. mid = [code EXCEPT ![b] = [code[b] EXCEPT !.succ = succ]]
    BY <1>9 DEF succ
  <2>2. [code[b] EXCEPT !.succ = succ] \in MachineBlock
        /\ [code[b] EXCEPT !.succ = succ].insts = code[b].insts
        /\ [code[b] EXCEPT !.succ = succ].succ = succ
    BY <1>2, <1>7, <1>10 DEF MachineBlock
  <2> DEFINE nb == [code[b] EXCEPT !.succ = succ]
  <2> HIDE DEF mid, nb
  <2>3. nb \in MachineBlock /\ mid = [code EXCEPT ![b] = nb]
    BY <2>1, <2>2 DEF nb
  <2>4. mid \in [1..n -> MachineBlock] /\ \A x \in 1..n : mid[x] = IF x = b THEN nb ELSE code[x]
    BY <1>2, <2>3
  <2>5. /\ mid \in Seq(MachineBlock) /\ Len(mid) = n
        /\ \A x \in 1..n : mid[x] = IF x = b THEN [code[b] EXCEPT !.succ = succ] ELSE code[x]
    BY <1>2, <2>4 DEF nb
  <2>6. \A x \in 1..n : ToSet(code[x].succ) \subseteq 1..(n + 1)
    BY <1>2
  <2> QED BY <1>2, <1>7, <1>10, <2>2, <2>5, <2>6
<1> HIDE DEF mid
<1>12. /\ code' \in Seq(MachineBlock) /\ Len(code') = n + 1 /\ code'[n + 1] = new
       /\ \A x \in 1..n : code'[x] = mid[x]
  BY <1>1, <1>2, <1>8, <1>11
<1>13. ToSet(new.succ) \subseteq 1..(n + 1)
  <2>1. to \in 1..n /\ new.succ = <<to>>
    BY <1>6, <1>7, <1>8 DEF to
  <2> QED BY <2>1, <1>2 DEF ToSet
<1>14. CodeShape(code')
  <2>1. DOMAIN code' = 1..(n + 1)
    BY <1>2, <1>12
  <2>2. ASSUME NEW x \in 1..(n + 1)
        PROVE  Len(code'[x].insts) # 0 /\ ToSet(code'[x].succ) \subseteq 1..(n + 1)
    <3>1. x \in 1..n \/ x = n + 1
      BY <1>2
    <3> QED BY <3>1, <1>8, <1>11, <1>12, <1>13
  <2>3. Len(code') # 0
    BY <1>2, <1>12
  <2> QED BY <1>12, <2>1, <2>2, <2>3 DEF CodeShape
<1>15. Len(fn.blocks) <= n + 1
  <2>1. fn.blocks \in Seq(SourceBlock) /\ Len(fn.blocks) <= n
    BY <1>3 DEF WellFormed, CodeInv, n
  <2> QED BY <2>1, <1>2
<1>16. phase' # "copy"
  BY DEF FinishEdge
<1> QED BY <1>1, <1>3, <1>12, <1>14, <1>15, <1>16 DEF CodeInv

LEMMA CodeInit == Init => CodeInv
<1> SUFFICES ASSUME Init PROVE CodeInv
  OBVIOUS
<1>1. PICK f \in Functions : Select(f)
  BY DEF Init
<1>2. fn = f /\ code = Lowered(f) /\ phase = "select"
  BY <1>1 DEF Init, Select
<1>3. CodeShape(Lowered(f)) /\ Len(Lowered(f)) = Len(f.blocks) /\ Len(f.blocks) \in Nat
  <2>1. f.blocks \in Seq(SourceBlock)
    BY FunctionsAssumption DEF WellFormed
  <2> QED BY <2>1, LoweredShape
<1> QED BY <1>2, <1>3 DEF CodeInv

LEMMA CodeNext == CodeInv /\ CopyInv /\ [Next]_vars => CodeInv'
<1> SUFFICES ASSUME CodeInv, CopyInv, [Next]_vars PROVE CodeInv'
  OBVIOUS
<1>1. CASE SplitEdge
  BY <1>1 DEF SplitEdge, CodeInv
<1>2. CASE CopyStep
  BY <1>2 DEF CopyStep, CodeInv
<1>3. CASE FinishEdge
  BY <1>3, EdgeFinished DEF FinishEdge, CodeInv
<1>4. CASE StartScan \/ Scan \/ Rewrite \/ RewritePanics \/ Execute \/ Return
  BY <1>4 DEF StartScan, Scan, Rewrite, RewritePanics, Execute, Return, CodeInv
<1>5. CASE Over \/ UNCHANGED vars
  BY <1>5 DEF Over, vars, CodeInv
<1> QED BY <1>1, <1>2, <1>3, <1>4, <1>5 DEF Next

LEMMA CodeInvariant == Spec => []CodeInv
BY CodeInit, CodeNext, CopyInvariant, PTL DEF Spec

-----------------------------------------------------------------------------
(* Liveness *)

(* The points are numbered from 1, and each block has a stretch of them.     *)
Numbered(m) ==
  /\ \E n \in Nat : Points(m) = 1..n
  /\ \A b \in DOMAIN m.blocks : /\ m.blocks[b].first \in Points(m)
                                /\ m.blocks[b].last \in Points(m)
                                /\ m.blocks[b].first <= m.blocks[b].last

(* In whatever order the blocks are laid out, each gets points of its own.   *)
LEMMA LaidNumbered ==
  ASSUME NEW blocks, CodeShape(blocks), NEW precise, NEW order \in Orders(blocks, precise)
  PROVE  Numbered(Laid(blocks, order, precise))
<1> DEFINE N == Len(blocks)
           piece == [k \in 1..N |-> blocks[order[k]].insts]
           Upto(j) == FlattenSeq([k \in 1..j |-> blocks[order[k]].insts])
           Position(b) == CHOOSE k \in DOMAIN order : order[k] = b
           L == Laid(blocks, order, precise)
<1>1. /\ blocks \in Seq(MachineBlock) /\ N \in Nat /\ DOMAIN blocks = 1..N
      /\ order \in [1..N -> 1..N] /\ DOMAIN order = 1..N
      /\ \A b \in 1..N : \E k \in 1..N : order[k] = b
  <2>1. blocks \in Seq(MachineBlock) /\ N \in Nat /\ DOMAIN blocks = 1..N
    BY DEF CodeShape
  <2>2. /\ order \in [DOMAIN blocks -> DOMAIN blocks]
        /\ \A b \in DOMAIN blocks : \E k \in DOMAIN order : order[k] = b
    BY DEF Orders
  <2> HIDE DEF N
  <2> QED BY <2>1, <2>2
<1>2. \A k \in 1..N : /\ piece[k] \in Seq(Instr) /\ Len(piece[k]) \in Nat \ {0}
                      /\ piece[k] = blocks[order[k]].insts
  <2>1. \A b \in 1..N : blocks[b] \in MachineBlock /\ Len(blocks[b].insts) # 0
    BY <1>1, SeqItems DEF CodeShape
  <2>2. \A b \in 1..N : blocks[b].insts \in Seq(Instr) /\ Len(blocks[b].insts) \in Nat \ {0}
    BY <2>1 DEF MachineBlock
  <2> QED BY <2>2, <1>1
<1>3. \A j \in 0..N : [k \in 1..j |-> blocks[order[k]].insts] = [k \in 1..j |-> piece[k]]
  BY <1>1, <1>2, SMTT(20)
<1>4. /\ L.insts = Upto(N)
      /\ DOMAIN L.blocks = 1..N
      /\ \A b \in 1..N : /\ L.blocks[b].first = Len(Upto(Position(b) - 1)) + 1
                         /\ L.blocks[b].last = Len(Upto(Position(b) - 1)) + Len(blocks[b].insts)
  BY <1>1 DEF Laid
<1>5. \A b \in 1..N : Position(b) \in 1..N /\ order[Position(b)] = b
  BY <1>1
<1> DEFINE flat == [j \in 0..N |-> FlattenSeq([k \in 1..j |-> piece[k]])]
<1>6. \A j \in 0..N : Upto(j) = flat[j]
  BY <1>3
<1> HIDE DEF piece, Upto, Position, L
<1>7. ASSUME NEW j \in 0..N PROVE flat[j] \in Seq(Instr)
  <2> DEFINE front == [k \in 1..j |-> piece[k]]
  <2>1. front \in [1..j -> Seq(Instr)] /\ j \in Nat
    BY <1>1, <1>2, SMTT(20)
  <2>2. flat[j] = FlattenSeq(front)
    OBVIOUS
  <2> HIDE DEF front, flat
  <2>3. front \in Seq(Seq(Instr))
    BY <2>1
  <2> QED BY <2>2, <2>3, FlattenTyped
<1>8. ASSUME NEW j \in Nat, j + 1 \in 1..N
      PROVE  Len(flat[j + 1]) = Len(flat[j]) + Len(piece[j + 1])
  <2> DEFINE f == [k \in 1..(j + 1) |-> piece[k]]
             front == [k \in 1..j |-> piece[k]]
  <2>1. f \in [1..(j + 1) -> Seq(Instr)] /\ j \in 0..N /\ j + 1 \in 0..N
    BY <1>1, <1>2, <1>8
  <2>2. flat[j + 1] = FlattenSeq(f) /\ flat[j] = FlattenSeq(front)
    BY <2>1
  <2>3. front = [k \in 1..j |-> f[k]] /\ f[j + 1] = piece[j + 1]
    BY <2>1
  <2> HIDE DEF f, front, flat
  <2>4. FlattenSeq(f) = FlattenSeq([k \in 1..j |-> f[k]]) \o f[j + 1]
    BY <2>1, FlattenNext
  <2>5. flat[j + 1] = flat[j] \o piece[j + 1]
    BY <2>2, <2>3, <2>4
  <2>6. flat[j] \in Seq(Instr) /\ piece[j + 1] \in Seq(Instr)
    BY <2>1, <1>2, <1>7, <1>8
  <2> QED BY <2>5, <2>6
<1> HIDE DEF flat
<1>9. \A j \in 0..N : Len(flat[j]) \in Nat
  BY <1>7
<1>10. \A j \in 0..N : Len(flat[j]) <= Len(flat[N])
  <2> DEFINE T == {d \in Nat : d <= N => Len(flat[N - d]) <= Len(flat[N])}
  <2>1. 0 \in T
    BY <1>1, <1>9
  <2>2. ASSUME NEW d \in Nat, d \in T PROVE d + 1 \in T
    <3> SUFFICES ASSUME d + 1 <= N PROVE Len(flat[N - (d + 1)]) <= Len(flat[N])
      OBVIOUS
    <3> DEFINE j == N - (d + 1)
    <3>1. j \in Nat /\ j + 1 \in 1..N /\ j + 1 = N - d /\ j \in 0..N
      BY <1>1
    <3>2. Len(flat[N - d]) <= Len(flat[N])
      BY <2>2, <1>1
    <3> HIDE DEF j
    <3>3. Len(flat[j + 1]) = Len(flat[j]) + Len(piece[j + 1]) /\ Len(piece[j + 1]) \in Nat
      BY <3>1, <1>2, <1>8
    <3>4. Len(flat[j]) \in Nat /\ Len(flat[j + 1]) \in Nat /\ Len(flat[N]) \in Nat
      BY <3>1, <1>1, <1>9
    <3>5. Len(flat[j + 1]) <= Len(flat[N])
      BY <3>1, <3>2
    <3> DEFINE x == Len(flat[j])
               y == Len(flat[j + 1])
               z == Len(flat[N])
               w == Len(piece[j + 1])
    <3>6. x \in Nat /\ y \in Nat /\ z \in Nat /\ w \in Nat /\ y = x + w /\ y <= z
      BY <3>3, <3>4, <3>5
    <3> HIDE DEF x, y, z, w, T
    <3>7. x <= z
      BY <3>6
    <3> QED BY <3>7 DEF j, x, z
  <2>3. Nat \subseteq T
    <3> HIDE DEF T
    <3> QED BY <2>1, <2>2, NatsIn
  <2> TAKE j \in 0..N
  <2>4. N - j \in T /\ N - j <= N /\ N - (N - j) = j
    <3>1. N - j \in Nat /\ N - j <= N /\ N - (N - j) = j
      BY <1>1
    <3> HIDE DEF T
    <3> QED BY <3>1, <2>3
  <2> QED BY <2>4
<1>11. Points(L) = 1..Len(flat[N]) /\ Len(flat[N]) \in Nat
  <2>1. L.insts = flat[N] /\ flat[N] \in Seq(Instr)
    BY <1>1, <1>4, <1>6, <1>7
  <2> QED BY <2>1 DEF Points
<1>12. ASSUME NEW b \in 1..N
       PROVE  /\ L.blocks[b].first \in Points(L) /\ L.blocks[b].last \in Points(L)
              /\ L.blocks[b].first <= L.blocks[b].last
  <2> DEFINE j == Position(b) - 1
  <2>1. j \in Nat /\ j \in 0..N /\ j + 1 \in 1..N /\ j + 1 \in 0..N /\ order[j + 1] = b
    <3> DEFINE p == Position(b)
    <3>1. p \in 1..N /\ order[p] = b
      BY <1>5
    <3> HIDE DEF p
    <3>2. /\ p - 1 \in Nat /\ p - 1 \in 0..N /\ (p - 1) + 1 = p /\ p \in 0..N
      BY <3>1, <1>1
    <3> QED BY <3>1, <3>2 DEF p
  <2>2. L.blocks[b].first = Len(flat[j]) + 1 /\ L.blocks[b].last = Len(flat[j]) + Len(blocks[b].insts)
    BY <1>4, <1>6, <2>1
  <2> HIDE DEF j
  <2>3. piece[j + 1] = blocks[b].insts /\ Len(piece[j + 1]) \in Nat \ {0}
    BY <1>2, <2>1
  <2>4. Len(flat[j + 1]) = Len(flat[j]) + Len(piece[j + 1])
    BY <1>8, <2>1
  <2>5. /\ Len(flat[j]) \in Nat /\ Len(flat[j + 1]) \in Nat
        /\ Len(flat[j]) <= Len(flat[N]) /\ Len(flat[j + 1]) <= Len(flat[N])
    BY <1>9, <1>10, <2>1
  <2>6. \A x, y, z, w \in Nat : y = x + w /\ w # 0 /\ y <= z =>
          x + 1 \in 1..z /\ x + w \in 1..z /\ x + 1 <= x + w
    OBVIOUS
  <2>7. Len(flat[j]) + 1 \in 1..Len(flat[N]) /\ Len(flat[j]) + Len(blocks[b].insts) \in 1..Len(flat[N])
        /\ Len(flat[j]) + 1 <= Len(flat[j]) + Len(blocks[b].insts)
    BY <2>3, <2>4, <2>5, <2>6, <1>11
  <2> QED BY <2>2, <2>7, <1>11
<1> QED BY <1>4, <1>11, <1>12 DEF Numbered, L

(* Where v is touched, or live at an edge of a block: what its hull spans.   *)
Touching(m, v, in) ==
  DefPoints(m, v) \union UsePoints(m, v)
    \union {m.blocks[b].first : b \in in} \union {m.blocks[b].last : b \in LiveOutOf(m, in)}

LEMMA Extremes ==
  ASSUME NEW n \in Nat, NEW S, S \subseteq 1..n, S # {}
  PROVE  /\ Max(S) \in S /\ \A x \in S : x <= Max(S)
         /\ Min(S) \in S /\ \A x \in S : Min(S) <= x
<1>1. \E x \in S : \A y \in S : y <= x
  <2>1. S \subseteq 0..n
    OBVIOUS
  <2> QED BY <2>1, GreatestNat
<1>2. \E x \in S : \A y \in S : x <= y
  <2>1. S \subseteq Nat
    OBVIOUS
  <2> QED BY <2>1, LeastNat
<1>3. \A x, y \in S : x <= y <=> y >= x
  OBVIOUS
<1>4. Max(S) \in S /\ \A x \in S : Max(S) >= x
  <2>1. \E x \in S : \A y \in S : x >= y
    BY <1>1, <1>3
  <2> QED BY <2>1, Zenon DEF Max
<1>5. Min(S) \in S /\ \A x \in S : Min(S) <= x
  BY <1>2, Zenon DEF Min
<1> QED BY <1>3, <1>4, <1>5

(* The least solution is one.                                                *)
LEMMA LeastSolves ==
  ASSUME NEW m, NEW v
  PROVE  Solves(m, v, LiveInto(m, v)) /\ LiveInto(m, v) \subseteq DOMAIN m.blocks
<1> DEFINE L == LiveInto(m, v)
<1>1. ASSUME NEW in \in SUBSET DOMAIN m.blocks, Solves(m, v, in) PROVE L \subseteq in
  BY <1>1 DEF LiveInto
<1>2. ASSUME NEW b \in DOMAIN m.blocks, Exposed(m, v, b) \/ (b \in LiveOutOf(m, L) /\ ~Written(m, v, b))
      PROVE  b \in L
  <2>1. ASSUME NEW in \in SUBSET DOMAIN m.blocks, Solves(m, v, in) PROVE b \in in
    <3>1. LiveOutOf(m, L) \subseteq LiveOutOf(m, in)
      BY <1>1, <2>1 DEF LiveOutOf
    <3> QED BY <1>2, <2>1, <3>1 DEF Solves
  <2> QED BY <2>1 DEF LiveInto
<1> QED BY <1>2 DEF Solves, LiveInto

LEMMA TouchedPoints ==
  ASSUME NEW m, NEW v, Numbered(m)
  PROVE  Touching(m, v, LiveInto(m, v)) \subseteq Points(m)
BY LeastSolves DEF Touching, Numbered, DefPoints, UsePoints, LiveOutOf

(* A live stretch of a block runs from a point v is touched or live at to    *)
(* another one, and not backwards.                                           *)
LEMMA SegmentEnds ==
  ASSUME NEW m, NEW v, Numbered(m), NEW b \in DOMAIN m.blocks,
         NEW i \in BlockSegments(m, v, LiveOutOf(m, LiveInto(m, v)), b)
  PROVE  /\ i.start \in Touching(m, v, LiveInto(m, v)) /\ i.end \in Touching(m, v, LiveInto(m, v))
         /\ i.start <= i.end /\ i = Interval(i.start, i.end)
<1> DEFINE in == LiveInto(m, v)
           out == LiveOutOf(m, in)
           T == Touching(m, v, in)
           defs == BlockPoints(m, b) \cap DefPoints(m, v)
           uses == BlockPoints(m, b) \cap UsePoints(m, v)
           NextDefs(p) == {d \in defs : d > p}
           ReadFrom(p) == IF NextDefs(p) # {} THEN {u \in uses : p < u /\ u <= Min(NextDefs(p))}
                          ELSE {u \in uses : p < u}
           EndFrom(p) == IF NextDefs(p) = {} /\ b \in out THEN {m.blocks[b].last} ELSE ReadFrom(p)
           entry == m.blocks[b].first
<1>1. PICK n \in Nat : Points(m) = 1..n
  BY DEF Numbered
<1>2. T \subseteq 1..n
  BY <1>1, TouchedPoints
<1>3. /\ entry \in 1..n /\ m.blocks[b].last \in 1..n /\ entry <= m.blocks[b].last
      /\ defs \subseteq T /\ uses \subseteq T
      /\ b \in out => m.blocks[b].last \in T
      /\ b \in in => entry \in T
  BY <1>1 DEF Numbered, Touching
<1>4. ASSUME NEW p PROVE EndFrom(p) \subseteq T
  BY <1>3
<1>5. \/ \E d \in defs : i = Interval(d, Max({d} \union EndFrom(d)))
      \/ EndFrom(entry - 1) # {} /\ i = Interval(entry, Max(EndFrom(entry - 1)))
  BY DEF BlockSegments
<1>6. ASSUME NEW d \in defs, i = Interval(d, Max({d} \union EndFrom(d)))
      PROVE  i.start \in T /\ i.end \in T /\ i.start <= i.end
  <2> DEFINE S == {d} \union EndFrom(d)
  <2>1. S \subseteq T /\ d \in S
    BY <1>3, <1>4
  <2> HIDE DEF T, EndFrom, S, defs
  <2>2. Max(S) \in S /\ d <= Max(S)
    BY <1>2, <2>1, Extremes
  <2>3. i.start = d /\ i.end = Max(S)
    BY <1>6 DEF Interval, S
  <2> QED BY <2>1, <2>2, <2>3
<1>7. ASSUME EndFrom(entry - 1) # {}, i = Interval(entry, Max(EndFrom(entry - 1)))
      PROVE  i.start \in T /\ i.end \in T /\ i.start <= i.end
  <2>1. b \in in
    <3>1. Exposed(m, v, b) \/ (b \in out /\ ~Written(m, v, b))
      <4>1. CASE NextDefs(entry - 1) = {} /\ b \in out
        <5>1. defs = {}
          BY <4>1, <1>3, <1>1 DEF BlockPoints, DefPoints
        <5> QED BY <4>1, <5>1 DEF Written
      <4>2. CASE ~(NextDefs(entry - 1) = {} /\ b \in out)
        <5>1. PICK u \in uses : entry - 1 < u /\ (NextDefs(entry - 1) # {} => u <= Min(NextDefs(entry - 1)))
          BY <1>7, <4>2
        <5>2. ASSUME NEW q \in entry .. (u - 1), q \in DefPoints(m, v) PROVE FALSE
          <6>1. u \in 1..n /\ u <= m.blocks[b].last /\ m.blocks[b].last \in 1..n
            BY <1>2, <1>3, <5>1 DEF BlockPoints
          <6>2. q \in NextDefs(entry - 1)
            BY <5>2, <6>1, <1>3 DEF BlockPoints
          <6>3. NextDefs(entry - 1) \subseteq 1..n
            BY <1>2, <1>3
          <6> HIDE DEF NextDefs
          <6>4. Min(NextDefs(entry - 1)) \in NextDefs(entry - 1) /\ Min(NextDefs(entry - 1)) <= q
            BY <6>2, <6>3, Extremes
          <6> QED BY <5>1, <6>1, <6>2, <6>3, <6>4, <1>3
        <5> QED BY <5>1, <5>2 DEF Exposed
      <4> QED BY <4>1, <4>2
    <3> QED BY <3>1, LeastSolves DEF Solves
  <2>2. \A x \in EndFrom(entry - 1) : entry <= x
    BY <1>2, <1>3
  <2>3. EndFrom(entry - 1) \subseteq T
    BY <1>4
  <2>4. Max(EndFrom(entry - 1)) \in EndFrom(entry - 1)
    <3> HIDE DEF T, EndFrom
    <3> QED BY <1>2, <1>7, <2>3, Extremes
  <2>5. i.start = entry /\ i.end = Max(EndFrom(entry - 1))
    BY <1>7 DEF Interval
  <2> HIDE DEF T, EndFrom
  <2> QED BY <1>3, <2>1, <2>2, <2>3, <2>4, <2>5
<1>8. i = Interval(i.start, i.end)
  BY <1>5 DEF Interval
<1> HIDE DEF T, EndFrom, defs
<1>9. i.start \in T /\ i.end \in T /\ i.start <= i.end
  BY <1>5, <1>6, <1>7
<1> QED BY <1>8, <1>9 DEF T

(* Joining stretches makes no new ends.                                      *)
LEMMA MergedEnds ==
  ASSUME NEW n \in Nat, NEW T, T \subseteq 1..n, NEW segs,
         \A i \in segs : i.start \in T /\ i.end \in T /\ i.start <= i.end,
         NEW o \in Merge(segs)
  PROVE  o.start \in T /\ o.end \in T /\ o = Interval(o.start, o.end)
<1> DEFINE ends == {i.end : i \in segs}
           lasts == {i.end : i \in {i \in segs : \A j \in segs : ~(j.start <= i.end /\ i.end < j.end)}}
<1>1. PICK i \in segs : o = Interval(i.start, Min({e \in lasts : e >= i.start}))
  BY DEF Merge
<1>2. ends \subseteq 1..n /\ i.end \in ends /\ lasts \subseteq ends /\ ends \subseteq T
  OBVIOUS
<1>3. PICK e \in ends : \A x \in ends : x <= e
  <2> HIDE DEF ends
  <2> QED BY <1>2, Extremes
<1>4. e \in lasts
  <2>1. PICK k \in segs : e = k.end
    OBVIOUS
  <2>2. \A j \in segs : j.end <= e /\ j.end \in 1..n /\ e \in 1..n
    BY <1>2, <1>3
  <2>3. \A j \in segs : ~(j.start <= k.end /\ k.end < j.end)
    BY <2>1, <2>2
  <2> QED BY <2>1, <2>3
<1>5. e >= i.start
  <2>1. i.start \in 1..n /\ i.end \in 1..n /\ e \in 1..n /\ i.start <= i.end /\ i.end <= e
    BY <1>2, <1>3
  <2> QED BY <2>1
<1> DEFINE later == {x \in lasts : x >= i.start}
<1>6. later \subseteq 1..n /\ later # {}
  BY <1>2, <1>4, <1>5
<1>7. Min(later) \in later
  <2> HIDE DEF later
  <2> QED BY <1>6, Extremes
<1>8. o = Interval(i.start, Min(later))
  BY <1>1
<1>9. o.start = i.start /\ o.end = Min(later) /\ o = Interval(o.start, o.end)
  <2> HIDE DEF later
  <2> QED BY <1>8 DEF Interval
<1> QED BY <1>2, <1>7, <1>9

(* The hull reaches from the first such point to the last.                   *)
LEMMA HullSpans ==
  ASSUME NEW m, NEW v, Numbered(m)
  PROVE  LET hull == Hull(m, v, LiveInto(m, v))
             T == Touching(m, v, LiveInto(m, v))
         IN  /\ hull = {} \/ \E lo, hi \in T : hull = {Interval(lo, hi)} /\ \A p \in T : lo <= p /\ p <= hi
             /\ T # {} => hull # {}
<1> DEFINE T == Touching(m, v, LiveInto(m, v))
<1>1. PICK n \in Nat : Points(m) = 1..n
  BY DEF Numbered
<1>2. T \subseteq 1..n
  BY <1>1, TouchedPoints
<1>3. Hull(m, v, LiveInto(m, v)) = IF T = {} THEN {} ELSE {Interval(Min(T), Max(T))}
  BY DEF Hull, Touching
<1> HIDE DEF T
<1>4. T # {} => /\ Min(T) \in T /\ Max(T) \in T
                /\ \A p \in T : Min(T) <= p /\ p <= Max(T)
  BY <1>2, Extremes
<1> QED BY <1>3, <1>4 DEF T

LEMMA SegmentsCovered ==
  ASSUME NEW m, NEW n \in Nat, Numbered(m)
  PROVE  LET l == LivenessOf(m, n)
         IN  /\ DOMAIN l.hull = 1..n
             /\ \A v \in 1..n :
                  /\ l.hull[v] \subseteq [start : Nat, end : Nat]
                  /\ \A i \in l.segs[v] :
                       /\ i \in [start : Nat, end : Nat] /\ l.hull[v] # {}
                       /\ \A h \in l.hull[v] : h.start <= i.start /\ i.end <= h.end
                  /\ \A g, h \in l.hull[v] : g = h
<1> DEFINE l == LivenessOf(m, n)
<1>1. /\ l.hull = [v \in 1..n |-> Hull(m, v, LiveInto(m, v))]
      /\ l.segs = [v \in 1..n |-> IF m.precise THEN LiveSegments(m, v, LiveInto(m, v)) ELSE l.hull[v]]
  BY DEF LivenessOf
<1> HIDE DEF l
<1> SUFFICES ASSUME NEW v \in 1..n
             PROVE  /\ l.hull[v] \subseteq [start : Nat, end : Nat]
                    /\ \A i \in l.segs[v] :
                         /\ i \in [start : Nat, end : Nat] /\ l.hull[v] # {}
                         /\ \A h \in l.hull[v] : h.start <= i.start /\ i.end <= h.end
                    /\ \A g, h \in l.hull[v] : g = h
  BY <1>1 DEF l
<1> DEFINE T == Touching(m, v, LiveInto(m, v))
<1>2. PICK p \in Nat : Points(m) = 1..p
  BY DEF Numbered
<1>3. T \subseteq 1..p
  BY <1>2, TouchedPoints
<1>4. /\ l.hull[v] = {} \/ \E lo, hi \in T : l.hull[v] = {Interval(lo, hi)} /\ \A x \in T : lo <= x /\ x <= hi
      /\ T # {} => l.hull[v] # {}
  BY <1>1, HullSpans
<1>5. ASSUME NEW i \in l.segs[v] PROVE i.start \in T /\ i.end \in T /\ i = Interval(i.start, i.end)
  <2>1. CASE m.precise
    <3> DEFINE segs == UNION {BlockSegments(m, v, LiveOutOf(m, LiveInto(m, v)), b) : b \in DOMAIN m.blocks}
    <3>1. i \in Merge(segs)
      BY <2>1, <1>1 DEF LiveSegments
    <3>2. \A j \in segs : j.start \in T /\ j.end \in T /\ j.start <= j.end
      BY SegmentEnds
    <3> HIDE DEF segs, T
    <3> QED BY <3>1, <3>2, <1>3, MergedEnds
  <2>2. CASE ~m.precise
    <3>1. i \in l.hull[v]
      BY <2>2, <1>1
    <3> HIDE DEF T
    <3> QED BY <3>1, <1>4 DEF Interval
  <2> QED BY <2>1, <2>2
<1> HIDE DEF T
<1>6. l.hull[v] \subseteq [start : Nat, end : Nat] /\ \A g, h \in l.hull[v] : g = h
  <2>1. CASE l.hull[v] = {}
    BY <2>1
  <2>2. CASE l.hull[v] # {}
    <3>1. PICK lo \in T, hi \in T : l.hull[v] = {Interval(lo, hi)}
      BY <1>4, <2>2
    <3>2. Interval(lo, hi) \in [start : Nat, end : Nat]
      BY <1>3 DEF Interval
    <3> QED BY <3>1, <3>2
  <2> QED BY <2>1, <2>2
<1>7. ASSUME NEW i \in l.segs[v]
      PROVE  /\ i \in [start : Nat, end : Nat] /\ l.hull[v] # {}
             /\ \A h \in l.hull[v] : h.start <= i.start /\ i.end <= h.end
  BY <1>3, <1>4, <1>5 DEF Interval
<1> QED BY <1>6, <1>7

-----------------------------------------------------------------------------
(* The linear scan *)

(* The registers that were given a physical register and may still meet one *)
(* the scan has not reached are the active ones.                            *)
ScanShape ==
  /\ VRegs \subseteq Nat /\ slots \in Nat
  /\ queue \subseteq {v \in VRegs : assign[v] = None /\ live.hull[v] # {}}
  /\ active \subseteq [vreg : VRegs \ queue, preg : PReg, end : Nat]
  /\ \A a \in active : assign[a.vreg] = a.preg /\ a.end = Ends(a.vreg)

ActiveCovers ==
  \A v \in VRegs : assign[v] \in PReg =>
     \/ \E a \in active : a.vreg = v
     \/ \A u \in queue : Ends(v) < Begins(u)

ScanInv == SegmentsInHull /\ ScanShape /\ ActiveCovers /\ SharersNeverInterfere

LEMMA Bounds ==
  ASSUME NEW a \in Nat, NEW b \in Nat
  PROVE  /\ Max({a, b}) >= a /\ Max({a, b}) >= b /\ Max({a, b}) \in Nat
         /\ Min({a, b}) <= a /\ Min({a, b}) <= b /\ Min({a, b}) \in Nat
<1>1. \E x \in {a, b} : \A y \in {a, b} : x >= y
  OBVIOUS
<1>2. \E x \in {a, b} : \A y \in {a, b} : x <= y
  OBVIOUS
<1> QED BY <1>1, <1>2 DEF Max, Min

(* A common piece of two sets of intervals is one of some member of each.   *)
LEMMA OverlapPieces ==
  ASSUME NEW S, NEW T
  PROVE  /\ \A o \in Overlaps(S, T) :
              o.start <= o.end /\ \E i \in S, j \in T : o = Common(i, j)
         /\ Overlaps(S, T) \subseteq Overlaps(T, S)
<1>1. \A o \in Overlaps(S, T) : o.start <= o.end /\ \E i \in S, j \in T : o = Common(i, j)
  BY DEF Overlaps
<1>2. ASSUME NEW o \in Overlaps(S, T) PROVE o \in Overlaps(T, S)
  <2>1. PICK i \in S, j \in T : o = Common(i, j)
    BY <1>1
  <2>2. {i.start, j.start} = {j.start, i.start} /\ {i.end, j.end} = {j.end, i.end}
    OBVIOUS
  <2>3. o = Common(j, i)
    BY <2>1, <2>2, Zenon DEF Common
  <2> QED BY <1>1, <2>3 DEF Overlaps
<1> QED BY <1>1, <1>2

LEMMA InterferesSymmetric ==
  ASSUME NEW u, NEW v
  PROVE  Interferes(u, v) <=> Interferes(v, u)
<1>2. Overlaps(live.segs[u], live.segs[v]) = Overlaps(live.segs[v], live.segs[u])
  BY OverlapPieces
<1>3. \A p : TiedAt(u, v, p) <=> TiedAt(v, u, p)
  BY DEF TiedAt
<1> QED BY <1>2, <1>3 DEF Interferes

(* The interval of a register the scan orders is one.                       *)
LEMMA HullBounds ==
  ASSUME SegmentsInHull, NEW v \in VRegs, live.hull[v] # {}
  PROVE  Begins(v) \in Nat /\ Ends(v) \in Nat
BY DEF SegmentsInHull, Begins, Ends, HullOf

(* A register that ended before another begins is out of its way.           *)
LEMMA EndedApart ==
  ASSUME SegmentsInHull, NEW u \in VRegs, NEW v \in VRegs, Ends(v) < Begins(u)
  PROVE  ~Interferes(u, v) /\ ~Interferes(v, u)
<1>1. ASSUME Interferes(u, v) PROVE FALSE
  <2>1. PICK i \in live.segs[u], j \in live.segs[v] :
          Max({i.start, j.start}) <= Min({i.end, j.end})
    <3>1. PICK o \in Overlaps(live.segs[u], live.segs[v]) : TRUE
      BY <1>1 DEF Interferes
    <3>2. PICK i \in live.segs[u], j \in live.segs[v] : o = Common(i, j)
      BY OverlapPieces
    <3>3. o.start <= o.end
      BY OverlapPieces
    <3>4. o.start = Max({i.start, j.start}) /\ o.end = Min({i.end, j.end})
      BY <3>2 DEF Common, Interval
    <3> QED BY <3>3, <3>4, Zenon
  <2>2. /\ i.start \in Nat /\ i.end \in Nat /\ Begins(u) <= i.start
        /\ j.start \in Nat /\ j.end \in Nat /\ j.end <= Ends(v)
        /\ live.hull[u] # {} /\ live.hull[v] # {}
    BY DEF SegmentsInHull
  <2>3. Begins(u) \in Nat /\ Ends(v) \in Nat
    BY <2>2, HullBounds
  <2>4. Max({i.start, j.start}) >= i.start /\ Min({i.end, j.end}) <= j.end
        /\ Max({i.start, j.start}) \in Nat /\ Min({i.end, j.end}) \in Nat
    BY <2>2, Bounds
  <2> QED BY <2>1, <2>2, <2>3, <2>4
<1> QED BY <1>1, InterferesSymmetric

(* The scan takes the register that begins first.                           *)
LEMMA CurrentFirst ==
  ASSUME SegmentsInHull, ScanShape, queue # {}
  PROVE  Current \in queue /\ \A u \in queue : Begins(Current) <= Begins(u)
<1>1. queue \subseteq Nat /\ queue \subseteq VRegs /\ \A u \in queue : Begins(u) \in Nat
  BY HullBounds DEF ScanShape
<1>2. PICK s \in {Begins(u) : u \in queue} : \A n \in {Begins(u) : u \in queue} : s <= n
  <2> DEFINE T == {Begins(u) : u \in queue}
  <2>1. T \subseteq Nat /\ T # {}
    BY <1>1
  <2> HIDE DEF T
  <2>2. \E m \in T : \A n \in T : m <= n
    BY <2>1, LeastNat
  <2> QED BY <2>2 DEF T
<1>3. PICK v \in {u \in queue : Begins(u) = s} : \A w \in {u \in queue : Begins(u) = s} : v <= w
  <2> DEFINE T == {u \in queue : Begins(u) = s}
  <2>1. T \subseteq Nat /\ T # {}
    BY <1>1
  <2> HIDE DEF T
  <2>2. \E m \in T : \A n \in T : m <= n
    BY <2>1, LeastNat
  <2> QED BY <2>2 DEF T
<1>4. \A u \in queue : Begins(v) < Begins(u) \/ (Begins(v) = Begins(u) /\ v <= u)
  <2> TAKE u \in queue
  <2>1. s <= Begins(u) /\ Begins(v) = s /\ s \in Nat /\ Begins(u) \in Nat
    BY <1>1, <1>2, <1>3
  <2>2. CASE Begins(u) = s
    BY <2>1, <2>2, <1>3
  <2>3. CASE Begins(u) # s
    BY <2>1, <2>3
  <2> QED BY <2>2, <2>3
<1>5. /\ Current \in queue
      /\ \A u \in queue : Begins(Current) < Begins(u) \/ (Begins(Current) = Begins(u) /\ Current <= u)
  <2>1. \E x \in queue : \A u \in queue : Begins(x) < Begins(u) \/ (Begins(x) = Begins(u) /\ x <= u)
    BY <1>3, <1>4
  <2> QED BY <2>1 DEF Current
<1> QED BY <1>1, <1>5

(* Whoever has a register that the current one is to get, and does not       *)
(* conflict with it as an active one, does not interfere with it.            *)
LEMMA KeepsClear ==
  ASSUME SegmentsInHull, ScanShape, ActiveCovers, queue # {},
         NEW v \in VRegs, assign[v] \in PReg,
         \A a \in Conflicts(assign[v]) : a.vreg # v
  PROVE  ~Interferes(v, Current) /\ ~Interferes(Current, v)
<1>1. Current \in queue /\ Current \in VRegs
  BY CurrentFirst DEF ScanShape
<1>2. CASE Ends(v) < Begins(Current)
  BY <1>1, <1>2, EndedApart
<1>3. CASE ~(Ends(v) < Begins(Current))
  <2>1. PICK a \in active : a.vreg = v
    BY <1>1, <1>3 DEF ActiveCovers
  <2>2. a.preg = assign[v] /\ a.end = Ends(v) /\ a.end \in Nat
    BY <2>1 DEF ScanShape
  <2>3. Begins(Current) \in Nat
    BY <1>1, HullBounds DEF ScanShape
  <2>4. a \in StillActive
    BY <1>3, <2>2, <2>3 DEF StillActive
  <2>5. ~Interferes(Current, v)
    BY <2>1, <2>2, <2>4 DEF Conflicts
  <2> QED BY <2>5, InterferesSymmetric
<1> QED BY <1>2, <1>3

(* The scan leaves its input alone, so a step that keeps the agreement of   *)
(* the two views had it before.                                              *)
LEMMA AgreementStays ==
  ASSUME live' = live, VRegs' = VRegs
  PROVE  /\ SegmentsInHull' <=> SegmentsInHull
         /\ \A v : Begins(v)' = Begins(v) /\ Ends(v)' = Ends(v)
         /\ \A u, v : Interferes(u, v)' <=> Interferes(u, v)
         /\ \A p, v : FixedConflict(p, v)' <=> FixedConflict(p, v)
BY DEF SegmentsInHull, Begins, Ends, HullOf, Interferes, TiedAt, FixedConflict, Collides, Redefined

LEMMA Unaffected ==
  ASSUME ScanInv, UNCHANGED scanVars
  PROVE  ScanInv'
<1>1. live' = live /\ assign' = assign /\ queue' = queue /\ active' = active /\ slots' = slots
  BY DEF scanVars
<1>2. VRegs' = VRegs
  BY <1>1 DEF VRegs
<1>3. /\ SegmentsInHull' <=> SegmentsInHull
      /\ \A v : Begins(v)' = Begins(v) /\ Ends(v)' = Ends(v)
      /\ \A u, v : Interferes(u, v)' <=> Interferes(u, v)
      /\ \A p, v : FixedConflict(p, v)' <=> FixedConflict(p, v)
  BY <1>1, <1>2, AgreementStays
<1>4. SegmentsInHull /\ ScanShape /\ ActiveCovers /\ SharersNeverInterfere
  BY DEF ScanInv
<1>5. ScanShape'
  BY <1>1, <1>2, <1>3, <1>4 DEF ScanShape
<1>6. ActiveCovers'
  BY <1>1, <1>2, <1>3, <1>4 DEF ActiveCovers
<1>7. SharersNeverInterfere'
  BY <1>1, <1>2, <1>3, <1>4 DEF SharersNeverInterfere
<1> QED BY <1>3, <1>4, <1>5, <1>6, <1>7 DEF ScanInv

(* What a step of the scan must show: the current register leaves the queue; *)
(* those that keep a physical register had it before, or it is the current   *)
(* one and everyone else with the same register keeps clear of it.           *)
LEMMA Placed ==
  ASSUME SegmentsInHull, ScanShape, ActiveCovers, SharersNeverInterfere, queue # {},
         live' = live, VRegs' = VRegs, slots' \in Nat, queue' = queue \ {Current},
         \A v \in VRegs : v # Current /\ assign'[v] \in PReg => assign'[v] = assign[v],
         \A v \in queue' : assign'[v] = None,
         assign'[Current] \in PReg =>
           /\ ~FixedConflict(assign'[Current], Current)
           /\ \A a \in Conflicts(assign'[Current]) : assign'[a.vreg] # assign'[Current]
           /\ [vreg |-> Current, preg |-> assign'[Current], end |-> Ends(Current)] \in active',
         \A a \in active' : \/ a \in StillActive
                            \/ a = [vreg |-> Current, preg |-> assign'[Current], end |-> Ends(Current)],
         \A a \in active' : assign'[a.vreg] = a.preg /\ a.preg \in PReg,
         \A a \in StillActive : a \in active' \/ assign'[a.vreg] \notin PReg
  PROVE  (ScanShape /\ ActiveCovers /\ SharersNeverInterfere)'
<1> DEFINE mine == [vreg |-> Current, preg |-> assign'[Current], end |-> Ends(Current)]
<1>1. /\ \A v : Begins(v)' = Begins(v) /\ Ends(v)' = Ends(v)
      /\ \A u, v : Interferes(u, v)' <=> Interferes(u, v)
      /\ \A p, v : FixedConflict(p, v)' <=> FixedConflict(p, v)
  BY AgreementStays
<1>2. /\ Current \in queue /\ Current \in VRegs /\ live.hull[Current] # {}
      /\ \A u \in queue : Begins(Current) <= Begins(u)
      /\ \A u \in queue : u \in VRegs /\ live.hull[u] # {}
  BY CurrentFirst DEF ScanShape
<1>3. /\ Begins(Current) \in Nat /\ Ends(Current) \in Nat
      /\ \A u \in queue : Begins(u) \in Nat
  BY <1>2, HullBounds
<1>4. StillActive \subseteq active
  BY DEF StillActive
<1>5. ScanShape'
  <2>1. VRegs' \subseteq Nat /\ slots' \in Nat
    BY DEF ScanShape
  <2>2. queue' \subseteq {v \in VRegs' : assign'[v] = None /\ live'.hull[v] # {}}
    BY <1>2
  <2>3. ASSUME NEW a \in active'
        PROVE  /\ a \in [vreg : VRegs' \ queue', preg : PReg, end : Nat]
               /\ assign'[a.vreg] = a.preg /\ a.end = Ends(a.vreg)'
    <3>1. assign'[a.vreg] = a.preg /\ a.preg \in PReg
      OBVIOUS
    <3>2. CASE a \in StillActive
      <4>1. a \in active
        BY <3>2, <1>4
      <4>2. a \in [vreg : VRegs \ queue, preg : PReg, end : Nat] /\ a.end = Ends(a.vreg)
        BY <4>1 DEF ScanShape
      <4> QED BY <3>1, <4>2, <1>1
    <3>3. CASE a = mine
      BY <3>1, <3>3, <1>1, <1>2, <1>3
    <3> QED BY <3>2, <3>3
  <2> QED BY <2>1, <2>2, <2>3 DEF ScanShape
<1>6. ActiveCovers'
  <2> SUFFICES ASSUME NEW v \in VRegs, assign'[v] \in PReg
               PROVE  \/ \E a \in active' : a.vreg = v
                      \/ \A u \in queue' : Ends(v) < Begins(u)
    BY <1>1 DEF ActiveCovers
  <2>1. CASE v = Current
    BY <2>1
  <2>2. CASE v # Current
    <3>1. assign[v] \in PReg
      BY <2>2
    <3>2. CASE \A u \in queue : Ends(v) < Begins(u)
      BY <3>2
    <3>3. CASE \E a \in active : a.vreg = v
      <4>1. PICK a \in active : a.vreg = v
        BY <3>3
      <4>2. CASE a \in StillActive
        BY <4>1, <4>2
      <4>3. CASE a \notin StillActive
        <5>1. a.end = Ends(v) /\ a.end \in Nat
          BY <4>1 DEF ScanShape
        <5>2. Ends(v) < Begins(Current)
          BY <4>3, <5>1, <1>3 DEF StillActive
        <5>3. ASSUME NEW u \in queue' PROVE Ends(v) < Begins(u)
          <6>1. Begins(Current) <= Begins(u) /\ Begins(u) \in Nat
            BY <1>2, <1>3
          <6> QED BY <6>1, <5>1, <5>2, <1>3
        <5> QED BY <5>3
      <4> QED BY <4>2, <4>3
    <3> QED BY <3>1, <3>2, <3>3 DEF ActiveCovers
  <2> QED BY <2>1, <2>2
<1>7. SharersNeverInterfere'
  <2> SUFFICES ASSUME NEW v \in VRegs, assign'[v] \in PReg
               PROVE  /\ ~FixedConflict(assign'[v], v)
                      /\ \A u \in VRegs : u # v /\ assign'[u] = assign'[v] => ~Interferes(u, v)
    BY <1>1 DEF SharersNeverInterfere
  <2>1. ASSUME NEW u \in VRegs, u # Current, assign'[u] = assign'[Current], assign'[u] \in PReg
        PROVE  ~Interferes(u, Current) /\ ~Interferes(Current, u)
    <3>1. assign[u] = assign'[Current] /\ assign[u] \in PReg
      BY <2>1
    <3>2. \A a \in Conflicts(assign[u]) : a.vreg # u
      BY <2>1, <3>1
    <3> QED BY <3>1, <3>2, KeepsClear
  <2>2. CASE v = Current
    BY <2>1, <2>2
  <2>3. CASE v # Current
    <3>1. assign'[v] = assign[v] /\ assign[v] \in PReg
      BY <2>3
    <3>2. ~FixedConflict(assign[v], v)
      BY <3>1 DEF SharersNeverInterfere
    <3>3. ASSUME NEW u \in VRegs, u # v, assign'[u] = assign'[v] PROVE ~Interferes(u, v)
      <4>1. CASE u = Current
        BY <4>1, <3>3, <2>1
      <4>2. CASE u # Current
        <5>1. assign[u] = assign[v]
          BY <4>2, <3>1, <3>3
        <5> QED BY <5>1, <3>1, <3>3 DEF SharersNeverInterfere
      <4> QED BY <4>1, <4>2
    <3> QED BY <3>1, <3>2, <3>3
  <2> QED BY <2>2, <2>3
<1> QED BY <1>5, <1>6, <1>7

LEMMA ScanKeeps ==
  ASSUME ScanInv, ScanStep
  PROVE  ScanInv'
<1> SUFFICES (ScanShape /\ ActiveCovers /\ SharersNeverInterfere)'
  <2>1. live' = live /\ VRegs' = VRegs
    BY DEF ScanStep, AssignFree, TakeFromVictim, SpillCurrent, VRegs, ScanInv, ScanShape
  <2> QED BY <2>1, AgreementStays DEF ScanInv
<1>1. live' = live /\ VRegs' = VRegs /\ queue # {} /\ queue' = queue \ {Current}
  BY DEF ScanStep, AssignFree, TakeFromVictim, SpillCurrent, VRegs
<1>2. SegmentsInHull /\ ScanShape /\ ActiveCovers /\ SharersNeverInterfere
  BY DEF ScanInv
<1>3. /\ Current \in queue /\ Current \in VRegs /\ assign[Current] = None
      /\ None \notin PReg /\ slots \in Nat /\ slots + 1 \in Nat /\ slots + 1 \notin PReg
  <2>1. Current \in queue
    BY <1>1, <1>2, CurrentFirst
  <2>2. Current \in VRegs /\ assign[Current] = None /\ slots \in Nat
    BY <1>2, <2>1 DEF ScanShape
  <2>3. None \notin PReg
    BY AllocatableAssumption
  <2>4. slots + 1 \in Nat /\ slots + 1 \notin PReg
    BY <2>2, PRegAssumption
  <2> QED BY <2>1, <2>2, <2>3, <2>4
<1>4. \A v \in queue : v \in VRegs /\ assign[v] = None
  BY <1>2 DEF ScanShape
<1>5. \A a \in StillActive :
        /\ a \in active /\ assign[a.vreg] = a.preg /\ a.preg \in PReg
        /\ a.vreg \in VRegs /\ a.vreg \notin queue /\ a.vreg # Current
  BY <1>2, <1>3 DEF StillActive, ScanShape
<1>6. CASE AssignFree
  <2>1. PICK k \in Candidates :
          /\ assign' = [assign EXCEPT ![Current] = Allocatable[k]]
          /\ active' = StillActive \union {Entry(Allocatable[k])}
          /\ slots' = slots
    BY <1>6 DEF AssignFree
  <2>2. k \in Free
    BY <2>1 DEF Candidates, Hinted
  <2>3. /\ k \in DOMAIN Allocatable /\ Allocatable[k] \in PReg
        /\ ~FixedConflict(Allocatable[k], Current) /\ Conflicts(Allocatable[k]) = {}
    BY <2>2, AllocatableAssumption DEF Free
  <2>4. /\ assign'[Current] = Allocatable[k]
        /\ \A v \in VRegs : v # Current => assign'[v] = assign[v]
    BY <2>1, <1>3 DEF VRegs
  <2>5. Entry(Allocatable[k]) = [vreg |-> Current, preg |-> assign'[Current], end |-> Ends(Current)]
    BY <2>4 DEF Entry
  <2>6. \A a \in active' : assign'[a.vreg] = a.preg /\ a.preg \in PReg
    BY <2>1, <2>3, <2>4, <2>5, <1>5
  <2>7. \A a \in active' : \/ a \in StillActive
                           \/ a = [vreg |-> Current, preg |-> assign'[Current], end |-> Ends(Current)]
    BY <2>1, <2>5
  <2>8. \A v \in queue' : assign'[v] = None
    BY <1>1, <1>4, <2>4
  <2> QED BY <1>1, <1>2, <1>3, <2>1, <2>3, <2>4, <2>5, <2>6, <2>7, <2>8, Placed
<1>7. CASE TakeFromVictim
  <2>1. PICK a \in Victim :
          /\ assign' = [assign EXCEPT ![a.vreg] = slots + 1, ![Current] = a.preg]
          /\ active' = (StillActive \ {a}) \union {Entry(a.preg)}
          /\ slots' = slots + 1
    BY <1>7 DEF TakeFromVictim
  <2>2. a \in Evictable
    BY <2>1 DEF Victim
  <2>3. /\ a \in StillActive /\ ~FixedConflict(a.preg, Current) /\ Conflicts(a.preg) = {a}
    BY <2>2 DEF Evictable
  <2>4. /\ assign'[Current] = a.preg /\ assign'[a.vreg] = slots + 1
        /\ \A v \in VRegs : v # Current /\ v # a.vreg => assign'[v] = assign[v]
    BY <2>1, <2>3, <1>3, <1>5 DEF VRegs
  <2>5. Entry(a.preg) = [vreg |-> Current, preg |-> assign'[Current], end |-> Ends(Current)]
    BY <2>4 DEF Entry
  <2>6. \A b \in StillActive : b.vreg = a.vreg => b = a
    <3> SUFFICES ASSUME NEW b \in StillActive, b.vreg = a.vreg PROVE b = a
      OBVIOUS
    <3>1. /\ a \in [vreg : VRegs \ queue, preg : PReg, end : Nat]
          /\ b \in [vreg : VRegs \ queue, preg : PReg, end : Nat]
          /\ a.preg = b.preg /\ a.end = b.end
      BY <1>2, <1>5, <2>3 DEF ScanShape
    <3> QED BY <3>1
  <2>7. \A b \in active' : assign'[b.vreg] = b.preg /\ b.preg \in PReg
    <3> SUFFICES ASSUME NEW b \in active' PROVE assign'[b.vreg] = b.preg /\ b.preg \in PReg
      OBVIOUS
    <3>1. CASE b = Entry(a.preg)
      BY <3>1, <2>3, <2>4, <2>5, <1>5
    <3>2. CASE b \in StillActive \ {a}
      BY <3>2, <2>4, <2>6, <1>5
    <3> QED BY <2>1, <3>1, <3>2
  <2>8. \A b \in active' : \/ b \in StillActive
                           \/ b = [vreg |-> Current, preg |-> assign'[Current], end |-> Ends(Current)]
    BY <2>1, <2>5
  <2>9. \A v \in queue' : assign'[v] = None
    BY <1>1, <1>4, <1>5, <2>3, <2>4
  <2>10. \A b \in StillActive : b \in active' \/ assign'[b.vreg] \notin PReg
    BY <2>1, <2>4, <1>3
  <2>11. \A b \in Conflicts(assign'[Current]) : assign'[b.vreg] # assign'[Current]
    BY <2>3, <2>4, <1>3, <1>5
  <2>12. \A v \in VRegs : v # Current /\ assign'[v] \in PReg => assign'[v] = assign[v]
    BY <2>4, <1>3
  <2>13. ~FixedConflict(assign'[Current], Current) /\ slots' \in Nat
    BY <2>1, <2>3, <2>4, <1>3
  <2>14. [vreg |-> Current, preg |-> assign'[Current], end |-> Ends(Current)] \in active'
    BY <2>1, <2>5
  <2> QED BY <1>1, <1>2, <2>7, <2>8, <2>9, <2>10, <2>11, <2>12, <2>13, <2>14, Placed
<1>8. CASE SpillCurrent
  <2>1. /\ assign' = [assign EXCEPT ![Current] = slots + 1]
        /\ active' = StillActive /\ slots' = slots + 1
    BY <1>8 DEF SpillCurrent
  <2>2. /\ assign'[Current] = slots + 1
        /\ \A v \in VRegs : v # Current => assign'[v] = assign[v]
    BY <2>1, <1>3 DEF VRegs
  <2>3. \A a \in active' : assign'[a.vreg] = a.preg /\ a.preg \in PReg
    BY <2>1, <2>2, <1>5
  <2>4. \A v \in queue' : assign'[v] = None
    BY <1>1, <1>4, <2>2
  <2> QED BY <1>1, <1>2, <1>3, <2>1, <2>2, <2>3, <2>4, Placed
<1> QED BY <1>6, <1>7, <1>8 DEF ScanStep

LEMMA ScanBegins == CopyInv /\ CodeInv /\ StartScan => ScanInv'
<1> SUFFICES ASSUME CopyInv, CodeInv, StartScan PROVE ScanInv'
  OBVIOUS
<1>1. vregs \in Nat
  BY DEF CopyInv, CopyState
<1>2. PICK precise \in Modes : \E order \in Orders(code, precise) :
        BeginScan(Laid(code, order, precise), vregs)
  BY DEF StartScan
<1>3. PICK order \in Orders(code, precise) : BeginScan(Laid(code, order, precise), vregs)
  BY <1>2
<1> DEFINE l == LivenessOf(Laid(code, order, precise), vregs)
<1>4. /\ live' = l
      /\ queue' = {v \in DOMAIN l.hull : l.hull[v] # {}}
      /\ assign' = [v \in 1..vregs |-> None]
      /\ active' = {} /\ slots' = 0
  BY <1>3 DEF BeginScan
<1>5. Numbered(Laid(code, order, precise))
  BY LaidNumbered DEF CodeInv
<1>6. /\ DOMAIN l.hull = 1..vregs
      /\ \A v \in 1..vregs :
           /\ l.hull[v] \subseteq [start : Nat, end : Nat]
           /\ \A i \in l.segs[v] :
                /\ i \in [start : Nat, end : Nat] /\ l.hull[v] # {}
                /\ \A h \in l.hull[v] : h.start <= i.start /\ i.end <= h.end
  BY <1>1, <1>5, SegmentsCovered
<1> HIDE DEF l
<1>7. VRegs' = 1..vregs /\ None \notin PReg
  BY <1>4, AllocatableAssumption DEF VRegs
<1>8. SegmentsInHull'
  <2> SUFFICES ASSUME NEW v \in 1..vregs
               PROVE  /\ l.hull[v] \subseteq [start : Nat, end : Nat]
                      /\ \A i \in l.segs[v] :
                           /\ i \in [start : Nat, end : Nat] /\ l.hull[v] # {}
                           /\ Begins(v)' <= i.start /\ i.end <= Ends(v)'
    BY <1>4, <1>7 DEF SegmentsInHull
  <2> DEFINE h == CHOOSE i \in l.hull[v] : TRUE
  <2>1. Begins(v)' = h.start /\ Ends(v)' = h.end
    BY <1>4 DEF Begins, Ends, HullOf
  <2>2. l.hull[v] # {} => h \in l.hull[v]
    OBVIOUS
  <2> HIDE DEF h
  <2> QED BY <1>6, <2>1, <2>2
<1>9. ScanShape'
  BY <1>1, <1>4, <1>6, <1>7 DEF ScanShape
<1>10. ActiveCovers' /\ SharersNeverInterfere'
  BY <1>4, <1>7 DEF ActiveCovers, SharersNeverInterfere
<1> QED BY <1>8, <1>9, <1>10 DEF ScanInv

LEMMA ScanInvariant == Spec => []ScanInv
<1>1. Init => ScanInv
  <2> SUFFICES ASSUME Init PROVE ScanInv
    OBVIOUS
  <2>1. VRegs = {} /\ queue = {} /\ active = {} /\ slots = 0
    BY DEF Init, VRegs
  <2> QED BY <2>1 DEF ScanInv, SegmentsInHull, ScanShape, ActiveCovers, SharersNeverInterfere
<1>2. ScanInv /\ CopyInv /\ CodeInv /\ [Next]_vars => ScanInv'
  <2> SUFFICES ASSUME ScanInv, CopyInv, CodeInv, [Next]_vars PROVE ScanInv'
    OBVIOUS
  <2>1. CASE StartScan
    BY <2>1, ScanBegins
  <2>2. CASE Scan
    BY <2>2, ScanKeeps DEF Scan
  <2>3. CASE SplitEdge \/ CopyStep \/ FinishEdge \/ Rewrite \/ RewritePanics \/ Execute \/ Return
    BY <2>3, Unaffected
    DEF SplitEdge, CopyStep, FinishEdge, Rewrite, RewritePanics, Execute, Return
  <2>4. CASE Over \/ UNCHANGED vars
    BY <2>4, Unaffected DEF Over, vars
  <2> QED BY <2>1, <2>2, <2>3, <2>4 DEF Next
<1> QED BY <1>1, <1>2, CopyInvariant, CodeInvariant, PTL DEF Spec

(* Whatever the code and the order its blocks are laid out in, a register    *)
(* lives only within the one interval the scan goes by.                      *)
THEOREM HullsCover == Spec => []SegmentsInHull
<1>1. ScanInv => SegmentsInHull
  BY DEF ScanInv
<1> QED BY <1>1, ScanInvariant, PTL

(* Two registers that share a physical one never need it at the same time,  *)
(* however the registers are scored and evicted.                             *)
THEOREM SharersApart == Spec => []SharersNeverInterfere
<1>1. ScanInv => SharersNeverInterfere
  BY DEF ScanInv
<1> QED BY <1>1, ScanInvariant, PTL

-----------------------------------------------------------------------------
(* The scan's result, and the code that runs on it *)

MachineShape(m) ==
  /\ Numbered(m) /\ 1 \in DOMAIN m.blocks
  /\ \A b \in DOMAIN m.blocks : m.blocks[b].succ \subseteq DOMAIN m.blocks

(* Running code is always inside a block, so the next instruction exists.    *)
TypeInv ==
  /\ phase \in {"select", "copy", "scan", "run", "done", "panic"}
  /\ assign \in Seq(PReg \union Nat \union {None})
  /\ \A a \in active : a.preg \in ToSet(Allocatable)
  /\ \A v \in VRegs : assign[v] \in Nat => assign[v] \in 1..slots
  /\ phase \in {"scan", "run"} => MachineShape(mf)
  /\ phase = "run" => /\ \E b \in DOMAIN mf.blocks : pc \in BlockPoints(mf, b)
                      /\ DOMAIN contents = PReg \union 1..slots

LEMMA BlockWithin ==
  ASSUME NEW m, Numbered(m), NEW b \in DOMAIN m.blocks
  PROVE  /\ BlockPoints(m, b) \subseteq Points(m)
         /\ m.blocks[b].first \in BlockPoints(m, b)
         /\ \A p \in BlockPoints(m, b) : p # m.blocks[b].last => p + 1 \in BlockPoints(m, b)
<1>1. PICK n \in Nat : Points(m) = 1..n
  BY DEF Numbered
<1>2. /\ m.blocks[b].first \in 1..n /\ m.blocks[b].last \in 1..n
      /\ m.blocks[b].first <= m.blocks[b].last
  BY <1>1 DEF Numbered
<1> DEFINE lo == m.blocks[b].first
           hi == m.blocks[b].last
<1>3. BlockPoints(m, b) = lo..hi /\ lo \in 1..n /\ hi \in 1..n /\ lo <= hi
  BY <1>2 DEF BlockPoints
<1> HIDE DEF lo, hi
<1>4. lo..hi \subseteq 1..n /\ lo \in lo..hi /\ \A p \in lo..hi : p # hi => p + 1 \in lo..hi
  BY <1>3
<1> QED BY <1>1, <1>3, <1>4 DEF lo, hi

LEMMA LaidShape ==
  ASSUME NEW blocks, CodeShape(blocks), NEW precise, NEW order \in Orders(blocks, precise)
  PROVE  MachineShape(Laid(blocks, order, precise))
<1> DEFINE L == Laid(blocks, order, precise)
<1>1. /\ DOMAIN L.blocks = DOMAIN blocks
      /\ \A b \in DOMAIN blocks : L.blocks[b].succ = ToSet(blocks[b].succ)
  BY DEF Laid
<1>2. 1 \in DOMAIN blocks
  <2>1. blocks \in Seq(MachineBlock) /\ Len(blocks) # 0
    BY DEF CodeShape
  <2> QED BY <2>1
<1> HIDE DEF L
<1>3. \A b \in DOMAIN L.blocks : L.blocks[b].succ \subseteq DOMAIN L.blocks
  BY <1>1 DEF CodeShape
<1> QED BY <1>1, <1>2, <1>3, LaidNumbered DEF MachineShape, L

(* A step of the scan: the places it hands out are registers it may assign,  *)
(* and slots it counted.                                                     *)
LEMMA PlacesTyped ==
  ASSUME ScanInv, TypeInv, Scan
  PROVE  TypeInv'
<1> DEFINE Places == PReg \union Nat \union {None}
<1>1. assign \in Seq(Places) /\ slots \in Nat /\ mf' = mf /\ phase = "scan" /\ phase' = "scan"
  BY DEF TypeInv, ScanInv, ScanShape, Scan, ScanStep, AssignFree, TakeFromVictim, SpillCurrent
<1>2. /\ \A k \in DOMAIN Allocatable : Allocatable[k] \in PReg /\ Allocatable[k] \in ToSet(Allocatable)
      /\ \A r \in PReg : r \notin Nat
  BY AllocatableAssumption, PRegAssumption DEF ToSet
<1>3. \A a \in StillActive : a \in active /\ a.preg \in PReg /\ a.preg \in ToSet(Allocatable)
  BY DEF StillActive, TypeInv, ScanInv, ScanShape
<1>4. \A v \in VRegs : assign[v] \in Nat => assign[v] \in 1..slots
  BY DEF TypeInv
<1> SUFFICES /\ assign' \in Seq(Places)
             /\ \A a \in active' : a.preg \in ToSet(Allocatable)
             /\ \A v \in DOMAIN assign' : assign'[v] \in Nat => assign'[v] \in 1..slots'
  BY <1>1 DEF TypeInv, VRegs
<1>5. CASE AssignFree
  <2>1. PICK k \in Candidates :
          /\ assign' = [assign EXCEPT ![Current] = Allocatable[k]]
          /\ active' = StillActive \union {Entry(Allocatable[k])}
          /\ slots' = slots
    BY <1>5 DEF AssignFree
  <2>2. k \in DOMAIN Allocatable
    BY <2>1 DEF Candidates, Hinted, Free
  <2>3. Allocatable[k] \in Places /\ Allocatable[k] \notin Nat
    BY <1>2, <2>2
  <2>4. assign' \in Seq(Places) /\ DOMAIN assign' = DOMAIN assign
    BY <1>1, <2>1, <2>3, SeqItems, Zenon
  <2>5. \A v \in DOMAIN assign : assign'[v] = IF v = Current THEN Allocatable[k] ELSE assign[v]
    BY <2>1
  <2>6. \A a \in active' : a.preg \in ToSet(Allocatable)
    BY <1>2, <1>3, <2>1, <2>2 DEF Entry
  <2> QED BY <1>4, <2>1, <2>3, <2>4, <2>5, <2>6 DEF VRegs
<1>6. CASE TakeFromVictim
  <2>1. PICK a \in Victim :
          /\ assign' = [assign EXCEPT ![a.vreg] = slots + 1, ![Current] = a.preg]
          /\ active' = (StillActive \ {a}) \union {Entry(a.preg)}
          /\ slots' = slots + 1
    BY <1>6 DEF TakeFromVictim
  <2>2. a \in StillActive
    BY <2>1 DEF Victim, Evictable
  <2> DEFINE middle == [assign EXCEPT ![a.vreg] = slots + 1]
  <2>3. slots + 1 \in Places /\ a.preg \in Places /\ a.preg \notin Nat
    BY <1>1, <1>2, <1>3, <2>2
  <2>4. middle \in Seq(Places) /\ DOMAIN middle = DOMAIN assign
    BY <1>1, <2>3, SeqItems, Zenon
  <2>5. assign' = [middle EXCEPT ![Current] = a.preg]
    BY <2>1
  <2>6. \A v \in DOMAIN assign : middle[v] = IF v = a.vreg THEN slots + 1 ELSE assign[v]
    OBVIOUS
  <2> HIDE DEF middle
  <2>7. assign' \in Seq(Places) /\ DOMAIN assign' = DOMAIN assign
    BY <2>3, <2>4, <2>5, SeqItems, Zenon
  <2>8. \A v \in DOMAIN assign : assign'[v] = IF v = Current THEN a.preg ELSE middle[v]
    BY <2>4, <2>5
  <2>9. \A b \in active' : b.preg \in ToSet(Allocatable)
    BY <1>3, <2>1, <2>2 DEF Entry
  <2>10. ASSUME NEW v \in DOMAIN assign, assign'[v] \in Nat PROVE assign'[v] \in 1..slots'
    <3>1. assign'[v] = slots + 1 \/ assign'[v] = assign[v]
      BY <2>3, <2>6, <2>8, <2>10
    <3>2. assign'[v] = assign[v] => assign'[v] \in 1..slots
      BY <1>4, <2>10 DEF VRegs
    <3> QED BY <1>1, <2>1, <3>1, <3>2
  <2> QED BY <2>7, <2>9, <2>10
<1>7. CASE SpillCurrent
  <2>1. assign' = [assign EXCEPT ![Current] = slots + 1] /\ active' = StillActive /\ slots' = slots + 1
    BY <1>7 DEF SpillCurrent
  <2>2. slots + 1 \in Places
    BY <1>1
  <2>3. assign' \in Seq(Places) /\ DOMAIN assign' = DOMAIN assign
    BY <1>1, <2>1, <2>2, SeqItems, Zenon
  <2>4. \A v \in DOMAIN assign : assign'[v] = IF v = Current THEN slots + 1 ELSE assign[v]
    BY <2>1
  <2>5. ASSUME NEW v \in DOMAIN assign, assign'[v] \in Nat PROVE assign'[v] \in 1..slots'
    <3>1. assign'[v] = assign[v] => assign'[v] \in 1..slots
      BY <1>4, <2>5 DEF VRegs
    <3> QED BY <1>1, <2>1, <2>4, <3>1
  <2> QED BY <1>3, <2>1, <2>3, <2>5
<1> QED BY <1>5, <1>6, <1>7 DEF Scan, ScanStep

LEMMA TypeNext ==
  ASSUME CopyInv, CodeInv, ScanInv, TypeInv, [Next]_vars
  PROVE  TypeInv'
<1>1. CASE SplitEdge \/ CopyStep \/ FinishEdge
  <2>1. UNCHANGED scanVars /\ phase' \in {"select", "copy"}
    BY <1>1 DEF SplitEdge, CopyStep, FinishEdge, TypeInv
  <2> QED BY <2>1 DEF TypeInv, scanVars, VRegs
<1>2. CASE StartScan
  <2>1. PICK precise \in Modes : \E order \in Orders(code, precise) :
          BeginScan(Laid(code, order, precise), vregs)
    BY <1>2 DEF StartScan
  <2>2. PICK order \in Orders(code, precise) : BeginScan(Laid(code, order, precise), vregs)
    BY <2>1
  <2>3. MachineShape(mf')
    BY <2>2, LaidShape DEF BeginScan, CodeInv
  <2>4. /\ assign' = [v \in 1..vregs |-> None] /\ vregs \in Nat
        /\ active' = {} /\ phase' = "scan" /\ None \notin Nat
    BY <1>2, <2>2, AllocatableAssumption DEF BeginScan, StartScan, CopyInv, CopyState
  <2>5. assign' \in Seq(PReg \union Nat \union {None})
    BY <2>4
  <2> QED BY <2>3, <2>4, <2>5 DEF TypeInv, VRegs
<1>3. CASE Scan
  BY <1>3, PlacesTyped
<1>4. CASE Rewrite
  <2>1. MachineShape(mf) /\ UNCHANGED scanVars /\ phase' = "run" /\ pc' = mf.blocks[1].first
    BY <1>4 DEF Rewrite, TypeInv
  <2>2. DOMAIN contents' = PReg \union 1..slots
    BY <1>4 DEF Rewrite
  <2>3. 1 \in DOMAIN mf.blocks /\ pc' \in BlockPoints(mf, 1)
    BY <2>1, BlockWithin DEF MachineShape
  <2> QED BY <2>1, <2>2, <2>3 DEF TypeInv, scanVars, VRegs
<1>5. CASE Execute
  <2>1. /\ MachineShape(mf) /\ UNCHANGED scanVars /\ phase = "run" /\ phase' = "run"
        /\ DOMAIN contents = PReg \union 1..slots
    BY <1>5 DEF Execute, TypeInv
  <2>2. DOMAIN contents' = PReg \union 1..slots
    BY <1>5, <2>1 DEF Execute, Runs, Stored, Computed, Reloaded
  <2>3. PICK b \in DOMAIN mf.blocks : pc \in BlockPoints(mf, b)
    BY <2>1 DEF TypeInv
  <2>4. \E x \in DOMAIN mf.blocks : pc' \in BlockPoints(mf, x)
    <3>1. CASE Ending = {}
      <4>1. pc # mf.blocks[b].last /\ pc' = pc + 1
        BY <1>5, <3>1 DEF Ending, Execute
      <4> QED BY <2>1, <2>3, <4>1, BlockWithin DEF MachineShape
    <3>2. CASE Ending # {}
      <4>1. PICK c \in Ending : \E s \in mf.blocks[c].succ : pc' = mf.blocks[s].first
        BY <1>5, <3>2 DEF Execute
      <4>2. PICK s \in mf.blocks[c].succ : pc' = mf.blocks[s].first
        BY <4>1
      <4>3. s \in DOMAIN mf.blocks
        BY <2>1, <4>2 DEF Ending, MachineShape
      <4> QED BY <2>1, <4>2, <4>3, BlockWithin DEF MachineShape
    <3> QED BY <3>1, <3>2
  <2> QED BY <2>1, <2>2, <2>4 DEF TypeInv, scanVars, VRegs
<1>6. CASE RewritePanics \/ Return
  <2>1. UNCHANGED scanVars /\ phase' \in {"panic", "done"}
    BY <1>6 DEF RewritePanics, Return
  <2> QED BY <2>1 DEF TypeInv, scanVars, VRegs
<1>7. CASE Over \/ UNCHANGED vars
  BY <1>7 DEF Over, vars, scanVars, TypeInv, VRegs
<1> QED BY <1>1, <1>2, <1>3, <1>4, <1>5, <1>6, <1>7 DEF Next

(* Every place handed out is a register or a slot of the frame, and the      *)
(* running code is always at an instruction.                                 *)
THEOREM PlacesAndPointsTyped == Spec => []TypeOK
<1>1. Init => TypeInv
  BY DEF Init, TypeInv, VRegs
<1>2. CopyInv /\ CodeInv /\ ScanInv /\ TypeInv /\ [Next]_vars => TypeInv'
  BY TypeNext
<1>3. CopyInv /\ ScanInv /\ TypeInv => TypeOK
  <2> SUFFICES ASSUME CopyInv, ScanInv, TypeInv PROVE TypeOK
    OBVIOUS
  <2>1. vregs \in Nat /\ slots \in Nat
    BY DEF CopyInv, CopyState, ScanInv, ScanShape
  <2>2. \A a \in active : a.vreg \in DOMAIN assign /\ a.preg \in ToSet(Allocatable)
    BY DEF ScanInv, ScanShape, TypeInv, VRegs
  <2>3. phase = "run" => pc \in Points(mf)
    BY BlockWithin DEF TypeInv, MachineShape
  <2> QED BY <2>1, <2>2, <2>3 DEF TypeInv, TypeOK
<1> QED BY <1>1, <1>2, <1>3, CopyInvariant, CodeInvariant, ScanInvariant, PTL DEF Spec

-----------------------------------------------------------------------------
(* What the code needs at a point *)

(* Arrived at point p of block b, the code reads n before it writes it, in   *)
(* this block or in one it leads to.                                         *)
LiveAt(m, n, b, p) ==
  \/ \E u \in p .. m.blocks[b].last :
       u \in UsePoints(m, n) /\ \A q \in p .. (u - 1) : q \notin DefPoints(m, n)
  \/ /\ b \in LiveOutOf(m, LiveInto(m, n))
     /\ \A q \in p .. m.blocks[b].last : q \notin DefPoints(m, n)

(* The points of a block.                                                    *)
LEMMA BlockBounds ==
  ASSUME NEW m, Numbered(m), NEW b \in DOMAIN m.blocks
  PROVE  /\ m.blocks[b].first \in Nat /\ m.blocks[b].last \in Nat
         /\ 1 <= m.blocks[b].first /\ m.blocks[b].first <= m.blocks[b].last
         /\ BlockPoints(m, b) = m.blocks[b].first .. m.blocks[b].last
         /\ BlockPoints(m, b) \subseteq Points(m)
<1>1. PICK n \in Nat : Points(m) = 1..n
  BY DEF Numbered
<1>2. m.blocks[b].first \in 1..n /\ m.blocks[b].last \in 1..n /\ m.blocks[b].first <= m.blocks[b].last
  BY <1>1 DEF Numbered
<1> QED BY <1>2, BlockWithin DEF BlockPoints

(* A register that is read at a point is live there.                         *)
LEMMA ReadIsLive ==
  ASSUME NEW m, Numbered(m), NEW b \in DOMAIN m.blocks, NEW p \in BlockPoints(m, b), NEW n,
         n \in Uses(m.insts[p])
  PROVE  LiveAt(m, n, b, p)
<1>1. p \in Nat /\ p <= m.blocks[b].last /\ m.blocks[b].last \in Nat /\ p \in Points(m)
  BY BlockBounds
<1>2. p \in UsePoints(m, n) /\ p \in p .. m.blocks[b].last /\ p .. (p - 1) = {}
  BY <1>1 DEF UsePoints
<1> QED BY <1>2 DEF LiveAt

(* What is needed behind an instruction and not made by it is needed ahead   *)
(* of it.                                                                     *)
LEMMA LiveBefore ==
  ASSUME NEW m, Numbered(m), NEW b \in DOMAIN m.blocks, NEW p \in BlockPoints(m, b),
         p # m.blocks[b].last, NEW n, n \notin Defs(m.insts[p]), LiveAt(m, n, b, p + 1)
  PROVE  LiveAt(m, n, b, p)
<1> DEFINE last == m.blocks[b].last
<1>1. p \in Nat /\ p < last /\ last \in Nat /\ p \notin DefPoints(m, n)
  BY BlockBounds DEF DefPoints
<1> HIDE DEF last
<1>2. ASSUME NEW u \in (p + 1) .. last, u \in UsePoints(m, n),
             \A q \in (p + 1) .. (u - 1) : q \notin DefPoints(m, n)
      PROVE  LiveAt(m, n, b, p)
  <2>1. u \in p .. last /\ \A q \in p .. (u - 1) : q \notin DefPoints(m, n)
    BY <1>1, <1>2
  <2> QED BY <1>2, <2>1 DEF LiveAt, last
<1>3. ASSUME b \in LiveOutOf(m, LiveInto(m, n)), \A q \in (p + 1) .. last : q \notin DefPoints(m, n)
      PROVE  LiveAt(m, n, b, p)
  <2>1. \A q \in p .. last : q \notin DefPoints(m, n)
    BY <1>1, <1>3
  <2> QED BY <1>3, <2>1 DEF LiveAt, last
<1> QED BY <1>2, <1>3 DEF LiveAt, last

(* What is needed at the start of a block is live into it, and needed at the *)
(* end of each block that leads there.                                       *)
LEMMA LiveAcross ==
  ASSUME NEW m, Numbered(m), NEW b \in DOMAIN m.blocks, NEW s \in m.blocks[b].succ,
         s \in DOMAIN m.blocks, Defs(m.insts[m.blocks[b].last]) = {},
         NEW n, LiveAt(m, n, s, m.blocks[s].first)
  PROVE  s \in LiveInto(m, n) /\ LiveAt(m, n, b, m.blocks[b].last)
<1>1. /\ BlockPoints(m, s) = m.blocks[s].first .. m.blocks[s].last
      /\ m.blocks[s].first \in Nat /\ m.blocks[s].last \in Nat
      /\ m.blocks[b].first \in Nat /\ m.blocks[b].last \in Nat
  BY BlockBounds
<1>2. Exposed(m, n, s) \/ (s \in LiveOutOf(m, LiveInto(m, n)) /\ ~Written(m, n, s))
  BY <1>1 DEF LiveAt, Exposed, Written
<1>3. s \in LiveInto(m, n)
  BY <1>2, LeastSolves DEF Solves
<1>4. b \in LiveOutOf(m, LiveInto(m, n))
  BY <1>3 DEF LiveOutOf
<1>5. \A q \in m.blocks[b].last .. m.blocks[b].last : q \notin DefPoints(m, n)
  BY <1>1 DEF DefPoints
<1> QED BY <1>3, <1>4, <1>5 DEF LiveAt

-----------------------------------------------------------------------------
(* The live stretches cover what is needed *)

(* The stretches of a block, with the names of their definition.             *)
LEMMA Stretches ==
  ASSUME NEW m, NEW v, NEW b \in DOMAIN m.blocks, Numbered(m), NEW out
  PROVE  LET defs == BlockPoints(m, b) \cap DefPoints(m, v)
             uses == BlockPoints(m, b) \cap UsePoints(m, v)
         IN  \E ends \in [Int -> SUBSET Int] :
           /\ \A p \in Int :
                /\ ends[p] \subseteq BlockPoints(m, b)
                /\ b \in out /\ (\A d \in defs : d <= p) => m.blocks[b].last \in ends[p]
                /\ \A u \in uses : p < u /\ (\A d \in defs : d <= p \/ u <= d) =>
                     u \in ends[p] \/ m.blocks[b].last \in ends[p]
           /\ \A d \in defs : Interval(d, Max({d} \union ends[d])) \in BlockSegments(m, v, out, b)
           /\ ends[m.blocks[b].first - 1] # {} =>
                Interval(m.blocks[b].first, Max(ends[m.blocks[b].first - 1])) \in BlockSegments(m, v, out, b)
<1> DEFINE defs == BlockPoints(m, b) \cap DefPoints(m, v)
           uses == BlockPoints(m, b) \cap UsePoints(m, v)
           NextDefs(p) == {d \in defs : d > p}
           ReadFrom(p) == IF NextDefs(p) # {} THEN {u \in uses : p < u /\ u <= Min(NextDefs(p))}
                          ELSE {u \in uses : p < u}
           EndFrom(p) == IF NextDefs(p) = {} /\ b \in out THEN {m.blocks[b].last} ELSE ReadFrom(p)
           ends == [p \in Int |-> EndFrom(p)]
           entry == m.blocks[b].first
<1>1. /\ entry \in Nat /\ m.blocks[b].last \in Nat /\ entry <= m.blocks[b].last /\ 1 <= entry
      /\ BlockPoints(m, b) = entry .. m.blocks[b].last
  BY BlockBounds
<1>2. /\ \A p \in Int : ends[p] = EndFrom(p)
      /\ BlockPoints(m, b) \subseteq 1..m.blocks[b].last
  BY <1>1
<1>3. ASSUME NEW p \in Int
      PROVE  /\ EndFrom(p) \subseteq BlockPoints(m, b)
             /\ b \in out /\ (\A d \in defs : d <= p) => m.blocks[b].last \in EndFrom(p)
             /\ \A u \in uses : p < u /\ (\A d \in defs : d <= p \/ u <= d) =>
                  u \in EndFrom(p) \/ m.blocks[b].last \in EndFrom(p)
  <2>1. EndFrom(p) \subseteq BlockPoints(m, b)
    BY <1>1
  <2>2. ASSUME b \in out, \A d \in defs : d <= p PROVE m.blocks[b].last \in EndFrom(p)
    <3>1. NextDefs(p) = {}
      BY <2>2, <1>2
    <3> QED BY <2>2, <3>1
  <2>3. ASSUME NEW u \in uses, p < u, \A d \in defs : d <= p \/ u <= d
        PROVE  u \in EndFrom(p) \/ m.blocks[b].last \in EndFrom(p)
    <3>1. CASE NextDefs(p) = {}
      BY <2>3, <3>1
    <3>2. CASE NextDefs(p) # {}
      <4>1. NextDefs(p) \subseteq 1..m.blocks[b].last
        BY <1>2
      <4>2. Min(NextDefs(p)) \in NextDefs(p)
        <5> HIDE DEF NextDefs
        <5> QED BY <3>2, <4>1, <1>1, Extremes
      <4>3. u <= Min(NextDefs(p))
        <5>1. \A d \in NextDefs(p) : d \in defs /\ d > p /\ d \in Int
          BY <1>2
        <5> HIDE DEF NextDefs
        <5> QED BY <4>2, <5>1, <2>3
      <4> QED BY <2>3, <3>2, <4>3
    <3> QED BY <3>1, <3>2
  <2> QED BY <2>1, <2>2, <2>3
<1>4. ends \in [Int -> SUBSET Int]
  <2>1. BlockPoints(m, b) \subseteq Int
    BY <1>1
  <2>2. \A p \in Int : EndFrom(p) \subseteq Int
    BY <1>3, <2>1
  <2> QED BY <2>2
<1>5. BlockSegments(m, v, out, b) =
        {Interval(d, Max({d} \union EndFrom(d))) : d \in defs}
          \union {Interval(entry, e) : e \in IF EndFrom(entry - 1) = {} THEN {}
                                             ELSE {Max(EndFrom(entry - 1))}}
  BY DEF BlockSegments
<1>6. entry - 1 \in Int /\ defs \subseteq Int
  BY <1>1
<1> HIDE DEF EndFrom, defs, uses
<1>7. ASSUME NEW d \in defs
      PROVE  Interval(d, Max({d} \union ends[d])) \in BlockSegments(m, v, out, b)
  BY <1>2, <1>5, <1>6
<1>8. ASSUME ends[entry - 1] # {}
      PROVE  Interval(entry, Max(ends[entry - 1])) \in BlockSegments(m, v, out, b)
  BY <1>2, <1>5, <1>6, <1>8
<1> HIDE DEF ends, entry
<1>9. \A p \in Int :
                /\ ends[p] \subseteq BlockPoints(m, b)
                /\ b \in out /\ (\A d \in defs : d <= p) => m.blocks[b].last \in ends[p]
                /\ \A u \in uses : p < u /\ (\A d \in defs : d <= p \/ u <= d) =>
                     u \in ends[p] \/ m.blocks[b].last \in ends[p]
  BY <1>2, <1>3
<1> QED BY <1>4, <1>7, <1>8, <1>9 DEF entry, defs, uses

(* Where v is needed, a stretch of the block goes on that began before, with *)
(* a definition or with the block.                                           *)
LEMMA RawCovers ==
  ASSUME NEW m, NEW v, NEW b \in DOMAIN m.blocks, Numbered(m), NEW q \in BlockPoints(m, b),
         LiveAt(m, v, b, q)
  PROVE  \E i \in BlockSegments(m, v, LiveOutOf(m, LiveInto(m, v)), b) :
           /\ i.start <= q /\ q <= i.end
           /\ i.start < q \/ i.start = m.blocks[b].first
<1> DEFINE out == LiveOutOf(m, LiveInto(m, v))
           last == m.blocks[b].last
           entry == m.blocks[b].first
           defs == BlockPoints(m, b) \cap DefPoints(m, v)
           uses == BlockPoints(m, b) \cap UsePoints(m, v)
<1>1. PICK ends \in [Int -> SUBSET Int] :
           /\ \A p \in Int :
                /\ ends[p] \subseteq BlockPoints(m, b)
                /\ b \in out /\ (\A d \in defs : d <= p) => last \in ends[p]
                /\ \A u \in uses : p < u /\ (\A d \in defs : d <= p \/ u <= d) =>
                     u \in ends[p] \/ last \in ends[p]
           /\ \A d \in defs : Interval(d, Max({d} \union ends[d])) \in BlockSegments(m, v, out, b)
           /\ ends[entry - 1] # {} => Interval(entry, Max(ends[entry - 1])) \in BlockSegments(m, v, out, b)
  BY Stretches
<1>2. /\ entry \in Nat /\ last \in Nat /\ 1 <= entry /\ entry <= last
      /\ BlockPoints(m, b) = entry .. last
  BY BlockBounds
<1> HIDE DEF entry, last, out
<1>3. q \in Nat /\ entry <= q /\ q <= last /\ BlockPoints(m, b) \subseteq 1..last
  BY <1>2
\* A point from which nothing is written up to q.
<1>4. ASSUME NEW p \in Int, entry - 1 <= p, p < q, \A d \in defs : d <= p \/ q <= d
      PROVE  \E e \in ends[p] : q <= e
  <2>1. CASE b \in out /\ \A x \in q .. last : x \notin DefPoints(m, v)
    <3>1. \A d \in defs : d <= p
      BY <1>1, <1>2, <1>3, <1>4, <2>1
    <3> QED BY <1>1, <1>3, <2>1, <3>1
  <2>2. CASE ~(b \in out /\ \A x \in q .. last : x \notin DefPoints(m, v))
    <3>1. PICK u \in q .. last : u \in UsePoints(m, v) /\ \A x \in q .. (u - 1) : x \notin DefPoints(m, v)
      BY <2>2 DEF LiveAt, out, last
    <3>2. u \in uses /\ p < u
      BY <1>1, <1>2, <1>3, <1>4, <3>1
    <3>3. \A d \in defs : d <= p \/ u <= d
      <4> TAKE d \in defs
      <4>1. d \in DefPoints(m, v) /\ d \in Int
        BY <1>1, <1>2
      <4> QED BY <1>3, <1>4, <3>1, <4>1
    <3>4. u \in ends[p] \/ last \in ends[p]
      BY <1>1, <3>2, <3>3
    <3> QED BY <1>3, <3>1, <3>4
  <2> QED BY <2>1, <2>2
<1> DEFINE before == {d \in defs : d < q}
<1>5. CASE before # {}
  <2>1. before \subseteq 1..last /\ before \subseteq defs
    BY <1>1, <1>3
  <2> DEFINE d == Max(before)
  <2>2. d \in before /\ \A x \in before : x <= d
    <3> HIDE DEF before
    <3> QED BY <1>2, <1>5, <2>1, Extremes
  <2> HIDE DEF d
  <2>3. d \in defs /\ d \in Int /\ entry - 1 <= d /\ d < q /\ d \in 1..last
    BY <1>1, <1>2, <2>1, <2>2
  <2>4. \A x \in defs : x <= d \/ q <= x
    <3> TAKE x \in defs
    <3>1. x \in Int
      BY <1>1, <1>3
    <3> QED BY <3>1, <1>3, <2>2
  <2>5. PICK e \in ends[d] : q <= e
    BY <1>4, <2>3, <2>4
  <2> DEFINE S == {d} \union ends[d]
  <2>6. S \subseteq 1..last /\ S # {} /\ e \in S
    <3>1. ends[d] \subseteq BlockPoints(m, b)
      BY <1>1, <2>3
    <3> QED BY <1>3, <2>3, <2>5, <3>1
  <2>7. Max(S) \in 1..last /\ e <= Max(S) /\ e \in 1..last
    <3> HIDE DEF S
    <3> QED BY <1>2, <2>6, Extremes
  <2>8. Interval(d, Max(S)) \in BlockSegments(m, v, out, b)
    BY <1>1, <2>3
  <2> HIDE DEF S
  <2>9. Interval(d, Max(S)).start = d /\ Interval(d, Max(S)).end = Max(S)
    BY DEF Interval
  <2>10. d <= q /\ q <= Max(S)
    BY <1>3, <2>3, <2>5, <2>7
  <2> QED BY <2>3, <2>8, <2>9, <2>10 DEF out
<1>6. CASE before = {}
  <2>1. \A x \in defs : x <= entry - 1 \/ q <= x
    BY <1>1, <1>3, <1>6
  <2>2. entry - 1 \in Int /\ entry - 1 < q
    BY <1>2, <1>3
  <2>3. PICK e \in ends[entry - 1] : q <= e
    BY <1>4, <2>1, <2>2
  <2> DEFINE S == ends[entry - 1]
  <2>4. S \subseteq 1..last /\ S # {} /\ e \in S
    BY <1>1, <1>3, <2>2, <2>3
  <2>5. Max(S) \in 1..last /\ e <= Max(S) /\ e \in 1..last
    <3> HIDE DEF S
    <3> QED BY <1>2, <2>4, Extremes
  <2>6. Interval(entry, Max(S)) \in BlockSegments(m, v, out, b)
    BY <1>1, <2>4
  <2> HIDE DEF S
  <2>7. Interval(entry, Max(S)).start = entry /\ Interval(entry, Max(S)).end = Max(S)
    BY DEF Interval
  <2>8. entry <= q /\ q <= Max(S)
    BY <1>3, <2>3, <2>5
  <2> QED BY <2>6, <2>7, <2>8 DEF out, entry
<1> QED BY <1>5, <1>6

(* Every definition begins a stretch.                                        *)
LEMMA RawBegins ==
  ASSUME NEW m, NEW v, NEW b \in DOMAIN m.blocks, Numbered(m),
         NEW p \in BlockPoints(m, b) \cap DefPoints(m, v)
  PROVE  \E i \in BlockSegments(m, v, LiveOutOf(m, LiveInto(m, v)), b) : i.start = p /\ p <= i.end
<1>1. PICK ends \in [Int -> SUBSET Int] :
        Interval(p, Max({p} \union ends[p])) \in BlockSegments(m, v, LiveOutOf(m, LiveInto(m, v)), b)
  BY Stretches
<1> DEFINE i == Interval(p, Max({p} \union ends[p]))
<1>2. i.start = p
  BY DEF Interval
<1> HIDE DEF i
<1>3. i.start <= i.end
  BY <1>1, SegmentEnds DEF i
<1> QED BY <1>1, <1>2, <1>3 DEF i

(* Joining loses nothing: each stretch lies in a joined one, and none of     *)
(* these ends inside a stretch that goes on.                                 *)
LEMMA MergeCovers ==
  ASSUME NEW n \in Nat, NEW segs,
         \A i \in segs : i.start \in 1..n /\ i.end \in 1..n /\ i.start <= i.end,
         NEW i \in segs
  PROVE  /\ \E o \in Merge(segs) : o.start <= i.start /\ i.end <= o.end
         /\ \A o \in Merge(segs) : ~(i.start <= o.end /\ o.end < i.end)
<1> DEFINE firsts == {x.start : x \in {x \in segs : \A y \in segs : ~(y.start < x.start /\ x.start <= y.end)}}
           lasts == {x.end : x \in {x \in segs : \A y \in segs : ~(y.start <= x.end /\ x.end < y.end)}}
           Later(f) == {e \in lasts : e >= f}
<1>1. Merge(segs) = {Interval(f, Min(Later(f))) : f \in firsts}
  BY DEF Merge
<1>2. lasts \subseteq 1..n /\ firsts \subseteq 1..n
  OBVIOUS
<1>3. ASSUME NEW e \in lasts, NEW y \in segs PROVE ~(y.start <= e /\ e < y.end)
  OBVIOUS
\* The stretch that ends last ends where a joined one does.
<1>4. ASSUME NEW f \in firsts PROVE Min(Later(f)) \in Later(f)
  <2> DEFINE ends == {x.end : x \in segs}
  <2>1. ends \subseteq 1..n /\ ends # {}
    OBVIOUS
  <2>2. PICK e \in ends : \A x \in ends : x <= e
    <3> HIDE DEF ends
    <3> QED BY <2>1, Extremes
  <2>3. e \in lasts
    <3>1. PICK x \in segs : x.end = e
      OBVIOUS
    <3>2. \A y \in segs : ~(y.start <= x.end /\ x.end < y.end)
      <4> TAKE y \in segs
      <4>1. y.end <= x.end /\ y.end \in 1..n /\ x.end \in 1..n
        BY <2>2, <3>1
      <4> QED BY <4>1
    <3> QED BY <3>1, <3>2
  <2>4. e >= f
    <3>1. PICK x \in segs : x.start = f
      OBVIOUS
    <3>2. x.end <= e
      BY <2>2
    <3> QED BY <2>1, <3>1, <3>2
  <2>5. Later(f) \subseteq 1..n /\ Later(f) # {}
    BY <1>2, <2>3, <2>4
  <2> HIDE DEF Later
  <2> QED BY <2>5, Extremes
<1>5. \A o \in Merge(segs) : ~(i.start <= o.end /\ o.end < i.end)
  <2> SUFFICES ASSUME NEW f \in firsts
               PROVE  LET o == Interval(f, Min(Later(f))) IN ~(i.start <= o.end /\ o.end < i.end)
    <3> HIDE DEF firsts, Later
    <3> QED BY <1>1
  <2>1. Min(Later(f)) \in lasts
    BY <1>4
  <2> HIDE DEF Later, lasts
  <2> QED BY <1>3, <2>1 DEF Interval
\* The last joined stretch that begins no later.
<1> DEFINE early == {f \in firsts : f <= i.start}
<1>6. ASSUME NEW T, T \subseteq segs, T # {}
      PROVE  \E x \in T : \A y \in T : x.start <= y.start
  <2> DEFINE starts == {x.start : x \in T}
  <2>1. starts \subseteq 1..n /\ starts # {}
    BY <1>6
  <2>2. PICK s \in starts : \A y \in starts : s <= y
    <3> HIDE DEF starts
    <3> QED BY <2>1, Extremes
  <2> QED BY <2>2
<1>7. early # {}
  <2>1. PICK x \in segs : \A y \in segs : x.start <= y.start
    BY <1>6
  <2>2. \A y \in segs : ~(y.start < x.start /\ x.start <= y.end)
    <3> TAKE y \in segs
    <3>1. x.start <= y.start /\ x.start \in 1..n /\ y.start \in 1..n
      BY <2>1
    <3> QED BY <3>1
  <2>3. x.start \in firsts /\ x.start <= i.start
    BY <2>1, <2>2
  <2> QED BY <2>3
<1>8. PICK f \in early : \A x \in early : x <= f
  <2>1. early \subseteq 1..n
    BY <1>2
  <2> HIDE DEF early
  <2> QED BY <1>7, <2>1, Extremes
<1> DEFINE e == Min(Later(f))
<1>9. e \in lasts /\ e \in 1..n /\ f <= e /\ f \in 1..n /\ f \in firsts /\ f <= i.start
  <2>1. e \in Later(f) /\ f \in firsts /\ f <= i.start
    BY <1>4, <1>8
  <2> HIDE DEF e
  <2> QED BY <1>2, <2>1
<1> HIDE DEF e, Later
<1>10. i.end <= e
  <2> SUFFICES ASSUME e < i.end PROVE FALSE
    BY <1>9
  <2> DEFINE behind == {x \in segs : e < x.start}
  <2>1. i \in behind
    BY <1>3, <1>9
  <2>2. PICK x \in behind : \A y \in behind : x.start <= y.start
    BY <1>6, <2>1
  <2>3. \A y \in segs : ~(y.start < x.start /\ x.start <= y.end)
    <3> SUFFICES ASSUME NEW y \in segs, y.start < x.start, x.start <= y.end PROVE FALSE
      OBVIOUS
    <3>1. /\ x.start \in 1..n /\ y.start \in 1..n /\ y.end \in 1..n /\ e < x.start
          /\ (e < y.start => x.start <= y.start)
      BY <2>2
    <3>2. y.start <= e /\ e < y.end
      BY <1>9, <3>1
    <3> QED BY <1>3, <1>9, <3>2
  <2>4. x.start \in firsts /\ x.start <= i.start /\ e < x.start /\ x.start \in 1..n
    BY <2>1, <2>2, <2>3
  <2>5. x.start <= f
    BY <1>8, <2>4
  <2> QED BY <1>9, <2>4, <2>5
<1>11. Interval(f, e) \in Merge(segs)
  BY <1>1, <1>9 DEF e
<1>12. Interval(f, e).start <= i.start /\ i.end <= Interval(f, e).end
  BY <1>9, <1>10 DEF Interval
<1> QED BY <1>5, <1>11, <1>12

(* What the allocator takes for the live stretches covers those of every     *)
(* block; and if it goes by more than the hull, none ends inside another.    *)
LEMMA SegmentsCover ==
  ASSUME NEW m, NEW n \in Nat, Numbered(m), NEW v \in 1..n, NEW b \in DOMAIN m.blocks,
         NEW i \in BlockSegments(m, v, LiveOutOf(m, LiveInto(m, v)), b)
  PROVE  /\ \E j \in LivenessOf(m, n).segs[v] : j.start <= i.start /\ i.end <= j.end
         /\ m.precise => \A j \in LivenessOf(m, n).segs[v] : ~(i.start <= j.end /\ j.end < i.end)
<1> DEFINE segs == UNION {BlockSegments(m, v, LiveOutOf(m, LiveInto(m, v)), x) : x \in DOMAIN m.blocks}
           T == Touching(m, v, LiveInto(m, v))
<1>1. LivenessOf(m, n).segs[v] = IF m.precise THEN Merge(segs) ELSE Hull(m, v, LiveInto(m, v))
  BY DEF LivenessOf, LiveSegments
<1>2. PICK p \in Nat : Points(m) = 1..p
  BY DEF Numbered
<1>3. T \subseteq 1..p
  BY <1>2, TouchedPoints
<1>4. \A x \in segs : x.start \in T /\ x.end \in T /\ x.start <= x.end
  BY SegmentEnds
<1>5. i \in segs
  OBVIOUS
<1>6. CASE m.precise
  <2>1. \A x \in segs : x.start \in 1..p /\ x.end \in 1..p /\ x.start <= x.end
    BY <1>3, <1>4
  <2> HIDE DEF segs
  <2> QED BY <1>1, <1>5, <1>6, <2>1, MergeCovers
<1>7. CASE ~m.precise
  <2>1. i.start \in T /\ i.end \in T
    BY <1>4, <1>5
  <2> HIDE DEF T
  <2>2. PICK lo \in T, hi \in T :
          Hull(m, v, LiveInto(m, v)) = {Interval(lo, hi)} /\ \A x \in T : lo <= x /\ x <= hi
    BY <2>1, HullSpans DEF T
  <2>3. lo <= i.start /\ i.end <= hi
    BY <2>1, <2>2
  <2> DEFINE j == Interval(lo, hi)
  <2>4. j.start = lo /\ j.end = hi
    BY DEF Interval
  <2>5. j \in LivenessOf(m, n).segs[v]
    BY <1>1, <1>7, <2>2
  <2> HIDE DEF j
  <2>6. j.start <= i.start /\ i.end <= j.end
    BY <2>3, <2>4
  <2> QED BY <1>7, <2>5, <2>6
<1> QED BY <1>6, <1>7

(* The last use a range of r reaches when it begins at p.                    *)
LastRead(m, r, p) ==
  LET next == {d \in DefPoints(m, r) : d > p}
  IN  IF next = {} THEN Max({p} \union {u \in UsePoints(m, r) : u > p})
      ELSE Max({p} \union {u \in UsePoints(m, r) : p < u /\ u <= Min(next)})

(* A range of a physical register reaches its last use.                      *)
LEMMA LastReadReaches ==
  ASSUME NEW m, Numbered(m), NEW r, NEW p \in Nat, p = 0 \/ p \in Points(m)
  PROVE  /\ LastRead(m, r, p) \in Nat /\ p <= LastRead(m, r, p)
         /\ \A u \in UsePoints(m, r) :
              p < u /\ (\A d \in DefPoints(m, r) : d <= p \/ u <= d) => u <= LastRead(m, r, p)
<1> DEFINE defs == DefPoints(m, r)
           uses == UsePoints(m, r)
           next == {d \in defs : d > p}
           reads == IF next = {} THEN {u \in uses : u > p} ELSE {u \in uses : p < u /\ u <= Min(next)}
           S == {p} \union reads
<1>1. PICK n \in Nat : Points(m) = 1..n
  BY DEF Numbered
<1>2. defs \subseteq 1..n /\ uses \subseteq 1..n
  BY <1>1 DEF DefPoints, UsePoints
<1>3. LastRead(m, r, p) = Max(S)
  BY DEF LastRead
<1>4. S \subseteq 0..n /\ S # {}
  BY <1>1, <1>2
<1>5. Max(S) \in S /\ \A x \in S : x <= Max(S)
  <2>1. \E x \in S : \A y \in S : y <= x
    <3> HIDE DEF S
    <3> QED BY <1>4, GreatestNat
  <2>2. \E x \in S : \A y \in S : x >= y
    <3> HIDE DEF S
    <3>1. \A x, y \in S : y <= x => x >= y
      BY <1>4
    <3> QED BY <2>1, <3>1
  <2> HIDE DEF S
  <2>3. Max(S) \in S /\ \A y \in S : Max(S) >= y
    BY <2>2 DEF Max
  <2> QED BY <1>4, <2>3
<1>6. ASSUME NEW u \in uses, p < u, \A d \in defs : d <= p \/ u <= d PROVE u \in S
  <2>1. CASE next = {}
    BY <1>6, <2>1, <1>2
  <2>2. CASE next # {}
    <3>1. next \subseteq 1..n
      BY <1>2
    <3>2. Min(next) \in next
      <4> HIDE DEF next
      <4> QED BY <2>2, <3>1, Extremes
    <3>3. \A d \in next : u <= d
      BY <1>2, <1>6
    <3> HIDE DEF next
    <3> QED BY <1>6, <2>2, <3>2, <3>3
  <2> QED BY <2>1, <2>2
<1>7. p \in S
  OBVIOUS
<1> HIDE DEF S
<1>8. Max(S) \in Nat /\ p <= Max(S)
  <2>1. Max(S) \in S /\ p <= Max(S)
    BY <1>5, <1>7, Zenon
  <2>2. \A x \in S : x \in Nat
    BY <1>4
  <2> QED BY <2>1, <2>2, Zenon
<1> QED BY <1>3, <1>5, <1>6, <1>8

(* A live range of a physical register, from its beginning.                  *)
Ranged(m, r, p, from) ==
  LET last == LastRead(m, r, p)
  IN  [iv |-> Interval(IF p = 0 THEN 1 ELSE p, last), from |-> from,
       to |-> IF last \in UsePoints(m, r) \ DefPoints(m, r) THEN Partner(m, r, last) ELSE {}]

(* The ranges of a physical register begin at its definitions or at the      *)
(* start of the code.                                                        *)
LEMMA FixedForms ==
  ASSUME NEW m, Numbered(m), NEW r
  PROVE  /\ \A d \in DefPoints(m, r) :
              Ranged(m, r, d, IF d \in UsePoints(m, r) THEN {} ELSE Partner(m, r, d)) \in FixedRanges(m, r)
         /\ UsePoints(m, r) # {} /\ (\A d \in DefPoints(m, r) : Min(UsePoints(m, r)) <= d) =>
              Ranged(m, r, 0, {}) \in FixedRanges(m, r)
         /\ \A R \in FixedRanges(m, r) :
              \E p, from : R = Ranged(m, r, p, from) /\ from \in {{}, Partner(m, r, p)}
<1> DEFINE defs == DefPoints(m, r)
           uses == UsePoints(m, r)
           NextDefs(p) == {d \in defs : d > p}
           LastUse(p) ==
             IF NextDefs(p) = {} THEN Max({p} \union {u \in uses : u > p})
             ELSE Max({p} \union {u \in uses : p < u /\ u <= Min(NextDefs(p))})
           Closing(p) == IF LastUse(p) \in uses \ defs THEN Partner(m, r, LastUse(p)) ELSE {}
           Opened(p) == [iv |-> Interval(p, LastUse(p)),
                         from |-> IF p \in uses THEN {} ELSE Partner(m, r, p),
                         to |-> Closing(p)]
           incoming == uses # {} /\ \A d \in defs : Min(uses) <= d
           first == [iv |-> Interval(1, LastUse(0)), from |-> {}, to |-> Closing(0)]
<1>1. \A p : LastUse(p) = LastRead(m, r, p)
  BY DEF LastRead
<1>2. FixedRanges(m, r) = {Opened(d) : d \in defs} \union IF incoming THEN {first} ELSE {}
  BY DEF FixedRanges
<1>3. defs \subseteq Nat \ {0}
  BY DEF Numbered, DefPoints
<1>4. \A d \in defs : Opened(d) = Ranged(m, r, d, IF d \in uses THEN {} ELSE Partner(m, r, d))
  <2> HIDE DEF LastUse
  <2> QED BY <1>1, <1>3 DEF Ranged
<1>5. first = Ranged(m, r, 0, {})
  <2> HIDE DEF LastUse
  <2> QED BY <1>1 DEF Ranged
<1> HIDE DEF Opened, first
<1>6. \A R \in FixedRanges(m, r) :
        \E p, from : R = Ranged(m, r, p, from) /\ from \in {{}, Partner(m, r, p)}
  <2> TAKE R \in FixedRanges(m, r)
  <2>1. CASE R = first
    BY <1>5, <2>1
  <2>2. CASE R # first
    <3>1. PICK d \in defs : R = Opened(d)
      BY <1>2, <2>2
    <3>2. R = Ranged(m, r, d, IF d \in uses THEN {} ELSE Partner(m, r, d))
      BY <1>4, <3>1
    <3>3. (IF d \in uses THEN {} ELSE Partner(m, r, d)) \in {{}, Partner(m, r, d)}
      OBVIOUS
    <3> QED BY <3>2, <3>3
  <2> QED BY <2>1, <2>2
<1> QED BY <1>2, <1>4, <1>5, <1>6

(* Where the code itself needs a physical register, one of its live ranges   *)
(* goes on that began before.                                                *)
LEMMA FixedCovers ==
  ASSUME NEW m, Numbered(m), NEW r, NEW q \in Points(m), NEW u \in UsePoints(m, r), q <= u,
         \A x \in q .. (u - 1) : x \notin DefPoints(m, r)
  PROVE  \E R \in FixedRanges(m, r) :
           /\ R.iv.start \in Nat /\ R.iv.end \in Nat /\ q <= R.iv.end
           /\ \/ R.iv.start < q /\ R.iv.start \in DefPoints(m, r)
              \/ R.iv.start = 1 /\ R.from = {}
           /\ R.iv.end = q => R.to \subseteq Partner(m, r, q)
<1> DEFINE defs == DefPoints(m, r)
           before == {d \in defs : d < q}
<1>1. PICK n \in Nat : Points(m) = 1..n
  BY DEF Numbered
<1>2. /\ defs \subseteq 1..n /\ u \in 1..n /\ q \in 1..n
      /\ UsePoints(m, r) \subseteq 1..n /\ UsePoints(m, r) # {}
  BY <1>1 DEF DefPoints, UsePoints
<1>3. ASSUME NEW p \in Nat, p = 0 \/ p \in Points(m), p < q, \A d \in defs : d <= p \/ q <= d,
             NEW from,
             Ranged(m, r, p, from) \in FixedRanges(m, r),
             (p # 0 /\ p \in defs) \/ (p = 0 /\ from = {})
      PROVE  \E R \in FixedRanges(m, r) :
               /\ R.iv.start \in Nat /\ R.iv.end \in Nat /\ q <= R.iv.end
               /\ \/ R.iv.start < q /\ R.iv.start \in DefPoints(m, r)
                  \/ R.iv.start = 1 /\ R.from = {}
               /\ R.iv.end = q => R.to \subseteq Partner(m, r, q)
  <2>1. \A d \in defs : d <= p \/ u <= d
    <3> TAKE d \in defs
    <3>1. d \in 1..n /\ (d <= p \/ q <= d)
      BY <1>2, <1>3
    <3> QED BY <1>2, <1>3, <3>1
  <2>2. LastRead(m, r, p) \in Nat /\ u <= LastRead(m, r, p)
    <3>1. p < u
      BY <1>2, <1>3
    <3> QED BY <1>3, <2>1, <3>1, LastReadReaches
  <2> DEFINE R == Ranged(m, r, p, from)
  <2>3. /\ R.iv.start = IF p = 0 THEN 1 ELSE p
        /\ R.iv.end = LastRead(m, r, p) /\ R.from = from
        /\ R.to \subseteq Partner(m, r, LastRead(m, r, p))
    BY DEF Ranged, Interval
  <2>4. R \in FixedRanges(m, r)
    BY <1>3
  <2> HIDE DEF R
  <2>5. q <= R.iv.end /\ R.iv.end \in Nat /\ R.iv.start \in Nat
    BY <1>2, <2>2, <2>3, <1>3
  <2> QED BY <1>3, <2>3, <2>4, <2>5
<1>4. CASE before # {}
  <2>1. before \subseteq 1..n
    BY <1>2
  <2> DEFINE p == Max(before)
  <2>2. p \in before /\ \A d \in before : d <= p
    <3> HIDE DEF before
    <3> QED BY <1>4, <2>1, Extremes
  <2> HIDE DEF p
  <2>3. p \in defs /\ p \in Points(m) /\ p \in Nat /\ p # 0 /\ p < q
    BY <1>1, <2>1, <2>2
  <2>4. \A d \in defs : d <= p \/ q <= d
    <3> TAKE d \in defs
    <3>1. d \in 1..n
      BY <1>2
    <3> QED BY <1>2, <2>2, <3>1
  <2>5. Ranged(m, r, p, IF p \in UsePoints(m, r) THEN {} ELSE Partner(m, r, p)) \in FixedRanges(m, r)
    BY <2>3, FixedForms
  <2> QED BY <1>3, <2>3, <2>4, <2>5
<1>5. CASE before = {}
  <2>1. \A d \in defs : d <= 0 \/ q <= d
    BY <1>2, <1>5
  <2>2. Min(UsePoints(m, r)) <= u /\ Min(UsePoints(m, r)) \in 1..n
    BY <1>2, Extremes
  <2>3. \A d \in defs : Min(UsePoints(m, r)) <= d
    <3> TAKE d \in defs
    <3>1. d \in 1..n /\ q <= d /\ d \notin q .. (u - 1)
      BY <1>2, <2>1
    <3> QED BY <1>2, <2>2, <3>1
  <2>4. Ranged(m, r, 0, {}) \in FixedRanges(m, r)
    BY <1>2, <2>3, FixedForms
  <2>5. 0 < q
    BY <1>2
  <2> QED BY <1>3, <2>1, <2>4, <2>5
<1> QED BY <1>4, <1>5

(* Every definition begins a live range, which only a copy that makes it     *)
(* opens for another register.                                               *)
LEMMA FixedBegins ==
  ASSUME NEW m, Numbered(m), NEW r, NEW p \in DefPoints(m, r)
  PROVE  \E R \in FixedRanges(m, r) :
           /\ R.iv.start = p /\ R.iv.end \in Nat /\ p <= R.iv.end
           /\ R.from \subseteq Partner(m, r, p)
           /\ R.iv.end = p => R.to = {}
<1> DEFINE from == IF p \in UsePoints(m, r) THEN {} ELSE Partner(m, r, p)
           R == Ranged(m, r, p, from)
<1>1. R \in FixedRanges(m, r)
  BY FixedForms
<1>2. p \in Nat \ {0} /\ p \in Points(m)
  BY DEF Numbered, DefPoints
<1>3. LastRead(m, r, p) \in Nat /\ p <= LastRead(m, r, p)
  BY <1>2, LastReadReaches
<1>4. /\ R.iv.start = p /\ R.iv.end = LastRead(m, r, p) /\ R.from = from
      /\ R.to = IF LastRead(m, r, p) \in UsePoints(m, r) \ DefPoints(m, r)
                THEN Partner(m, r, LastRead(m, r, p)) ELSE {}
  BY <1>2 DEF Ranged, Interval
<1> HIDE DEF R
<1> QED BY <1>1, <1>3, <1>4

-----------------------------------------------------------------------------
(* Who is kept out of whose register *)

(* What the scan goes by is what the code it allocates for says.             *)
Analysed == vregs \in Nat /\ VRegs = 1..vregs /\ Numbered(mf) /\ live = LivenessOf(mf, vregs)

(* Two intervals that share a point overlap.                                 *)
LEMMA Meeting ==
  ASSUME NEW i \in [start : Nat, end : Nat], NEW j \in [start : Nat, end : Nat], NEW p \in Nat,
         i.start <= p, p <= i.end, j.start <= p, p <= j.end,
         NEW S, NEW T, i \in S, j \in T
  PROVE  /\ Common(i, j) \in Overlaps(S, T)
         /\ Common(i, j).start <= p /\ p <= Common(i, j).end
         /\ Common(i, j).start \in Nat /\ Common(i, j).end \in Nat
<1> DEFINE lo == Max({i.start, j.start})
           hi == Min({i.end, j.end})
<1>1. lo \in {i.start, j.start}
  <2>1. \E x \in {i.start, j.start} : \A y \in {i.start, j.start} : x >= y
    OBVIOUS
  <2> QED BY <2>1 DEF Max
<1>2. hi \in {i.end, j.end}
  <2>1. \E x \in {i.end, j.end} : \A y \in {i.end, j.end} : x <= y
    OBVIOUS
  <2> QED BY <2>1 DEF Min
<1>3. Common(i, j).start = lo /\ Common(i, j).end = hi
  BY DEF Common, Interval
<1> HIDE DEF lo, hi
<1>4. lo <= p /\ p <= hi /\ lo \in Nat /\ hi \in Nat /\ lo <= hi
  BY <1>1, <1>2
<1>5. Common(i, j) \in Overlaps(S, T)
  BY <1>3, <1>4 DEF Overlaps
<1> QED BY <1>3, <1>4, <1>5

(* Two registers that live at a point where they are not tied interfere.     *)
LEMMA RegistersMeet ==
  ASSUME SegmentsInHull, NEW u \in VRegs, NEW v \in VRegs,
         NEW i \in live.segs[u], NEW j \in live.segs[v], NEW p \in Nat,
         i.start <= p, p <= i.end, j.start <= p, p <= j.end, ~TiedAt(u, v, p)
  PROVE  Interferes(u, v)
<1>1. i \in [start : Nat, end : Nat] /\ j \in [start : Nat, end : Nat]
  BY DEF SegmentsInHull
<1>2. /\ Common(i, j) \in Overlaps(live.segs[u], live.segs[v])
      /\ Common(i, j).start <= p /\ p <= Common(i, j).end
      /\ Common(i, j).start \in Nat /\ Common(i, j).end \in Nat
  BY <1>1, Meeting
<1>3. Common(i, j).start = Common(i, j).end => Common(i, j).start = p
  BY <1>2
<1> QED BY <1>2, <1>3 DEF Interferes

(* A register that lives within a range of a physical register collides      *)
(* with it, unless the range carries its value.                              *)
LEMMA FixedMeets ==
  ASSUME SegmentsInHull, NEW v \in VRegs, NEW i \in live.segs[v], NEW r, NEW R \in live.fixed[r],
         R.iv \in [start : Nat, end : Nat], NEW p \in Nat,
         i.start <= p, p <= i.end, R.iv.start <= p, p <= R.iv.end,
         v \in R.from => Redefined(v, R),
         v \in R.to => p < R.iv.end
  PROVE  FixedConflict(r, v)
<1>1. i \in [start : Nat, end : Nat]
  BY DEF SegmentsInHull
<1>2. Common(i, R.iv) \in Overlaps(live.segs[v], {R.iv})
  BY <1>1, Meeting
<1>3. ASSUME v \in R.to
      PROVE  /\ R.iv.start < R.iv.end
             /\ Common(i, Interval(R.iv.start, R.iv.end - 1))
                  \in Overlaps(live.segs[v], {Interval(R.iv.start, R.iv.end - 1)})
  <2> DEFINE j == Interval(R.iv.start, R.iv.end - 1)
  <2>1. R.iv.start < R.iv.end /\ R.iv.end - 1 \in Nat /\ p <= R.iv.end - 1
    BY <1>3
  <2>2. j \in [start : Nat, end : Nat] /\ j.start = R.iv.start /\ j.end = R.iv.end - 1
    BY <2>1 DEF Interval
  <2> HIDE DEF j
  <2>3. Common(i, j) \in Overlaps(live.segs[v], {j})
    BY <1>1, <2>1, <2>2, Meeting
  <2> QED BY <2>1, <2>3 DEF j
<1>4. Collides(v, R)
  BY <1>2, <1>3 DEF Collides
<1> QED BY <1>4 DEF FixedConflict

(* Where a register is live or written, it has a segment.                    *)
LEMMA SegmentAt ==
  ASSUME Analysed, NEW v \in VRegs, NEW b \in DOMAIN mf.blocks, NEW p \in BlockPoints(mf, b),
         LiveAt(mf, v, b, p) \/ p \in DefPoints(mf, v), SegmentsInHull
  PROVE  \E j \in live.segs[v] : j.start <= p /\ p <= j.end
<1>1. PICK i \in BlockSegments(mf, v, LiveOutOf(mf, LiveInto(mf, v)), b) : i.start <= p /\ p <= i.end
  <2>1. CASE LiveAt(mf, v, b, p)
    BY <2>1, RawCovers DEF Analysed
  <2>2. CASE p \in DefPoints(mf, v)
    <3>1. PICK i \in BlockSegments(mf, v, LiveOutOf(mf, LiveInto(mf, v)), b) : i.start = p /\ p <= i.end
      BY <2>2, RawBegins DEF Analysed
    <3>2. p \in Nat
      BY BlockBounds DEF Analysed
    <3> QED BY <3>1, <3>2
  <2> QED BY <2>1, <2>2
<1>2. PICK j \in live.segs[v] : j.start <= i.start /\ i.end <= j.end
  BY SegmentsCover DEF Analysed
<1>3. j.start \in Nat /\ j.end \in Nat
  BY DEF SegmentsInHull
<1>4. i.start \in Nat /\ i.end \in Nat
  BY SegmentEnds, TouchedPoints DEF Analysed, Numbered
<1>5. p \in Nat
  BY BlockBounds DEF Analysed
<1>6. j.start <= p /\ p <= j.end
  BY <1>1, <1>2, <1>3, <1>4, <1>5
<1> QED BY <1>6

(* A register needed behind an instruction lives through it, and no stretch  *)
(* of it ends there.                                                         *)
LEMMA SegmentThrough ==
  ASSUME Analysed, NEW v \in VRegs, NEW b \in DOMAIN mf.blocks, NEW p \in BlockPoints(mf, b),
         p + 1 \in BlockPoints(mf, b), LiveAt(mf, v, b, p + 1), SegmentsInHull
  PROVE  /\ \E j \in live.segs[v] : j.start <= p /\ p <= j.end
         /\ mf.precise => \A j \in live.segs[v] : j.end # p
<1>1. PICK i \in BlockSegments(mf, v, LiveOutOf(mf, LiveInto(mf, v)), b) :
             /\ i.start <= p + 1 /\ p + 1 <= i.end
             /\ i.start < p + 1 \/ i.start = mf.blocks[b].first
  BY RawCovers DEF Analysed
<1>2. PICK j \in live.segs[v] : j.start <= i.start /\ i.end <= j.end
  BY SegmentsCover DEF Analysed
<1>3. mf.precise => \A x \in live.segs[v] : ~(i.start <= x.end /\ x.end < i.end)
  BY SegmentsCover DEF Analysed
<1>4. \A x \in live.segs[v] : x.start \in Nat /\ x.end \in Nat
  BY DEF SegmentsInHull
<1>5. i.start \in Nat /\ i.end \in Nat
  BY SegmentEnds, TouchedPoints DEF Analysed, Numbered
<1>6. p \in Nat /\ mf.blocks[b].first <= p
  BY BlockBounds DEF Analysed
<1>7. i.start <= p /\ p + 1 <= i.end
  BY <1>1, <1>5, <1>6
<1>8. j.start <= p /\ p <= j.end
  BY <1>2, <1>4, <1>5, <1>6, <1>7
<1>9. \A x \in live.segs[v] : mf.precise => x.end # p
  BY <1>3, <1>5, <1>6, <1>7
<1> QED BY <1>8, <1>9

(* The form of an instruction: if it writes a virtual register, that is its  *)
(* first operand and all it writes.                                          *)
Regular(i, n) ==
  /\ i \in Instr
  /\ \A k \in DOMAIN i.ops : i.ops[k].reg \in PReg \union 1..n
  /\ Defs(i) \subseteq PReg \/ \A k \in DOMAIN i.ops : i.ops[k].kind = "def" <=> k = 1
  /\ i.move => \E d, s : i.ops = <<Def(d), Use(s)>>

(* An instruction that writes a virtual register writes nothing else.        *)
LEMMA OneVirtualDef ==
  ASSUME NEW n, NEW i, Regular(i, n), NEW d \in Defs(i), d \notin PReg
  PROVE  /\ 1 \in DOMAIN i.ops /\ i.ops[1].kind = "def" /\ i.ops[1].reg = d /\ Defs(i) = {d}
         /\ \A k \in DOMAIN i.ops : i.ops[k].kind = "def" <=> k = 1
<1>1. \A k \in DOMAIN i.ops : i.ops[k].kind = "def" <=> k = 1
  BY DEF Regular
<1>2. PICK k \in DOMAIN i.ops : i.ops[k].kind = "def" /\ i.ops[k].reg = d
  BY DEF Defs, Touched
<1>3. k = 1
  BY <1>1, <1>2
<1>4. Defs(i) = {d}
  BY <1>1, <1>2, <1>3 DEF Defs, Touched
<1> QED BY <1>1, <1>2, <1>3, <1>4

(* One register needed behind an instruction, another written by it.         *)
LEMMA DefinedApart ==
  ASSUME Analysed, SegmentsInHull, SharersNeverInterfere,
         NEW b \in DOMAIN mf.blocks, NEW p \in BlockPoints(mf, b), p + 1 \in BlockPoints(mf, b),
         Regular(mf.insts[p], vregs),
         NEW v \in VRegs, NEW d \in VRegs, v # d, d \in Defs(mf.insts[p]), d \notin PReg,
         LiveAt(mf, v, b, p + 1), assign[d] \in PReg
  PROVE  assign[v] # assign[d]
<1>1. p \in Nat /\ p \in Points(mf)
  BY BlockBounds DEF Analysed
<1>2. PICK i \in live.segs[v] : i.start <= p /\ p <= i.end
  BY SegmentThrough
<1>3. PICK j \in live.segs[d] : j.start <= p /\ p <= j.end
  BY <1>1, SegmentAt DEF DefPoints
<1>4. ~TiedAt(v, d, p)
  <2> SUFFICES ASSUME NEW pair \in live.ties[p] \cap {<<v, d>>, <<d, v>>},
                      \E x \in live.segs[pair[2]] : x.end = p
               PROVE  FALSE
    BY DEF TiedAt
  <2>1. live.ties[p] = Ties(mf, p)
    BY <1>1 DEF Analysed, LivenessOf
  <2>2. mf.precise /\ pair[1] = mf.insts[p].ops[1].reg
    BY <2>1 DEF Ties
  <2>3. pair[1] = d
    BY <2>2, OneVirtualDef
  <2>4. pair[2] = v
    BY <2>3
  <2> QED BY <2>2, <2>4, SegmentThrough
<1>5. Interferes(v, d)
  BY <1>1, <1>2, <1>3, <1>4, RegistersMeet
<1> QED BY <1>5 DEF SharersNeverInterfere

(* What the analysis says of a physical register.                            *)
LEMMA FixedOfLive ==
  ASSUME Analysed, NEW r \in PReg
  PROVE  live.fixed[r] = FixedRanges(mf, r)
BY DEF Analysed, LivenessOf

(* Only a precise analysis knows the partners of a range.                    *)
LEMMA FixedPrecise ==
  ASSUME NEW m, Numbered(m), NEW r, NEW R \in FixedRanges(m, r), NEW v \in R.from \union R.to
  PROVE  m.precise
<1>1. PICK p, from : R = Ranged(m, r, p, from) /\ from \in {{}, Partner(m, r, p)}
  BY FixedForms
<1>2. /\ R.from = from
      /\ R.to \in {{}, Partner(m, r, LastRead(m, r, p))}
  BY <1>1 DEF Ranged
<1>3. \A x : Partner(m, r, x) # {} => m.precise
  BY DEF Partner
<1> QED BY <1>1, <1>2, <1>3

(* A range is an interval of points.                                         *)
LEMMA FixedForm ==
  ASSUME NEW m, Numbered(m), NEW r, NEW R \in FixedRanges(m, r), R.iv.start \in Nat, R.iv.end \in Nat
  PROVE  R.iv \in [start : Nat, end : Nat]
<1>1. PICK p, from : R = Ranged(m, r, p, from) /\ from \in {{}, Partner(m, r, p)}
  BY FixedForms
<1>2. R.iv = Interval(IF p = 0 THEN 1 ELSE p, LastRead(m, r, p))
  BY <1>1 DEF Ranged
<1>3. R.iv = [start |-> R.iv.start, end |-> R.iv.end]
  BY <1>2 DEF Interval
<1> QED BY <1>3

(* A physical register needed behind the instruction.                        *)
LEMMA DefinedOffFixed ==
  ASSUME Analysed, SegmentsInHull, SharersNeverInterfere,
         NEW b \in DOMAIN mf.blocks, NEW p \in BlockPoints(mf, b), p + 1 \in BlockPoints(mf, b),
         NEW d \in VRegs, d \in Defs(mf.insts[p]),
         NEW r \in PReg, r \notin Defs(mf.insts[p]),
         NEW u \in UsePoints(mf, r), p + 1 <= u, \A x \in (p + 1) .. (u - 1) : x \notin DefPoints(mf, r)
  PROVE  assign[d] # r
<1>1. p \in Nat /\ p \in Points(mf) /\ p + 1 \in Points(mf) /\ 1 <= p
  BY BlockBounds DEF Analysed
<1>2. PICK R \in FixedRanges(mf, r) :
           /\ R.iv.start \in Nat /\ R.iv.end \in Nat /\ p + 1 <= R.iv.end
           /\ \/ R.iv.start < p + 1 /\ R.iv.start \in DefPoints(mf, r)
              \/ R.iv.start = 1 /\ R.from = {}
  <2>1. Numbered(mf)
    BY DEF Analysed
  <2> QED BY <1>1, <2>1, FixedCovers
<1>3. PICK i \in live.segs[d] : i.start <= p /\ p <= i.end
  BY <1>1, SegmentAt DEF DefPoints
<1>4. p \notin DefPoints(mf, r) /\ p \in DefPoints(mf, d)
  BY <1>1 DEF DefPoints
<1>5. R.iv.start <= p /\ p < R.iv.end /\ (R.from # {} => R.iv.start < p)
  BY <1>1, <1>2, <1>4
<1>6. d \in R.from => Redefined(d, R)
  <2> SUFFICES ASSUME d \in R.from PROVE Redefined(d, R)
    OBVIOUS
  <2>1. live.defs[d] = DefPoints(mf, d)
    BY FixedPrecise DEF Analysed, LivenessOf
  <2> QED BY <1>1, <1>2, <1>4, <1>5, <2>1 DEF Redefined
<1>7. R \in live.fixed[r] /\ R.iv \in [start : Nat, end : Nat]
  BY <1>2, FixedOfLive, FixedForm DEF Analysed
<1>8. FixedConflict(r, d)
  BY <1>1, <1>2, <1>3, <1>5, <1>6, <1>7, FixedMeets
<1> QED BY <1>8 DEF SharersNeverInterfere

(* The instruction writes a physical register, and is not a copy from v.     *)
LEMMA FixedOffLive ==
  ASSUME Analysed, SegmentsInHull, SharersNeverInterfere,
         NEW b \in DOMAIN mf.blocks, NEW p \in BlockPoints(mf, b), p + 1 \in BlockPoints(mf, b),
         NEW v \in VRegs, v \notin Defs(mf.insts[p]), LiveAt(mf, v, b, p + 1),
         NEW r \in PReg, r \in Defs(mf.insts[p]),
         ~(mf.insts[p].move /\ v \in Uses(mf.insts[p]))
  PROVE  assign[v] # r
<1>1. p \in Nat /\ p \in Points(mf) /\ p \in DefPoints(mf, r)
  BY BlockBounds DEF Analysed, DefPoints
<1>2. PICK R \in FixedRanges(mf, r) :
           /\ R.iv.start = p /\ R.iv.end \in Nat /\ p <= R.iv.end
           /\ R.from \subseteq Partner(mf, r, p)
           /\ R.iv.end = p => R.to = {}
  <2>1. Numbered(mf)
    BY DEF Analysed
  <2> QED BY <1>1, <2>1, FixedBegins
<1>3. PICK i \in live.segs[v] : i.start <= p /\ p <= i.end
  BY SegmentThrough
<1>4. v \notin R.from
  BY <1>2 DEF Partner, Virtuals
<1>5. v \in R.to => p < R.iv.end
  BY <1>1, <1>2
<1>6. R \in live.fixed[r] /\ R.iv \in [start : Nat, end : Nat]
  BY <1>1, <1>2, FixedOfLive, FixedForm DEF Analysed
<1>7. FixedConflict(r, v)
  BY <1>1, <1>2, <1>3, <1>4, <1>5, <1>6, FixedMeets
<1> QED BY <1>7 DEF SharersNeverInterfere

(* What the encoder still reads once it has written the first operand: such  *)
(* an operand is not written, is not that of a copy, and need not be told    *)
(* apart from a tied one.                                                     *)
LateApart(i) ==
  \A k \in i.late :
    k \in Operands(i, "use") =>
      /\ i.ops[k].reg \notin Defs(i)
      /\ IF i.ops[k].reg \in PReg THEN ~i.move ELSE i.tied = {} /\ Defs(i) \cap PReg = {}

(* The result of an instruction and an operand it reads differ in place,     *)
(* unless they are tied or copied.                                           *)
LEMMA ReadLateApart ==
  ASSUME Analysed, SegmentsInHull, SharersNeverInterfere,
         NEW b \in DOMAIN mf.blocks, NEW p \in BlockPoints(mf, b), Regular(mf.insts[p], vregs),
         NEW d \in VRegs, d \in Defs(mf.insts[p]), d \notin PReg, assign[d] \in PReg,
         NEW x, x \in Uses(mf.insts[p]), x \notin Defs(mf.insts[p])
  PROVE  /\ x \in VRegs /\ mf.insts[p].tied = {} => assign[x] # assign[d]
         /\ x \in PReg /\ ~mf.insts[p].move => x # assign[d]
<1>1. p \in Nat /\ p \in Points(mf) /\ 1 <= p
  BY BlockBounds DEF Analysed
<1>2. PICK i \in live.segs[d] : i.start <= p /\ p <= i.end
  BY <1>1, SegmentAt DEF DefPoints
<1>3. ASSUME x \in VRegs, mf.insts[p].tied = {} PROVE assign[x] # assign[d]
  <2>1. LiveAt(mf, x, b, p)
    BY ReadIsLive DEF Analysed
  <2>2. PICK j \in live.segs[x] : j.start <= p /\ p <= j.end
    BY <1>3, <2>1, SegmentAt
  <2>3. live.ties[p] = {}
    BY <1>1, <1>3 DEF Analysed, LivenessOf, Ties
  <2>4. ~TiedAt(x, d, p)
    BY <2>3 DEF TiedAt
  <2>5. Interferes(x, d) /\ x # d
    BY <1>1, <1>2, <1>3, <2>2, <2>4, RegistersMeet
  <2> QED BY <1>3, <2>5 DEF SharersNeverInterfere
<1>4. ASSUME x \in PReg, ~mf.insts[p].move PROVE x # assign[d]
  <2>1. p \in UsePoints(mf, x) /\ p \notin DefPoints(mf, x) /\ p .. (p - 1) = {}
    BY <1>1 DEF UsePoints, DefPoints
  <2>2. PICK R \in FixedRanges(mf, x) :
           /\ R.iv.start \in Nat /\ R.iv.end \in Nat /\ p <= R.iv.end
           /\ \/ R.iv.start < p /\ R.iv.start \in DefPoints(mf, x)
              \/ R.iv.start = 1 /\ R.from = {}
           /\ R.iv.end = p => R.to \subseteq Partner(mf, x, p)
    <3>1. Numbered(mf) /\ p <= p
      BY <1>1 DEF Analysed
    <3> QED BY <1>1, <2>1, <3>1, FixedCovers
  <2>3. Partner(mf, x, p) = {}
    BY <1>4 DEF Partner
  <2>4. R.iv.start <= p /\ (R.from # {} => R.iv.start < p)
    BY <1>1, <2>2
  <2>5. d \in R.to => p < R.iv.end
    BY <1>1, <2>2, <2>3
  <2>6. d \in R.from => Redefined(d, R)
    <3> SUFFICES ASSUME d \in R.from PROVE Redefined(d, R)
      OBVIOUS
    <3>1. live.defs[d] = DefPoints(mf, d)
      BY FixedPrecise DEF Analysed, LivenessOf
    <3>2. p \in live.defs[d] /\ R.iv.start < p /\ p <= R.iv.end /\ ~(p = R.iv.end /\ d \in R.to)
      BY <1>1, <2>2, <2>4, <2>5, <3>1 DEF DefPoints
    <3> QED BY <3>2 DEF Redefined
  <2>7. R \in live.fixed[x] /\ R.iv \in [start : Nat, end : Nat]
    BY <1>4, <2>2, FixedOfLive, FixedForm DEF Analysed
  <2>8. FixedConflict(x, d)
    BY <1>1, <1>2, <2>2, <2>4, <2>5, <2>6, <2>7, FixedMeets
  <2> QED BY <2>8 DEF SharersNeverInterfere
<1> QED BY <1>3, <1>4

-----------------------------------------------------------------------------
(* One instruction of the rewritten code *)

(* Where the allocation keeps n.                                             *)
Home(n) == IF n \in PReg THEN n ELSE assign[n]

(* The instruction can run: its virtual registers have places, its spilled  *)
(* operands have scratch registers, and it reads a scratch register only if *)
(* it needs no other.                                                        *)
Runnable(i) ==
  /\ Regular(i, vregs) /\ EnoughScratch(i)
  /\ \A k \in DOMAIN i.ops :
       i.ops[k].reg \notin PReg => assign[i.ops[k].reg] \in ToSet(Allocatable) \union 1..slots
  /\ Uses(i) \cap ToSet(Scratch) # {} => \A k \in DOMAIN i.ops : i.ops[k].reg \in PReg
  /\ slots \in Nat /\ DOMAIN contents = PReg \union 1..slots

(* The operand on whose behalf operand k has its scratch register.           *)
Lead(i, k) == IF i.ops[k].kind = "use" THEN Min(SameUse(i, k)) ELSE k

(* The operands of an instruction.                                           *)
LEMMA OpsTyped ==
  ASSUME NEW i, NEW n, Regular(i, n)
  PROVE  /\ Len(i.ops) \in Nat /\ DOMAIN i.ops = 1..Len(i.ops)
         /\ \A k \in DOMAIN i.ops : /\ i.ops[k].kind \in {"def", "use"}
                                    /\ i.ops[k] = [kind |-> i.ops[k].kind, reg |-> i.ops[k].reg]
<1>1. i.ops \in Seq(Operand)
  BY DEF Regular, Instr
<1>2. Len(i.ops) \in Nat /\ DOMAIN i.ops = 1..Len(i.ops) /\ \A k \in DOMAIN i.ops : i.ops[k] \in Operand
  BY <1>1
<1>3. \A x \in Operand : x.kind \in {"def", "use"} /\ x = [kind |-> x.kind, reg |-> x.reg]
  BY DEF Operand
<1> QED BY <1>2, <1>3

(* Scratch registers are not handed out.                                     *)
LEMMA SetsOfRegisters ==
  /\ ToSet(Allocatable) \subseteq PReg /\ ToSet(Scratch) \subseteq PReg
  /\ ToSet(Allocatable) \cap ToSet(Scratch) = {}
<1>1. Allocatable \in Seq(PReg) /\ Scratch \in Seq(PReg)
  BY AllocatableAssumption, RegistersAssumption
<1>2. ToSet(Allocatable) \subseteq PReg /\ ToSet(Scratch) \subseteq PReg
  BY <1>1 DEF ToSet
<1>3. ToSet(Allocatable) \cap ToSet(Scratch) = {}
  BY ScratchAssumption
<1> QED BY <1>2, <1>3

(* A spilled operand's scratch register tells whose value it takes.         *)
LEMMA ScratchOf ==
  ASSUME NEW i, Runnable(i), NEW k \in DOMAIN i.ops, Spilled(i.ops[k])
  PROVE  /\ Lead(i, k) \in Borrows(i) /\ i.ops[Lead(i, k)] = i.ops[k]
         /\ Lead(i, Lead(i, k)) = Lead(i, k)
         /\ ScratchIndex(i, k) = Cardinality({j \in Borrows(i) : j <= Lead(i, k)})
         /\ ScratchIndex(i, k) \in DOMAIN Scratch
         /\ Place(i, k) = Scratch[ScratchIndex(i, k)] /\ Place(i, k) \in ToSet(Scratch)
<1>1. Len(i.ops) \in Nat /\ DOMAIN i.ops = 1..Len(i.ops) /\ i.ops[k].kind \in {"def", "use"}
  BY OpsTyped DEF Runnable
<1>2. SameUse(i, k) \subseteq 1..Len(i.ops) /\ k \in SameUse(i, k)
  BY <1>1 DEF SameUse
<1>3. Min(SameUse(i, k)) \in SameUse(i, k)
  BY <1>1, <1>2, Extremes
<1>4. Lead(i, k) \in DOMAIN i.ops /\ i.ops[Lead(i, k)] = i.ops[k]
  BY <1>2, <1>3 DEF Lead, SameUse
<1>5. SameUse(i, Lead(i, k)) = SameUse(i, k)
  BY <1>4 DEF SameUse
<1>6. Lead(i, Lead(i, k)) = Lead(i, k)
  BY <1>4, <1>5 DEF Lead
<1>7. Lead(i, k) \in Borrows(i)
  BY <1>4, <1>5, <1>6 DEF Borrows, Lead
<1>8. ScratchIndex(i, k) = Cardinality({j \in Borrows(i) : j <= Lead(i, k)})
  BY DEF ScratchIndex, Lead
<1>9. IsFiniteSet(Borrows(i))
  <2>1. IsFiniteSet(1..Len(i.ops)) /\ Borrows(i) \subseteq 1..Len(i.ops)
    BY <1>1, FS_Interval DEF Borrows
  <2> QED BY <2>1, FS_Subset
<1>10. ScratchIndex(i, k) \in 1..Len(Scratch)
  <2> DEFINE T == {j \in Borrows(i) : j <= Lead(i, k)}
  <2>1. T \subseteq Borrows(i)
    OBVIOUS
  <2>2. IsFiniteSet(T) /\ Cardinality(T) <= Cardinality(Borrows(i))
    BY <2>1, <1>9, FS_Subset
  <2>3. Lead(i, k) \in T
    BY <1>1, <1>4, <1>7
  <2>4. Cardinality(T) \in Nat /\ Cardinality(T) # 0
    BY <2>2, <2>3, FS_CardinalityType, FS_EmptySet
  <2>5. Cardinality(Borrows(i)) \in Nat /\ Cardinality(Borrows(i)) <= Len(Scratch)
    BY <1>9, FS_CardinalityType DEF Runnable, EnoughScratch
  <2>6. Len(Scratch) \in Nat
    BY RegistersAssumption
  <2> HIDE DEF T
  <2>7. Cardinality(T) \in 1..Len(Scratch)
    BY <2>2, <2>4, <2>5, <2>6
  <2> QED BY <2>7, <1>8 DEF T
<1>11. DOMAIN Scratch = 1..Len(Scratch)
  BY RegistersAssumption
<1>12. Place(i, k) = Scratch[ScratchIndex(i, k)]
  BY DEF Place, Spilled
<1> QED BY <1>4, <1>6, <1>7, <1>8, <1>10, <1>11, <1>12 DEF ToSet

(* Spilled operands in one scratch register are one operand.                 *)
LEMMA ScratchApart ==
  ASSUME NEW i, Runnable(i), NEW j \in DOMAIN i.ops, NEW k \in DOMAIN i.ops,
         Spilled(i.ops[j]), Spilled(i.ops[k]), Place(i, j) = Place(i, k)
  PROVE  i.ops[j] = i.ops[k]
<1>1. ScratchIndex(i, j) = ScratchIndex(i, k)
  <2>1. /\ ScratchIndex(i, j) \in DOMAIN Scratch /\ Place(i, j) = Scratch[ScratchIndex(i, j)]
        /\ ScratchIndex(i, k) \in DOMAIN Scratch /\ Place(i, k) = Scratch[ScratchIndex(i, k)]
    BY ScratchOf
  <2>2. \A x, y \in DOMAIN Scratch : Scratch[x] = Scratch[y] => x = y
    BY ScratchAssumption
  <2> QED BY <2>1, <2>2
<1> DEFINE Upto(x) == {y \in Borrows(i) : y <= x}
<1>2. Cardinality(Upto(Lead(i, j))) = Cardinality(Upto(Lead(i, k)))
  BY <1>1, ScratchOf
<1>3. Len(i.ops) \in Nat /\ DOMAIN i.ops = 1..Len(i.ops)
  BY OpsTyped DEF Runnable
<1>4. Borrows(i) \subseteq 1..Len(i.ops) /\ IsFiniteSet(Borrows(i))
  <2>1. IsFiniteSet(1..Len(i.ops)) /\ Borrows(i) \subseteq 1..Len(i.ops)
    BY <1>3, FS_Interval DEF Borrows
  <2> QED BY <2>1, FS_Subset
<1>5. \A x, y \in Borrows(i) : x <= y /\ Cardinality(Upto(x)) = Cardinality(Upto(y)) => x = y
  <2> SUFFICES ASSUME NEW x \in Borrows(i), NEW y \in Borrows(i), x <= y,
                      Cardinality(Upto(x)) = Cardinality(Upto(y))
               PROVE  x = y
    OBVIOUS
  <2>1. Upto(x) \subseteq Upto(y)
    BY <1>4
  <2>2. IsFiniteSet(Upto(y))
    <3>1. Upto(y) \subseteq Borrows(i)
      OBVIOUS
    <3> QED BY <3>1, <1>4, FS_Subset
  <2>3. Upto(x) = Upto(y)
    <3> HIDE DEF Upto
    <3> QED BY <2>1, <2>2, FS_Subset
  <2>4. y \in Upto(x)
    BY <2>3, <1>4
  <2> QED BY <2>4, <1>4
<1>6. Lead(i, j) \in Borrows(i) /\ Lead(i, k) \in Borrows(i)
  BY ScratchOf
<1>7. Lead(i, j) = Lead(i, k)
  <2>1. Lead(i, j) <= Lead(i, k) \/ Lead(i, k) <= Lead(i, j)
    BY <1>4, <1>6
  <2> HIDE DEF Upto
  <2> QED BY <2>1, <1>2, <1>5, <1>6
<1> QED BY <1>7, ScratchOf

(* Where an operand goes.                                                    *)
LEMMA PlaceOf ==
  ASSUME NEW i, Runnable(i), NEW k \in DOMAIN i.ops
  PROVE  /\ Place(i, k) \in PReg
         /\ Spilled(i.ops[k]) \/ Place(i, k) = Home(i.ops[k].reg)
         /\ Spilled(i.ops[k]) =>
              /\ i.ops[k].reg \notin PReg
              /\ assign[i.ops[k].reg] \in 1..slots /\ assign[i.ops[k].reg] \notin PReg
         /\ ~Spilled(i.ops[k]) /\ i.ops[k].reg \notin PReg => Place(i, k) \in ToSet(Allocatable)
<1>1. CASE Spilled(i.ops[k])
  <2>1. Place(i, k) \in PReg
    BY <1>1, ScratchOf, SetsOfRegisters
  <2>2. i.ops[k].reg \notin PReg /\ assign[i.ops[k].reg] \notin PReg
    BY <1>1 DEF Spilled
  <2>3. assign[i.ops[k].reg] \in 1..slots
    BY <2>2, SetsOfRegisters DEF Runnable
  <2> QED BY <1>1, <2>1, <2>2, <2>3
<1>2. CASE ~Spilled(i.ops[k])
  <2>1. i.ops[k].reg \in PReg \/ assign[i.ops[k].reg] \in PReg
    BY <1>2 DEF Spilled
  <2>2. Place(i, k) = Home(i.ops[k].reg)
    BY <2>1 DEF Place, Home
  <2>3. i.ops[k].reg \notin PReg => assign[i.ops[k].reg] \in ToSet(Allocatable)
    BY <2>1, PRegAssumption DEF Runnable
  <2> QED BY <1>2, <2>1, <2>2, <2>3, SetsOfRegisters DEF Home
<1> QED BY <1>1, <1>2

(* A register that is not a scratch register is not reloaded into.           *)
LEMMA NotReloaded ==
  ASSUME NEW i, Runnable(i), NEW l \in DOMAIN contents,
         l \notin ToSet(Scratch) \/ \A k \in DOMAIN i.ops : i.ops[k].reg \in PReg
  PROVE  Reloaded(i)[l] = contents[l]
<1>1. ASSUME NEW k \in Operands(i, "use") \cap Borrows(i), Place(i, k) = l
      PROVE  FALSE
  <2>1. k \in DOMAIN i.ops /\ Spilled(i.ops[k])
    BY DEF Borrows
  <2> QED BY <1>1, <2>1, ScratchOf DEF Spilled
<1> QED BY <1>1, Zenon DEF Reloaded

(* An instruction finds what it reads.                                       *)
LEMMA OperandRead ==
  ASSUME NEW i, Runnable(i), NEW k \in Operands(i, "use"),
         i.ops[k].reg \in contents[Home(i.ops[k].reg)]
  PROVE  i.ops[k].reg \in Reloaded(i)[Place(i, k)]
<1>0. k \in DOMAIN i.ops /\ i.ops[k].kind = "use"
  BY DEF Operands
<1>1. Place(i, k) \in DOMAIN contents
  BY <1>0, PlaceOf DEF Runnable
<1>2. CASE Spilled(i.ops[k])
  <2> DEFINE loads == Operands(i, "use") \cap Borrows(i)
             c == CHOOSE x \in loads : Place(i, x) = Place(i, k)
  <2>1. Lead(i, k) \in loads /\ Place(i, Lead(i, k)) = Place(i, k)
    <3>1. /\ Lead(i, k) \in Borrows(i) /\ i.ops[Lead(i, k)] = i.ops[k]
          /\ Lead(i, Lead(i, k)) = Lead(i, k)
      BY <1>0, <1>2, ScratchOf
    <3>2. Lead(i, k) \in DOMAIN i.ops
      BY <3>1 DEF Borrows
    <3>3. Place(i, Lead(i, k)) = Place(i, k)
      <4>1. /\ ScratchIndex(i, k) = Cardinality({j \in Borrows(i) : j <= Lead(i, k)})
            /\ Place(i, k) = Scratch[ScratchIndex(i, k)]
        BY <1>0, <1>2, ScratchOf
      <4>2. Spilled(i.ops[Lead(i, k)])
        BY <1>2, <3>1
      <4>3. /\ ScratchIndex(i, Lead(i, k)) = Cardinality({j \in Borrows(i) : j <= Lead(i, Lead(i, k))})
            /\ Place(i, Lead(i, k)) = Scratch[ScratchIndex(i, Lead(i, k))]
        BY <3>2, <4>2, ScratchOf
      <4> QED BY <3>1, <4>1, <4>3
    <3> QED BY <1>0, <3>1, <3>2, <3>3 DEF Operands
  <2>2. c \in loads /\ Place(i, c) = Place(i, k)
    BY <2>1, Zenon
  <2>3. i.ops[c] = i.ops[k]
    <3>1. c \in DOMAIN i.ops /\ Spilled(i.ops[c])
      BY <2>2 DEF Borrows
    <3> HIDE DEF c
    <3> QED BY <1>0, <1>2, <2>2, <3>1, ScratchApart
  <2>4. Reloaded(i)[Place(i, k)] = contents[assign[i.ops[c].reg]]
    BY <1>1, <2>1, Zenon DEF Reloaded
  <2>5. Home(i.ops[k].reg) = assign[i.ops[k].reg]
    BY <1>2 DEF Home, Spilled
  <2> HIDE DEF c
  <2> QED BY <2>3, <2>4, <2>5
<1>3. CASE ~Spilled(i.ops[k])
  <2>1. Place(i, k) = Home(i.ops[k].reg)
    BY <1>0, <1>3, PlaceOf
  <2>2. Place(i, k) \notin ToSet(Scratch) \/ \A x \in DOMAIN i.ops : i.ops[x].reg \in PReg
    <3>1. CASE i.ops[k].reg \notin PReg
      BY <1>0, <1>3, <3>1, PlaceOf, SetsOfRegisters
    <3>2. CASE i.ops[k].reg \in PReg
      <4>1. i.ops[k].reg \in Uses(i)
        BY <1>0 DEF Uses, Touched
      <4>2. Place(i, k) = i.ops[k].reg
        BY <2>1, <3>2 DEF Home
      <4> QED BY <4>1, <4>2 DEF Runnable
    <3> QED BY <3>1, <3>2
  <2>3. Reloaded(i)[Place(i, k)] = contents[Place(i, k)]
    BY <1>1, <2>2, NotReloaded
  <2> QED BY <2>1, <2>3
<1> QED BY <1>2, <1>3

(* Behind the instruction, the contents.                                     *)
After(i) == Stored(i, Computed(i, Reloaded(i)))

(* Running an instruction adds no place and removes none.                    *)
LEMMA HeldPlaces ==
  ASSUME NEW i
  PROVE  /\ DOMAIN Reloaded(i) = DOMAIN contents
         /\ \A held : DOMAIN Computed(i, held) = DOMAIN held /\ DOMAIN Stored(i, held) = DOMAIN held
         /\ DOMAIN After(i) = DOMAIN contents
BY DEF Reloaded, Computed, Stored, After

(* The operand an instruction defines last in a place is what the place gets. *)
LEMMA Produced ==
  ASSUME NEW i, Runnable(i), NEW l \in DOMAIN contents, NEW k \in Operands(i, "def"), Place(i, k) = l,
         \A x \in Operands(i, "def") : Place(i, x) = l => i.ops[x].reg = i.ops[k].reg
  PROVE  i.ops[k].reg \in Computed(i, Reloaded(i))[l]
<1> DEFINE At == {x \in Operands(i, "def") : Place(i, x) = l}
<1>1. At \subseteq 1..Len(i.ops) /\ Len(i.ops) \in Nat /\ k \in At
  BY OpsTyped DEF Operands, Runnable
<1>2. Max(At) \in At
  BY <1>1, Extremes
<1>3. i.ops[Max(At)].reg = i.ops[k].reg
  BY <1>2
<1>4. i.ops[Max(At)].reg \in Computed(i, Reloaded(i))[l]
  BY <1>1, HeldPlaces, Zenon DEF Computed
<1> QED BY <1>3, <1>4

(* What is not overwritten stays.                                            *)
LEMMA NotOverwritten ==
  ASSUME NEW i, Runnable(i), NEW l \in DOMAIN contents, NEW n, n \notin Defs(i),
         n \in Reloaded(i)[l],
         \A k \in Operands(i, "def") : Place(i, k) # l
  PROVE  n \in Computed(i, Reloaded(i))[l]
BY HeldPlaces, Zenon DEF Computed

(* A place no spill goes to keeps what it holds.                             *)
LEMMA NotStored ==
  ASSUME NEW i, NEW held, NEW l \in DOMAIN held,
         \A k \in Operands(i, "def") : Spilled(i.ops[k]) => assign[i.ops[k].reg] # l
  PROVE  Stored(i, held)[l] = held[l]
<1>1. ASSUME NEW k \in Operands(i, "def") \cap Borrows(i), assign[i.ops[k].reg] = l
      PROVE  FALSE
  BY <1>1 DEF Borrows
<1> QED BY <1>1, Zenon DEF Stored

(* A definition ends up where the allocation keeps it.                       *)
LEMMA DefinedHome ==
  ASSUME NEW i, Runnable(i), NEW n \in Defs(i)
  PROVE  n \in After(i)[Home(n)]
<1>1. PICK k \in Operands(i, "def") : i.ops[k].reg = n
  BY DEF Defs, Touched, Operands
<1>2. k \in DOMAIN i.ops /\ i.ops[k].kind = "def"
  BY DEF Operands
<1>3. CASE n \in PReg
  <2>1. \A x \in Operands(i, "def") : i.ops[x].reg \in PReg
    <3> SUFFICES ASSUME NEW x \in Operands(i, "def"), i.ops[x].reg \notin PReg
                 PROVE  FALSE
      OBVIOUS
    <3>1. x \in DOMAIN i.ops /\ i.ops[x].kind = "def"
      BY DEF Operands
    <3>2. i.ops[x].reg \in Defs(i)
      BY <3>1 DEF Defs, Touched
    <3>3. Defs(i) = {i.ops[x].reg}
      BY <3>2, OneVirtualDef DEF Runnable
    <3> QED BY <1>3, <3>3
  <2>2. \A x \in Operands(i, "def") : Place(i, x) = i.ops[x].reg /\ ~Spilled(i.ops[x])
    BY <2>1 DEF Place, Spilled
  <2>3. n \in DOMAIN contents
    BY <1>3 DEF Runnable
  <2>4. n \in Computed(i, Reloaded(i))[n]
    BY <1>1, <2>2, <2>3, Produced
  <2>5. After(i)[n] = Computed(i, Reloaded(i))[n]
    BY <2>2, <2>3, HeldPlaces, NotStored DEF After
  <2> QED BY <1>3, <2>4, <2>5 DEF Home
<1>4. CASE n \notin PReg
  <2>1. 1 \in DOMAIN i.ops /\ i.ops[1].reg = n /\ Operands(i, "def") = {1}
    BY <1>4, OneVirtualDef DEF Runnable, Operands
  <2>2. Place(i, 1) \in DOMAIN contents
    BY <2>1, PlaceOf DEF Runnable
  <2>3. n \in Computed(i, Reloaded(i))[Place(i, 1)]
    BY <2>1, <2>2, Produced
  <2>4. CASE ~Spilled(i.ops[1])
    <3>1. Place(i, 1) = Home(n)
      BY <2>1, <2>4, PlaceOf
    <3>2. After(i)[Place(i, 1)] = Computed(i, Reloaded(i))[Place(i, 1)]
      BY <2>1, <2>2, <2>4, HeldPlaces, NotStored DEF After
    <3> QED BY <2>3, <3>1, <3>2
  <2>5. CASE Spilled(i.ops[1])
    <3>1. Home(n) = assign[n] /\ assign[n] \in DOMAIN contents
      BY <1>4, <2>1, <2>5, PlaceOf DEF Home, Runnable
    <3> DEFINE stores == Operands(i, "def") \cap Borrows(i)
    <3>2. stores = {1}
      <4>1. Lead(i, 1) = 1
        BY <2>1 DEF Lead, Operands
      <4>2. Lead(i, 1) \in Borrows(i)
        BY <2>1, <2>5, ScratchOf
      <4> QED BY <2>1, <4>1, <4>2
    <3>3. After(i)[assign[n]] = Computed(i, Reloaded(i))[Place(i, CHOOSE x \in stores : assign[i.ops[x].reg] = assign[n])]
      <4>1. \E x \in stores : assign[i.ops[x].reg] = assign[n]
        BY <2>1, <3>2
      <4> QED BY <3>1, <4>1, HeldPlaces, Zenon DEF After, Stored
    <3>4. (CHOOSE x \in stores : assign[i.ops[x].reg] = assign[n]) = 1
      BY <2>1, <3>2
    <3> QED BY <2>3, <3>1, <3>3, <3>4
  <2> QED BY <2>4, <2>5
<1> QED BY <1>3, <1>4

(* Two spilled registers never share a slot.                                 *)
SlotsApart == \A u, v \in VRegs : assign[u] \in Nat /\ assign[u] = assign[v] => u = v

(* A register the instruction does not define stays where it is, unless a   *)
(* definition goes there.                                                    *)
LEMMA OthersStay ==
  ASSUME NEW i, Runnable(i), SlotsApart, VRegs = 1..vregs, NEW n \in PReg \union VRegs, n \notin Defs(i),
         n \notin PReg => assign[n] \in ToSet(Allocatable) \union 1..slots,
         Home(n) \notin ToSet(Scratch), n \in contents[Home(n)],
         \A d \in Defs(i) : Home(d) # Home(n)
  PROVE  n \in After(i)[Home(n)]
<1>1. Home(n) \in DOMAIN contents
  BY SetsOfRegisters DEF Home, Runnable
<1>2. Reloaded(i)[Home(n)] = contents[Home(n)]
  BY <1>1, NotReloaded
<1>3. \A k \in Operands(i, "def") : k \in DOMAIN i.ops /\ i.ops[k].reg \in Defs(i)
  BY DEF Operands, Defs, Touched
<1>4. \A k \in Operands(i, "def") : Place(i, k) # Home(n)
  <2> SUFFICES ASSUME NEW k \in Operands(i, "def"), Place(i, k) = Home(n)
               PROVE  FALSE
    OBVIOUS
  <2>1. Spilled(i.ops[k])
    BY <1>3, PlaceOf
  <2>2. k \in DOMAIN i.ops /\ Place(i, k) \in ToSet(Scratch)
    BY <1>3, <2>1, ScratchOf
  <2> QED BY <2>2
<1>5. n \in Computed(i, Reloaded(i))[Home(n)]
  BY <1>1, <1>2, <1>4, NotOverwritten
<1>6. \A k \in Operands(i, "def") : Spilled(i.ops[k]) => assign[i.ops[k].reg] # Home(n)
  <2> SUFFICES ASSUME NEW k \in Operands(i, "def"), Spilled(i.ops[k]), assign[i.ops[k].reg] = Home(n)
               PROVE  FALSE
    OBVIOUS
  <2>1. /\ i.ops[k].reg \notin PReg /\ assign[i.ops[k].reg] \in 1..slots
        /\ assign[i.ops[k].reg] \notin PReg
    BY <1>3, PlaceOf
  <2>2. n \notin PReg /\ assign[n] = assign[i.ops[k].reg]
    BY <2>1 DEF Home
  <2>3. i.ops[k].reg \in VRegs
    BY <1>3, <2>1 DEF Runnable, Regular
  <2>4. assign[n] \in Nat
    BY <2>1, <2>2 DEF Runnable
  <2>5. n = i.ops[k].reg
    BY <2>2, <2>3, <2>4 DEF SlotsApart
  <2> QED BY <1>3, <2>5
<1> QED BY <1>1, <1>5, <1>6, HeldPlaces, NotStored DEF After

(* Nor is it lost when it is copied to the register it shares.               *)
LEMMA CopiedStays ==
  ASSUME NEW i, Runnable(i), VRegs = 1..vregs, NEW n \in VRegs, n \notin PReg, n \notin Defs(i),
         assign[n] \in ToSet(Allocatable), n \in contents[assign[n]],
         NEW h \in PReg, h \in Defs(i), h = assign[n], i.move, n \in Uses(i)
  PROVE  n \in After(i)[assign[n]]
<1>1. PICK d, s : i.ops = <<Def(d), Use(s)>>
  BY DEF Runnable, Regular
<1>2. DOMAIN i.ops = {1, 2} /\ i.ops[1] = Def(d) /\ i.ops[2] = Use(s)
  BY <1>1
<1>3. d = h /\ s = n
  <2>1. Defs(i) = {d} /\ Uses(i) = {s}
    BY <1>2 DEF Defs, Uses, Touched, Def, Use
  <2> QED BY <2>1
<1>4. Operands(i, "def") = {1}
  BY <1>2 DEF Operands, Def, Use
<1>5. Place(i, 1) = h /\ Place(i, 2) = h /\ i.ops[1].reg = h /\ ~Spilled(i.ops[1])
  BY <1>2, <1>3 DEF Place, Def, Use, Spilled
<1>6. h \in DOMAIN contents /\ h \notin ToSet(Scratch)
  BY SetsOfRegisters DEF Runnable
<1>7. n \in Reloaded(i)[h]
  BY <1>6, NotReloaded
<1>8. {k \in Operands(i, "def") : Place(i, k) = h} = {1}
  BY <1>4, <1>5
<1>9. Computed(i, Reloaded(i))[h] = {i.ops[Max({1})].reg} \union (Reloaded(i)[Place(i, 2)] \ Defs(i))
  BY <1>6, <1>8, HeldPlaces, Zenon DEF Computed
<1>10. n \in Computed(i, Reloaded(i))[h]
  BY <1>5, <1>7, <1>9
<1> QED BY <1>4, <1>5, <1>6, <1>10, HeldPlaces, NotStored DEF After

-----------------------------------------------------------------------------
(* The rewritten code runs *)

(* The blocks that may be entered.                                           *)
ReachedBlocks(m) ==
  {b \in DOMAIN m.blocks : \A S \in SUBSET DOMAIN m.blocks :
     1 \in S /\ (\A c \in S : m.blocks[c].succ \subseteq S) => b \in S}

(* What selection promises of the code it lays out: the blocks are apart and *)
(* end in an instruction that writes nothing; an operand in a scratch        *)
(* register was put there by the instruction before; physical registers carry *)
(* values only from the caller and within a block, virtual ones none from    *)
(* the caller.                                                                *)
MachineFit(m, n) ==
  /\ MachineShape(m)
  /\ \A b, c \in DOMAIN m.blocks : b # c => BlockPoints(m, b) \cap BlockPoints(m, c) = {}
  /\ \A p \in Points(m) : Regular(m.insts[p], n)
  /\ \A b \in DOMAIN m.blocks : Defs(m.insts[m.blocks[b].last]) = {} /\ 1 \notin m.blocks[b].succ
  /\ \A b \in DOMAIN m.blocks : \A p \in BlockPoints(m, b) :
       Uses(m.insts[p]) \cap ToSet(Scratch) # {} =>
         /\ p # m.blocks[b].first
         /\ Uses(m.insts[p]) \cap ToSet(Scratch) \subseteq Defs(m.insts[p - 1])
         /\ \A k \in DOMAIN m.insts[p].ops : m.insts[p].ops[k].reg \in PReg
  /\ \A r \in PReg : LiveInto(m, r) \subseteq {1}
  /\ \A v \in 1..n : 1 \notin LiveInto(m, v)
  /\ \A b \in ReachedBlocks(m) : \A p \in BlockPoints(m, b) : LateApart(m.insts[p])

(* The code under the scan is analysed and fit.                              *)
FitInv == phase \in {"scan", "run"} => Analysed /\ MachineFit(mf, vregs)

(* A register the scan is done with has a place, its own if it is a slot,    *)
(* unless it is never live.                                                  *)
PlacedInv ==
  /\ \A v \in VRegs : assign[v] \in PReg => assign[v] \in ToSet(Allocatable)
  /\ \A v \in VRegs : assign[v] = None => v \in queue \/ live.hull[v] = {}
  /\ SlotsApart

(* What is live is where the allocation keeps it.                            *)
HeldAt(b, p) == \A n \in PReg \union VRegs : LiveAt(mf, n, b, p) => n \in contents[Home(n)]

(* Arrived at a point, every name the code still needs is in its home.       *)
HeldInv ==
  phase = "run" =>
    /\ queue = {} /\ \A p \in Points(mf) : EnoughScratch(mf.insts[p])
    /\ \E b \in ReachedBlocks(mf) : pc \in BlockPoints(mf, b) /\ HeldAt(b, pc)

(* A state of the running code.                                              *)
RunState == phase = "run" /\ TypeInv /\ ScanInv /\ FitInv /\ PlacedInv /\ HeldInv

(* What is live, or written, has a place.                                    *)
LEMMA LivePlaced ==
  ASSUME RunState, NEW b \in DOMAIN mf.blocks, NEW p \in BlockPoints(mf, b), NEW v \in VRegs,
         LiveAt(mf, v, b, p) \/ p \in DefPoints(mf, v)
  PROVE  v \notin PReg /\ assign[v] \in ToSet(Allocatable) \union 1..slots
<1>1. Analysed /\ SegmentsInHull
  BY DEF RunState, FitInv, ScanInv
<1>2. PICK j \in live.segs[v] : TRUE
  BY <1>1, SegmentAt
<1>3. live.hull[v] # {}
  BY <1>1, <1>2 DEF SegmentsInHull
<1>4. assign[v] # None
  BY <1>3 DEF RunState, PlacedInv, HeldInv
<1>5. assign[v] \in PReg \union Nat \union {None} /\ (assign[v] \in Nat => assign[v] \in 1..slots)
  <2>1. assign \in Seq(PReg \union Nat \union {None})
    BY DEF RunState, TypeInv
  <2>2. assign[v] \in PReg \union Nat \union {None}
    BY <2>1 DEF VRegs
  <2> QED BY <2>2 DEF RunState, TypeInv
<1>6. v \notin PReg
  BY <1>1, PRegAssumption DEF Analysed
<1> QED BY <1>4, <1>5, <1>6 DEF RunState, PlacedInv

(* Every point of a block can run.                                           *)
LEMMA PointRuns ==
  ASSUME RunState, NEW b \in DOMAIN mf.blocks, NEW p \in BlockPoints(mf, b)
  PROVE  Runnable(mf.insts[p])
<1> DEFINE i == mf.insts[p]
<1>1. Analysed /\ MachineFit(mf, vregs) /\ p \in Points(mf)
  BY BlockBounds DEF RunState, FitInv, Analysed
<1>2. Regular(i, vregs) /\ EnoughScratch(i)
  BY <1>1 DEF MachineFit, RunState, HeldInv
<1>3. ASSUME NEW k \in DOMAIN i.ops, i.ops[k].reg \notin PReg
      PROVE  assign[i.ops[k].reg] \in ToSet(Allocatable) \union 1..slots
  <2>1. i.ops[k].reg \in VRegs
    BY <1>1, <1>2, <1>3 DEF Regular, Analysed
  <2>2. i.ops[k].reg \in Uses(i) \/ i.ops[k].reg \in Defs(i)
    BY <1>2, <1>3, OpsTyped DEF Uses, Defs, Touched
  <2>3. LiveAt(mf, i.ops[k].reg, b, p) \/ p \in DefPoints(mf, i.ops[k].reg)
    BY <1>1, <2>2, ReadIsLive DEF Analysed, DefPoints
  <2> QED BY <2>1, <2>3, LivePlaced
<1>4. Uses(i) \cap ToSet(Scratch) # {} => \A k \in DOMAIN i.ops : i.ops[k].reg \in PReg
  BY <1>1 DEF MachineFit
<1>5. slots \in Nat /\ DOMAIN contents = PReg \union 1..slots
  BY DEF RunState, TypeInv, ScanInv, ScanShape
<1> QED BY <1>2, <1>3, <1>4, <1>5 DEF Runnable

(* Every read finds its value, and a late one is not overwritten early.      *)
LEMMA ReadsHold ==
  ASSUME RunState
  PROVE  ReadsIntact
<1>1. PICK b \in ReachedBlocks(mf) : pc \in BlockPoints(mf, b) /\ HeldAt(b, pc)
  BY DEF RunState, HeldInv
<1> DEFINE i == mf.insts[pc]
<1>2. b \in DOMAIN mf.blocks /\ Runnable(i)
  BY <1>1, PointRuns DEF ReachedBlocks
<1>3. /\ Analysed /\ SegmentsInHull /\ SharersNeverInterfere /\ Regular(i, vregs)
      /\ VRegs = 1..vregs /\ LateApart(i)
  BY <1>1, <1>2 DEF RunState, ScanInv, FitInv, MachineFit, Runnable, Analysed
<1>4. ASSUME NEW k \in Operands(i, "use")
      PROVE  i.ops[k].reg \in Reloaded(i)[Place(i, k)]
  <2>1. k \in DOMAIN i.ops /\ i.ops[k].reg \in Uses(i) /\ i.ops[k].reg \in PReg \union VRegs
    BY <1>3 DEF Operands, Uses, Touched, Regular
  <2>2. i.ops[k].reg \in contents[Home(i.ops[k].reg)]
    BY <1>1, <1>2, <1>3, <2>1, ReadIsLive DEF HeldAt, Analysed
  <2> QED BY <1>2, <2>2, OperandRead
<1>5. ASSUME NEW k \in Operands(i, "use"), k \in i.late, NEW d \in Operands(i, "def"),
             Place(i, d) = Place(i, k)
      PROVE  FALSE
  <2>1. /\ k \in DOMAIN i.ops /\ i.ops[k].reg \in Uses(i) /\ i.ops[k].kind = "use"
        /\ d \in DOMAIN i.ops /\ i.ops[d].reg \in Defs(i) /\ i.ops[d].kind = "def"
        /\ i.ops[k].reg \in PReg \union VRegs /\ i.ops[d].reg \in PReg \union VRegs
    BY <1>3 DEF Operands, Uses, Defs, Touched, Regular
  <2>2. /\ i.ops[k].reg \notin Defs(i)
        /\ IF i.ops[k].reg \in PReg THEN ~i.move ELSE i.tied = {} /\ Defs(i) \cap PReg = {}
    BY <1>3, <1>5 DEF LateApart
  <2>3. Spilled(i.ops[d]) <=> Spilled(i.ops[k])
    <3>1. ASSUME NEW x \in DOMAIN i.ops, NEW y \in DOMAIN i.ops, Spilled(i.ops[x]), ~Spilled(i.ops[y]),
                 Place(i, x) = Place(i, y), y \in Operands(i, "def") \/ y \in Operands(i, "use")
          PROVE  y \in Operands(i, "def") /\ i.ops[y].reg \in PReg
      <4>1. Place(i, x) \in ToSet(Scratch)
        BY <1>2, <3>1, ScratchOf
      <4>2. i.ops[y].reg \in PReg
        BY <1>2, <3>1, <4>1, PlaceOf, SetsOfRegisters
      <4>3. Place(i, y) = i.ops[y].reg
        BY <4>2 DEF Place
      <4>4. i.ops[x].reg \notin PReg
        BY <3>1 DEF Spilled
      <4>5. y \notin Operands(i, "use")
        BY <1>2, <3>1, <4>1, <4>3, <4>4 DEF Runnable, Uses, Touched, Operands
      <4> QED BY <3>1, <4>2, <4>5
    <3>2. ASSUME Spilled(i.ops[d]), ~Spilled(i.ops[k]) PROVE FALSE
      BY <1>5, <2>1, <3>1, <3>2 DEF Operands
    <3>3. ASSUME Spilled(i.ops[k]), ~Spilled(i.ops[d]) PROVE FALSE
      <4>1. i.ops[d].reg \in PReg
        BY <1>5, <2>1, <3>1, <3>3
      <4>2. i.ops[k].reg \notin PReg
        BY <3>3 DEF Spilled
      <4> QED BY <2>1, <2>2, <4>1, <4>2
    <3> QED BY <3>2, <3>3
  <2>4. CASE Spilled(i.ops[d]) /\ Spilled(i.ops[k])
    BY <1>2, <1>5, <2>1, <2>4, ScratchApart
  <2>5. CASE ~Spilled(i.ops[d]) /\ ~Spilled(i.ops[k])
    <3>1. Home(i.ops[d].reg) = Home(i.ops[k].reg) /\ Place(i, d) \in PReg /\ Place(i, d) = Home(i.ops[d].reg)
      BY <1>2, <1>5, <2>1, <2>5, PlaceOf
    <3>2. i.ops[d].reg \notin PReg
      BY <2>1, <2>2, <3>1 DEF Home
    <3>3. i.ops[d].reg \in VRegs /\ assign[i.ops[d].reg] \in PReg
      BY <2>1, <3>1, <3>2 DEF Home
    <3>4. /\ i.ops[k].reg \in VRegs /\ i.tied = {} => assign[i.ops[k].reg] # assign[i.ops[d].reg]
          /\ i.ops[k].reg \in PReg /\ ~i.move => i.ops[k].reg # assign[i.ops[d].reg]
      BY <1>1, <1>2, <1>3, <2>1, <2>2, <3>2, <3>3, ReadLateApart
    <3> QED BY <2>1, <2>2, <3>1, <3>2, <3>4 DEF Home
  <2> QED BY <2>3, <2>4, <2>5
<1> QED BY <1>4, <1>5 DEF ReadsIntact

(* A scratch register is only needed right behind what writes it.            *)
LEMMA ScratchShortLived ==
  ASSUME NEW m, NEW n, MachineFit(m, n), NEW b \in DOMAIN m.blocks, NEW p \in BlockPoints(m, b),
         NEW r \in ToSet(Scratch), LiveAt(m, r, b, p)
  PROVE  p # m.blocks[b].first /\ r \in Defs(m.insts[p - 1])
<1>1. Numbered(m) /\ r \in PReg
  BY SetsOfRegisters DEF MachineFit, MachineShape
<1>2. /\ p \in Nat /\ m.blocks[b].first \in Nat /\ m.blocks[b].last \in Nat
      /\ m.blocks[b].first <= p /\ BlockPoints(m, b) \subseteq Points(m)
      /\ BlockPoints(m, b) = m.blocks[b].first .. m.blocks[b].last
  BY <1>1, BlockBounds
<1>3. b \notin LiveOutOf(m, LiveInto(m, r))
  <2>1. LiveInto(m, r) \subseteq {1} /\ 1 \notin m.blocks[b].succ
    BY <1>1 DEF MachineFit
  <2> QED BY <2>1 DEF LiveOutOf
<1>4. PICK u \in p .. m.blocks[b].last :
        u \in UsePoints(m, r) /\ \A q \in p .. (u - 1) : q \notin DefPoints(m, r)
  BY <1>3 DEF LiveAt
<1>5. u \in BlockPoints(m, b) /\ r \in Uses(m.insts[u])
  BY <1>2, <1>4 DEF UsePoints
<1>6. u # m.blocks[b].first /\ r \in Defs(m.insts[u - 1])
  <2>1. Uses(m.insts[u]) \cap ToSet(Scratch) # {}
    BY <1>5
  <2> QED BY <1>5, <2>1 DEF MachineFit
<1>7. u - 1 \in DefPoints(m, r)
  <2>1. u - 1 \in Points(m)
    BY <1>2, <1>5, <1>6
  <2> QED BY <1>6, <2>1 DEF DefPoints
<1>8. u = p
  BY <1>2, <1>4, <1>7
<1> QED BY <1>6, <1>8

(* Within a block.                                                           *)
LEMMA StepHolds ==
  ASSUME RunState, NEW b \in DOMAIN mf.blocks, NEW p \in BlockPoints(mf, b), p # mf.blocks[b].last,
         HeldAt(b, p), NEW n \in PReg \union VRegs, LiveAt(mf, n, b, p + 1)
  PROVE  n \in After(mf.insts[p])[Home(n)]
<1> DEFINE i == mf.insts[p]
<1>1. /\ Analysed /\ SegmentsInHull /\ SharersNeverInterfere /\ Numbered(mf)
      /\ MachineFit(mf, vregs) /\ VRegs = 1..vregs /\ SlotsApart
  BY DEF RunState, ScanInv, FitInv, Analysed, PlacedInv
<1>2. Runnable(i) /\ Regular(i, vregs)
  BY PointRuns DEF Runnable
<1>3. p + 1 \in BlockPoints(mf, b) /\ p \in Points(mf) /\ p \in Nat
  BY <1>1, BlockWithin, BlockBounds
<1>4. CASE n \in Defs(i)
  BY <1>2, <1>4, DefinedHome
<1>5. CASE n \notin Defs(i)
  <2>1. n \in contents[Home(n)]
    <3>1. LiveAt(mf, n, b, p)
      BY <1>1, <1>5, LiveBefore
    <3> QED BY <3>1 DEF HeldAt
  <2>2. n \notin PReg => n \in VRegs /\ assign[n] \in ToSet(Allocatable) \union 1..slots
    BY <1>3, LivePlaced
  <2>3. Home(n) \notin ToSet(Scratch)
    <3>1. CASE n \in PReg
      <4>1. n \notin ToSet(Scratch)
        <5> SUFFICES ASSUME n \in ToSet(Scratch)
                     PROVE  FALSE
          OBVIOUS
        <5>1. n \in Defs(mf.insts[(p + 1) - 1])
          BY <1>1, <1>3, ScratchShortLived
        <5> QED BY <1>3, <1>5, <5>1
      <4> QED BY <3>1, <4>1 DEF Home
    <3>2. CASE n \notin PReg
      BY <2>2, <3>2, SetsOfRegisters, PRegAssumption DEF Home
    <3> QED BY <3>1, <3>2
  <2>4. CASE \A d \in Defs(i) : Home(d) # Home(n)
    BY <1>1, <1>2, <1>5, <2>1, <2>2, <2>3, <2>4, OthersStay
  <2>5. ASSUME NEW d \in Defs(i), Home(d) = Home(n)
        PROVE  n \in After(i)[Home(n)]
    <3>1. n # d /\ d \in PReg \union VRegs
      BY <1>1, <1>2, <1>5 DEF Regular, Defs, Touched
    <3>2. CASE d \in PReg /\ n \in PReg
      BY <2>5, <3>1, <3>2 DEF Home
    <3>3. CASE d \in PReg /\ n \notin PReg
      <4>1. d = assign[n] /\ n \in VRegs /\ Home(n) = assign[n]
        BY <2>2, <2>5, <3>3 DEF Home
      <4>2. i.move /\ n \in Uses(i)
        BY <1>1, <1>3, <1>5, <3>3, <4>1, FixedOffLive
      <4>3. assign[n] \in ToSet(Allocatable)
        BY <2>2, <3>3, <4>1, PRegAssumption DEF PlacedInv, RunState
      <4> QED BY <1>1, <1>2, <1>5, <2>1, <3>3, <4>1, <4>2, <4>3, CopiedStays
    <3>4. CASE d \notin PReg
      <4>1. d \in VRegs /\ assign[d] \in ToSet(Allocatable) \union 1..slots
        <5>1. d \in VRegs /\ p \in DefPoints(mf, d)
          BY <1>3, <3>1, <3>4 DEF DefPoints
        <5> QED BY <5>1, LivePlaced
      <4>2. CASE n \in PReg
        <5>1. assign[d] = n /\ Defs(i) = {d}
          BY <1>2, <2>5, <3>4, <4>2, OneVirtualDef DEF Home
        <5>2. b \notin LiveOutOf(mf, LiveInto(mf, n))
          <6>1. LiveInto(mf, n) \subseteq {1} /\ 1 \notin mf.blocks[b].succ
            BY <1>1, <4>2 DEF MachineFit
          <6> QED BY <6>1 DEF LiveOutOf
        <5>3. PICK u \in p + 1 .. mf.blocks[b].last :
                u \in UsePoints(mf, n) /\ \A q \in (p + 1) .. (u - 1) : q \notin DefPoints(mf, n)
          BY <5>2 DEF LiveAt
        <5>4. p + 1 <= u
          BY <5>3
        <5> QED BY <1>1, <1>3, <1>5, <4>1, <4>2, <5>1, <5>3, <5>4, DefinedOffFixed
      <4>3. CASE n \notin PReg
        <5>1. n \in VRegs /\ assign[n] = assign[d]
          BY <2>2, <2>5, <3>4, <4>3 DEF Home
        <5>2. CASE assign[d] \in PReg
          BY <1>1, <1>2, <1>3, <3>1, <3>4, <4>1, <5>1, <5>2, DefinedApart
        <5>3. CASE assign[d] \notin PReg
          <6>1. assign[d] \in Nat
            BY <4>1, <5>3, SetsOfRegisters, <1>2 DEF Runnable
          <6> QED BY <1>1, <3>1, <4>1, <5>1, <6>1 DEF SlotsApart
        <5> QED BY <5>2, <5>3
      <4> QED BY <4>2, <4>3
    <3> QED BY <3>2, <3>3, <3>4
  <2> QED BY <2>4, <2>5
<1> QED BY <1>4, <1>5

(* Into the next block.                                                      *)
LEMMA JumpHolds ==
  ASSUME RunState, NEW b \in DOMAIN mf.blocks, NEW s \in mf.blocks[b].succ,
         HeldAt(b, mf.blocks[b].last),
         NEW n \in PReg \union VRegs, LiveAt(mf, n, s, mf.blocks[s].first)
  PROVE  n \in After(mf.insts[mf.blocks[b].last])[Home(n)]
<1> DEFINE p == mf.blocks[b].last
           i == mf.insts[p]
<1>1. /\ Analysed /\ Numbered(mf) /\ MachineFit(mf, vregs) /\ VRegs = 1..vregs /\ SlotsApart
  BY DEF RunState, FitInv, Analysed, PlacedInv
<1>2. p \in BlockPoints(mf, b) /\ p \in Nat
  BY <1>1, BlockBounds
<1>3. Runnable(i) /\ Defs(i) = {} /\ s \in DOMAIN mf.blocks /\ s # 1
  BY <1>1, <1>2, PointRuns DEF MachineFit, MachineShape
<1>4. s \in LiveInto(mf, n) /\ LiveAt(mf, n, b, p)
  BY <1>1, <1>3, LiveAcross
<1>5. n \notin PReg
  BY <1>1, <1>3, <1>4 DEF MachineFit
<1>6. assign[n] \in ToSet(Allocatable) \union 1..slots
  BY <1>2, <1>4, <1>5, LivePlaced
<1>7. Home(n) \notin ToSet(Scratch)
  BY <1>5, <1>6, SetsOfRegisters, PRegAssumption DEF Home
<1>8. n \in contents[Home(n)]
  BY <1>4 DEF HeldAt
<1> QED BY <1>1, <1>3, <1>5, <1>6, <1>7, <1>8, OthersStay

(* The caller leaves no virtual register a value, and none is needed.        *)
LEMMA EntryLive ==
  ASSUME NEW m, Numbered(m), NEW b \in DOMAIN m.blocks, NEW n, LiveAt(m, n, b, m.blocks[b].first)
  PROVE  b \in LiveInto(m, n)
<1>1. BlockPoints(m, b) = m.blocks[b].first .. m.blocks[b].last
  BY BlockBounds
<1>2. Exposed(m, n, b) \/ (b \in LiveOutOf(m, LiveInto(m, n)) /\ ~Written(m, n, b))
  <2>1. CASE \E u \in m.blocks[b].first .. m.blocks[b].last :
               u \in UsePoints(m, n) /\ \A q \in m.blocks[b].first .. (u - 1) : q \notin DefPoints(m, n)
    BY <1>1, <2>1 DEF Exposed
  <2>2. CASE /\ b \in LiveOutOf(m, LiveInto(m, n))
             /\ \A q \in m.blocks[b].first .. m.blocks[b].last : q \notin DefPoints(m, n)
    BY <1>1, <2>2 DEF Written
  <2> QED BY <2>1, <2>2 DEF LiveAt
<1> QED BY <1>2, LeastSolves DEF Solves

(* At the entry nothing but physical registers is needed.                    *)
LEMMA EntryHolds ==
  ASSUME TypeInv, ScanInv, FitInv, Rewrite
  PROVE  /\ 1 \in ReachedBlocks(mf) /\ pc' \in BlockPoints(mf, 1)
         /\ \A n \in PReg \union VRegs : LiveAt(mf, n, 1, pc') => n \in contents'[Home(n)]
<1>1. Analysed /\ MachineFit(mf, vregs) /\ Numbered(mf) /\ 1 \in DOMAIN mf.blocks
  BY DEF Rewrite, FitInv, MachineFit, MachineShape
<1>2. pc' = mf.blocks[1].first
  BY DEF Rewrite
<1>3. 1 \in ReachedBlocks(mf) /\ pc' \in BlockPoints(mf, 1)
  BY <1>1, <1>2, BlockWithin DEF ReachedBlocks
<1>4. ASSUME NEW n \in PReg \union VRegs, LiveAt(mf, n, 1, pc')
      PROVE  n \in contents'[Home(n)]
  <2>1. 1 \in LiveInto(mf, n)
    BY <1>1, <1>2, <1>4, EntryLive
  <2>2. n \in PReg
    BY <1>1, <2>1 DEF MachineFit, Analysed
  <2>3. contents'[n] = {n}
    BY <2>2 DEF Rewrite
  <2> QED BY <2>2, <2>3 DEF Home
<1> QED BY <1>3, <1>4

(* A block a jump leads to is reached.                                       *)
LEMMA ReachedGrows ==
  ASSUME NEW m, MachineShape(m), NEW b \in ReachedBlocks(m), NEW s \in m.blocks[b].succ
  PROVE  s \in ReachedBlocks(m)
<1>1. b \in DOMAIN m.blocks /\ s \in DOMAIN m.blocks
  BY DEF ReachedBlocks, MachineShape
<1> QED BY <1>1 DEF ReachedBlocks

(* Running one instruction keeps every name in its home.                     *)
LEMMA ExecuteHolds ==
  ASSUME RunState, Execute
  PROVE  HeldInv'
<1>1. PICK b \in ReachedBlocks(mf) : pc \in BlockPoints(mf, b) /\ HeldAt(b, pc)
  BY DEF RunState, HeldInv
<1>2. /\ MachineFit(mf, vregs) /\ MachineShape(mf) /\ Numbered(mf) /\ b \in DOMAIN mf.blocks
  BY <1>1 DEF RunState, FitInv, MachineFit, MachineShape, ReachedBlocks
<1>3. mf' = mf /\ assign' = assign /\ queue' = queue /\ contents' = After(mf.insts[pc])
  BY DEF Execute, scanVars, Runs, After
<1>4. \A n : Home(n)' = Home(n)
  BY <1>3 DEF Home
<1>5. \A p \in Points(mf) : EnoughScratch(mf.insts[p])'
  BY <1>3 DEF RunState, HeldInv, EnoughScratch, Borrows, Spilled, SameUse
<1>6. \E c \in ReachedBlocks(mf) : /\ pc' \in BlockPoints(mf, c)
                                   /\ \A n \in PReg \union VRegs : LiveAt(mf, n, c, pc') => n \in contents'[Home(n)]
  <2>1. CASE Ending = {}
    <3>1. pc' = pc + 1 /\ pc # mf.blocks[b].last
      BY <1>2, <2>1 DEF Execute, Ending
    <3>2. pc' \in BlockPoints(mf, b)
      BY <1>1, <1>2, <3>1, BlockWithin
    <3>3. \A n \in PReg \union VRegs : LiveAt(mf, n, b, pc') => n \in contents'[Home(n)]
      BY <1>1, <1>2, <1>3, <3>1, StepHolds
    <3> QED BY <1>1, <3>2, <3>3
  <2>2. CASE Ending # {}
    <3>0. PICK c \in Ending : \E s \in mf.blocks[c].succ : pc' = mf.blocks[s].first
      BY <2>2 DEF Execute
    <3>1. PICK s \in mf.blocks[c].succ : pc' = mf.blocks[s].first
      BY <3>0
    <3>2. c \in DOMAIN mf.blocks /\ mf.blocks[c].last = pc
      BY DEF Ending
    <3>3. pc \in BlockPoints(mf, c)
      BY <1>2, <3>2, BlockBounds
    <3>4. c = b
      BY <1>1, <1>2, <3>2, <3>3 DEF MachineFit
    <3>5. s \in ReachedBlocks(mf) /\ s \in DOMAIN mf.blocks
      BY <1>1, <1>2, <3>4, ReachedGrows DEF ReachedBlocks
    <3>6. pc' \in BlockPoints(mf, s)
      BY <1>2, <3>1, <3>5, BlockWithin
    <3>7. \A n \in PReg \union VRegs : LiveAt(mf, n, s, pc') => n \in contents'[Home(n)]
      <4>1. HeldAt(b, mf.blocks[b].last) /\ mf.blocks[b].last = pc
        BY <1>1, <3>2, <3>4
      <4> QED BY <1>2, <1>3, <3>1, <3>4, <4>1, JumpHolds
    <3> QED BY <3>5, <3>6, <3>7
  <2> QED BY <2>1, <2>2
<1>7. VRegs' = VRegs
  BY <1>3 DEF VRegs
<1> QED BY <1>3, <1>4, <1>5, <1>6, <1>7 DEF HeldInv, HeldAt, RunState

(* A step of the scan gives away a register, or a slot nobody has.           *)
LEMMA PlacedUpdate ==
  ASSUME ScanInv, TypeInv, PlacedInv, VRegs' = VRegs, live' = live, queue' = queue \ {Current},
         \A v \in VRegs : \/ assign'[v] = assign[v] /\ v # Current
                          \/ assign'[v] \in ToSet(Allocatable)
                          \/ assign'[v] = slots + 1 /\ \A u \in VRegs : assign'[u] = slots + 1 => u = v
  PROVE  PlacedInv'
<1>1. /\ slots \in Nat /\ slots + 1 \in Nat /\ None \notin PReg \union Nat
      /\ \A r \in PReg : r \notin Nat
      /\ \A v \in VRegs : assign[v] \in Nat => assign[v] \in 1..slots
  BY AllocatableAssumption, PRegAssumption DEF ScanInv, ScanShape, TypeInv
<1>2. ASSUME NEW v \in VRegs, assign'[v] \in PReg
      PROVE  assign'[v] \in ToSet(Allocatable)
  BY <1>1, <1>2 DEF PlacedInv
<1>3. ASSUME NEW v \in VRegs, assign'[v] = None
      PROVE  v \in queue' \/ live'.hull[v] = {}
  <2>1. assign'[v] = assign[v] /\ v # Current
    BY <1>1, <1>3, SetsOfRegisters
  <2> QED BY <1>3, <2>1 DEF PlacedInv
<1>4. ASSUME NEW u \in VRegs, NEW v \in VRegs, assign'[u] \in Nat, assign'[u] = assign'[v]
      PROVE  u = v
  <2>1. CASE assign'[u] = slots + 1 \/ assign'[v] = slots + 1
    <3>1. assign'[u] # assign[u] /\ assign'[v] # assign[v]
      BY <1>1, <1>4, <2>1
    <3> QED BY <1>1, <1>4, <2>1, <3>1, SetsOfRegisters
  <2>2. CASE assign'[u] # slots + 1 /\ assign'[v] # slots + 1
    <3>1. assign'[u] = assign[u] /\ assign'[v] = assign[v]
      BY <1>1, <1>4, <2>2, SetsOfRegisters
    <3> QED BY <1>4, <3>1 DEF PlacedInv, SlotsApart
  <2> QED BY <2>1, <2>2
<1> QED BY <1>2, <1>3, <1>4 DEF PlacedInv, SlotsApart

(* A step of the scan hands out one place.                                   *)
LEMMA PlacedKeeps ==
  ASSUME ScanInv, TypeInv, PlacedInv, ScanStep
  PROVE  PlacedInv'
<1>1. /\ queue # {} /\ queue' = queue \ {Current} /\ live' = live /\ slots \in Nat
  BY DEF ScanStep, AssignFree, TakeFromVictim, SpillCurrent, ScanInv, ScanShape
<1>2. Current \in queue /\ Current \in VRegs
  BY <1>1, CurrentFirst DEF ScanInv, ScanShape
<1>3. /\ \A k \in DOMAIN Allocatable : Allocatable[k] \in ToSet(Allocatable)
      /\ slots + 1 \notin PReg /\ slots + 1 \in Nat
      /\ \A v \in VRegs : assign[v] \in Nat => assign[v] \in 1..slots
  BY <1>1, PRegAssumption DEF ToSet, TypeInv
<1>4. \A v \in VRegs : assign[v] # slots + 1
  BY <1>1, <1>3
<1>5. CASE AssignFree
  <2>1. PICK k \in Candidates : assign' = [assign EXCEPT ![Current] = Allocatable[k]]
    BY <1>5 DEF AssignFree
  <2>2. k \in DOMAIN Allocatable
    BY <2>1 DEF Candidates, Hinted, Free
  <2>3. VRegs' = VRegs /\ \A v \in VRegs : assign'[v] = IF v = Current THEN Allocatable[k] ELSE assign[v]
    BY <2>1 DEF VRegs
  <2> QED BY <1>1, <1>3, <2>2, <2>3, PlacedUpdate
<1>6. CASE TakeFromVictim
  <2>1. PICK a \in Victim : assign' = [assign EXCEPT ![a.vreg] = slots + 1, ![Current] = a.preg]
    BY <1>6 DEF TakeFromVictim
  <2>2. a \in active
    BY <2>1 DEF Victim, Evictable, StillActive
  <2>3. a.preg \in ToSet(Allocatable) /\ a.vreg \in VRegs \ queue
    BY <2>2 DEF TypeInv, ScanInv, ScanShape
  <2>4. a.vreg # Current
    BY <1>2, <2>3
  <2>5. VRegs' = VRegs /\ \A v \in VRegs : assign'[v] = IF v = Current THEN a.preg
                                                       ELSE IF v = a.vreg THEN slots + 1 ELSE assign[v]
    BY <2>1 DEF VRegs
  <2>6. a.preg # slots + 1
    BY <1>3, <2>3, SetsOfRegisters
  <2>7. \A v \in VRegs : \/ assign'[v] = assign[v] /\ v # Current
                         \/ assign'[v] \in ToSet(Allocatable)
                         \/ assign'[v] = slots + 1 /\ \A u \in VRegs : assign'[u] = slots + 1 => u = v
    BY <1>4, <2>3, <2>4, <2>5, <2>6
  <2> QED BY <1>1, <2>5, <2>7, PlacedUpdate
<1>7. CASE SpillCurrent
  <2>1. assign' = [assign EXCEPT ![Current] = slots + 1]
    BY <1>7 DEF SpillCurrent
  <2>2. VRegs' = VRegs /\ \A v \in VRegs : assign'[v] = IF v = Current THEN slots + 1 ELSE assign[v]
    BY <2>1 DEF VRegs
  <2> QED BY <1>1, <1>4, <2>2, PlacedUpdate
<1> QED BY <1>5, <1>6, <1>7 DEF ScanStep

(* Over every step, a register that is done has a place of the right kind.   *)
LEMMA PlacedNext ==
  ASSUME CopyInv, CodeInv, ScanInv, TypeInv, PlacedInv, [Next]_vars
  PROVE  PlacedInv'
<1>1. CASE UNCHANGED scanVars
  BY <1>1 DEF scanVars, PlacedInv, SlotsApart, VRegs
<1>2. CASE StartScan
  <2>1. PICK precise \in Modes : \E order \in Orders(code, precise) :
          BeginScan(Laid(code, order, precise), vregs)
    BY <1>2 DEF StartScan
  <2>2. PICK order \in Orders(code, precise) : BeginScan(Laid(code, order, precise), vregs)
    BY <2>1
  <2>3. /\ assign' = [v \in 1..vregs |-> None] /\ live' = LivenessOf(Laid(code, order, precise), vregs)
        /\ queue' = {v \in DOMAIN live'.hull : live'.hull[v] # {}}
    BY <2>2 DEF BeginScan
  <2>4. DOMAIN live'.hull = 1..vregs
    BY <2>3 DEF LivenessOf
  <2> QED BY <2>3, <2>4, AllocatableAssumption DEF PlacedInv, SlotsApart, VRegs
<1>3. CASE Scan
  BY <1>3, PlacedKeeps DEF Scan
<1>4. CASE SplitEdge \/ CopyStep \/ FinishEdge \/ Rewrite \/ RewritePanics \/ Execute \/ Return \/ Over
  BY <1>1, <1>4 DEF SplitEdge, CopyStep, FinishEdge, Rewrite, RewritePanics, Execute, Return, Over, vars
<1> QED BY <1>1, <1>2, <1>3, <1>4 DEF Next, vars

(* Over every step, what is needed is held.                                  *)
LEMMA HeldNext ==
  ASSUME ScanInv, TypeInv, FitInv, PlacedInv, HeldInv, [Next]_vars
  PROVE  HeldInv'
<1>1. CASE phase' # "run"
  BY <1>1 DEF HeldInv
<1>2. CASE Rewrite
  <2>1. /\ queue = {} /\ \A p \in Points(mf) : EnoughScratch(mf.insts[p])
        /\ mf' = mf /\ assign' = assign /\ queue' = queue
    BY <1>2 DEF Rewrite, scanVars
  <2>2. /\ \A n : Home(n)' = Home(n)
        /\ \A p \in Points(mf) : EnoughScratch(mf.insts[p])'
        /\ VRegs' = VRegs
    BY <2>1 DEF Home, EnoughScratch, Borrows, Spilled, SameUse, VRegs
  <2> QED BY <1>2, <2>1, <2>2, EntryHolds DEF HeldInv, HeldAt
<1>3. CASE Execute
  <2>1. RunState
    BY <1>3 DEF Execute, RunState
  <2> QED BY <1>3, <2>1, ExecuteHolds
<1>4. CASE UNCHANGED vars
  <2>1. /\ mf' = mf /\ assign' = assign /\ queue' = queue /\ contents' = contents
        /\ pc' = pc /\ phase' = phase
    BY <1>4 DEF vars, scanVars
  <2>2. /\ \A n : Home(n)' = Home(n)
        /\ \A p : EnoughScratch(mf.insts[p])' <=> EnoughScratch(mf.insts[p])
        /\ VRegs' = VRegs
    BY <2>1 DEF Home, EnoughScratch, Borrows, Spilled, SameUse, VRegs
  <2>3. \A b : HeldAt(b, pc)' <=> HeldAt(b, pc)
    BY <2>1, <2>2 DEF HeldAt
  <2> QED BY <2>1, <2>2, <2>3 DEF HeldInv
<1>5. CASE SplitEdge \/ CopyStep \/ FinishEdge \/ StartScan \/ Scan \/ RewritePanics \/ Return \/ Over
  BY <1>1, <1>5 DEF SplitEdge, CopyStep, FinishEdge, StartScan, Scan, RewritePanics, Return, Over, vars
<1> QED BY <1>2, <1>3, <1>4, <1>5 DEF Next

===============================================================================
