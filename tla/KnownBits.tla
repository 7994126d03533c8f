------------------------------- MODULE KnownBits ------------------------------
(***************************************************************************)
(* The known-bits domain of src/src/analysis/domains/known_bits.rs.  A     *)
(* mask is the set of its positions: `zeros` and `ones` are the bits known *)
(* to be 0 and to be 1.                                                    *)
(***************************************************************************)
EXTENDS Semantics

CONSTANTS BitsBottom, BitsTop

ASSUME BitsAssumption ==
  /\ BitsBottom # BitsTop
  /\ {BitsBottom, BitsTop} \intersect [width : Nat, zeros : SUBSET Nat, ones : SUBSET Nat] = {}

Positions(w) == 0 .. w - 1

(* make: masks cut to the width, a contradiction widened to Top.            *)
Make(w, zeros, ones) ==
  LET z == zeros \intersect Positions(w)  o == ones \intersect Positions(w)
  IN  IF z \intersect o # {} THEN BitsTop ELSE [width |-> w, zeros |-> z, ones |-> o]

KnownConst(w, v) ==
  LET ones == BitsOf(w, v % 2^w) IN Make(w, Positions(w) \ ones, ones)

Masks ==
  UNION {{[width |-> w, zeros |-> z, ones |-> o] : z \in SUBSET Positions(w), o \in SUBSET Positions(w)} :
         w \in Width}

BitsElem == {k \in Masks : k.zeros \intersect k.ones = {}} \union {BitsBottom, BitsTop}

BitsJoin(x, y) ==
  CASE x = BitsBottom -> y
    [] y = BitsBottom -> x
    [] BitsTop \in {x, y} -> BitsTop
    [] OTHER -> IF x.width # y.width THEN BitsTop
                ELSE Make(x.width, x.zeros \intersect y.zeros, x.ones \intersect y.ones)

(* Fault: the bits known to be one are not compared.                        *)
BitsLeqZeros(x, y) ==
  \/ x = BitsBottom
  \/ y = BitsTop
  \/ {x, y} \intersect {BitsBottom, BitsTop} = {}
     /\ x.width = y.width /\ y.zeros \subseteq x.zeros

BitsLeq(x, y) ==
  \/ x = BitsBottom
  \/ y = BitsTop
  \/ {x, y} \intersect {BitsBottom, BitsTop} = {}
     /\ x.width = y.width /\ y.zeros \subseteq x.zeros /\ y.ones \subseteq x.ones

(* widen defaults to join.                                                  *)
BitsWiden(x, y) == BitsJoin(x, y)

BitsGamma(x) ==
  CASE x = BitsBottom -> {}
    [] x = BitsTop -> SemValue
    [] OTHER -> {c \in IntOf(x.width) :
                   LET set == BitsOf(c.width, c.bits)
                   IN  set \intersect x.zeros = {} /\ x.ones \subseteq set}

BitsAbstract(c) == IF c = Poison THEN BitsTop ELSE KnownConst(c.width, c.value)

-----------------------------------------------------------------------------

(* operand_masks: Top and an operand of another width know nothing.         *)
OperandMasks(x, w) ==
  IF x # BitsTop /\ x.width = w THEN x ELSE [width |-> w, zeros |-> {}, ones |-> {}]

FullyKnown(x) == x.zeros \union x.ones = Positions(x.width)

ValueOf(x) == PatternOf(x.width, x.ones)

ShiftedBy(S, k) == {i + k : i \in S}

Majority(p, q, r) == (p /\ (q \/ r)) \/ (q /\ r)

(* What the carry out of bit i may be, given what the carry into it may be.  *)
CarryOut(x, y, i, carry) ==
  IF Majority(i \in x.zeros, i \in y.zeros, carry = {0}) THEN {0}
  ELSE IF Majority(i \in x.ones, i \in y.ones, carry = {1}) THEN {1}
  ELSE {0, 1}

Carries(x, y, carryIn) ==
  LET carry[i \in 0 .. x.width] ==
        IF i = 0 THEN {carryIn} ELSE CarryOut(x, y, i - 1, carry[i - 1])
  IN  carry

AddWithCarry(x, y, carryIn) ==
  LET carry == Carries(x, y, carryIn)
      known == {i \in (x.zeros \union x.ones) \intersect (y.zeros \union y.ones) : carry[i] # {0, 1}}
      Odd(i) == (i \in x.ones) # ((i \in y.ones) # (carry[i] = {1}))
  IN  Make(x.width, {i \in known : ~Odd(i)}, {i \in known : Odd(i)})

Complement(x) == [width |-> x.width, zeros |-> x.ones, ones |-> x.zeros]

(* The length of the run of low bits known to be zero.                      *)
TrailingZeros(x) ==
  CHOOSE t \in 0 .. x.width : Positions(t) \subseteq x.zeros /\ t \notin x.zeros

MulKnown(x, y) ==
  IF FullyKnown(x) /\ FullyKnown(y) THEN KnownConst(x.width, ValueOf(x) * ValueOf(y))
  ELSE Make(x.width, Positions(TrailingZeros(x) + TrailingZeros(y)), {})

(* Shifts by a fully known amount below the width; Top otherwise.           *)
ShiftKnown(kind, x, y) ==
  LET w == x.width
      k == ValueOf(y)
      vacated == w - k .. w - 1
      sign == w - 1
      Fill(S) == IF sign \in S THEN vacated ELSE {}
  IN  IF ~FullyKnown(y) \/ k >= w THEN BitsTop
      ELSE CASE kind = "shl"  -> Make(w, ShiftedBy(x.zeros, k) \union Positions(k), ShiftedBy(x.ones, k))
             [] kind = "lshr" -> Make(w, ShiftedBy(x.zeros, -k) \union vacated, ShiftedBy(x.ones, -k))
             [] kind = "ashr" -> Make(w, ShiftedBy(x.zeros, -k) \union Fill(x.zeros),
                                         ShiftedBy(x.ones, -k) \union Fill(x.ones))

LogicKnown(kind, x, y) ==
  CASE kind = "and" -> Make(x.width, x.zeros \union y.zeros, x.ones \intersect y.ones)
    [] kind = "or"  -> Make(x.width, x.zeros \intersect y.zeros, x.ones \union y.ones)
    [] kind = "xor" -> Make(x.width,
                         (x.ones \intersect y.ones) \union (x.zeros \intersect y.zeros),
                         (x.ones \intersect y.zeros) \union (x.zeros \intersect y.ones))

(* Flagged arithmetic, and the opcodes not listed, are Top.                 *)
BinKnown(op, x, y) ==
  LET wraps == {"nsw", "nuw"} \intersect op.flags = {}
  IN  CASE op.kind \in Logic -> LogicKnown(op.kind, x, y)
        [] op.kind = "add" /\ wraps -> AddWithCarry(x, y, 0)
        [] op.kind = "sub" /\ wraps -> AddWithCarry(x, Complement(y), 1)
        [] op.kind = "mul" /\ wraps -> MulKnown(x, y)
        [] op.kind = "shl" /\ wraps -> ShiftKnown("shl", x, y)
        [] op.kind \in {"lshr", "ashr"} /\ "exact" \notin op.flags -> ShiftKnown(op.kind, x, y)
        [] OTHER -> BitsTop

IcmpKnown(op, x, y) ==
  LET conflict == x.ones \intersect y.zeros # {} \/ x.zeros \intersect y.ones # {}
      Known(b) == KnownConst(1, IF b THEN 1 ELSE 0)
  IN  IF BitsTop \in {x, y} THEN BitsTop
      ELSE CASE x.width # y.width -> BitsTop
             [] x.width = y.width /\ FullyKnown(x) /\ FullyKnown(y) ->
                  Known(Compares(op.kind, x.width, ValueOf(x), ValueOf(y)))
             [] OTHER -> IF conflict /\ op.kind \in {"eq", "ne"} THEN Known(op.kind = "ne")
                         ELSE BitsTop

CastKnown(op, x) ==
  LET new == x.width .. op.width - 1
      sign == x.width - 1
      Fill(S) == IF sign \in S THEN new ELSE {}
  IN  CASE op.kind = "trunc" -> Make(op.width, x.zeros, x.ones)
        [] op.kind = "zext"  -> Make(op.width, x.zeros \union new, x.ones)
        [] op.kind = "sext"  -> Make(op.width, x.zeros \union Fill(x.zeros), x.ones \union Fill(x.ones))

BitsTransfer(op, args) ==
  LET some == {args[i] : i \in DOMAIN args}
  IN  CASE op.kind \in Opaque -> BitsTop
        [] op.kind \notin Opaque /\ BitsBottom \in some -> BitsBottom
        [] OTHER ->
             CASE op.kind \in Compare -> IcmpKnown(op, args[1], args[2])
               [] op.kind \in Casts -> IF BitsTop \in some THEN BitsTop ELSE CastKnown(op, args[1])
               [] op.kind \in Binary \ Compare ->
                    BinKnown(op, OperandMasks(args[1], op.width), OperandMasks(args[2], op.width))
               [] OTHER -> BitsTop

(* edge_feasible keeps its default.                                         *)
BitsFeasible(x, guard) == TRUE
===============================================================================
