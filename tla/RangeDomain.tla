------------------------------- MODULE RangeDomain ----------------------------
(***************************************************************************)
(* The interval domain of src/src/analysis/domains/ranges.rs: signed       *)
(* bounds that do not wrap.  RangeTop also stands for poison; an interval  *)
(* does not.                                                               *)
(***************************************************************************)
EXTENDS Semantics

CONSTANTS RangeBottom, RangeTop

ASSUME RangeAssumption ==
  /\ RangeBottom # RangeTop
  /\ {RangeBottom, RangeTop} \intersect [width : Nat, lo : Int, hi : Int] = {}

Min2(x, y) == IF x <= y THEN x ELSE y
Max2(x, y) == IF x >= y THEN x ELSE y

(* interval: clamped to the signed range, Bottom when empty.                *)
Interval(w, lo, hi) ==
  LET l == Max2(lo, IntMin(w))  h == Min2(hi, IntMax(w))
  IN  IF l > h THEN RangeBottom ELSE [width |-> w, lo |-> l, hi |-> h]

Full(w) == Interval(w, IntMin(w), IntMax(w))

Singleton(w, v) == LET s == Signed(Sem(w, v)) IN Interval(w, s, s)

Intervals ==
  UNION {{[width |-> w, lo |-> l, hi |-> h] : l \in IntMin(w) .. IntMax(w), h \in IntMin(w) .. IntMax(w)} :
         w \in Width}

RangeElem == {r \in Intervals : r.lo <= r.hi} \union {RangeBottom, RangeTop}

RangeJoin(x, y) ==
  CASE x = RangeBottom -> y
    [] y = RangeBottom -> x
    [] RangeTop \in {x, y} -> RangeTop
    [] OTHER -> IF x.width # y.width THEN RangeTop
                ELSE [width |-> x.width, lo |-> Min2(x.lo, y.lo), hi |-> Max2(x.hi, y.hi)]

RangeLeq(x, y) ==
  \/ x = RangeBottom
  \/ y = RangeTop
  \/ {x, y} \intersect {RangeBottom, RangeTop} = {}
     /\ x.width = y.width /\ y.lo <= x.lo /\ x.hi <= y.hi

(* A bound of x that moved outward in y jumps to the extreme.               *)
RangeWiden(x, y) ==
  CASE x = RangeBottom -> y
    [] y = RangeBottom -> x
    [] RangeTop \in {x, y} -> RangeTop
    [] OTHER -> IF x.width # y.width THEN RangeTop
                ELSE Interval(x.width,
                       IF y.lo < x.lo THEN IntMin(x.width) ELSE x.lo,
                       IF y.hi > x.hi THEN IntMax(x.width) ELSE x.hi)

RangeGamma(x) ==
  CASE x = RangeBottom -> {}
    [] x = RangeTop -> SemValue
    [] OTHER -> {c \in IntOf(x.width) : x.lo <= Signed(c) /\ Signed(c) <= x.hi}

RangeAbstract(c) == IF c = Poison THEN RangeTop ELSE Singleton(c.width, c.value)

-----------------------------------------------------------------------------

(* to_unsigned: an interval that straddles zero has no contiguous image.    *)
ToUnsigned(x) ==
  IF x.lo >= 0 THEN [lo |-> x.lo, hi |-> x.hi]
  ELSE IF x.hi < 0 THEN [lo |-> x.lo + 2^x.width, hi |-> x.hi + 2^x.width]
  ELSE [lo |-> 0, hi |-> 2^x.width - 1]

CornerProducts(x, y) ==
  LET p == {x.lo * y.lo, x.lo * y.hi, x.hi * y.lo, x.hi * y.hi}
  IN  [lo |-> CHOOSE m \in p : \A q \in p : m <= q,
       hi |-> CHOOSE m \in p : \A q \in p : m >= q]

(* The exact result, in unbounded arithmetic.                               *)
ExactRange(kind, x, y) ==
  CASE kind = "add" -> [lo |-> x.lo + y.lo, hi |-> x.hi + y.hi]
    [] kind = "sub" -> [lo |-> x.lo - y.hi, hi |-> x.hi - y.lo]
    [] kind = "mul" -> CornerProducts(x, y)

(* Fault: the flags are ignored.                                            *)
RangeArithUnflagged(op, x, y) ==
  LET s == ExactRange(op.kind, x, y)
  IN  IF x.width # op.width \/ y.width # op.width THEN RangeTop
      ELSE IF IntMin(op.width) <= s.lo /\ s.hi <= IntMax(op.width)
        THEN Interval(op.width, s.lo, s.hi) ELSE Full(op.width)

(* Fault: two exact operands whose result wraps give up altogether.         *)
RangeArithGivesUp(op, x, y) ==
  LET s == ExactRange(op.kind, x, y)
  IN  IF \/ x.width # op.width \/ y.width # op.width \/ op.flags # {}
         \/ s.lo = s.hi /\ s.lo \notin IntMin(op.width) .. IntMax(op.width)
      THEN RangeTop
      ELSE IF IntMin(op.width) <= s.lo /\ s.hi <= IntMax(op.width)
        THEN Interval(op.width, s.lo, s.hi) ELSE Full(op.width)

(* Top when a flag could be violated, everything when the result may wrap.  *)
RangeArith(op, x, y) ==
  LET w == op.width
      s == ExactRange(op.kind, x, y)
      u == ExactRange(op.kind, ToUnsigned(x), ToUnsigned(y))
      sFits == IntMin(w) <= s.lo /\ s.hi <= IntMax(w)
      uFits == 0 <= u.lo /\ u.hi <= 2^w - 1
  IN  IF \/ x.width # w \/ y.width # w
         \/ "nsw" \in op.flags /\ ~sFits
         \/ "nuw" \in op.flags /\ ~uFits
      THEN RangeTop
      ELSE IF sFits THEN Interval(w, s.lo, s.hi) ELSE Full(w)

(* decide_lt, decide_le, decide_eq: the answers the two ranges leave open.  *)
MayLt(x, y) == (IF x.lo < y.hi THEN {TRUE} ELSE {}) \union (IF x.hi >= y.lo THEN {FALSE} ELSE {})
MayLe(x, y) == (IF x.lo <= y.hi THEN {TRUE} ELSE {}) \union (IF x.hi > y.lo THEN {FALSE} ELSE {})
MayEq(x, y) ==
  IF x.lo = x.hi /\ y.lo = y.hi /\ x.lo = y.lo THEN {TRUE}
  ELSE IF x.hi < y.lo \/ y.hi < x.lo THEN {FALSE}
  ELSE BOOLEAN

DecideIcmp(pred, x, y) ==
  LET ux == ToUnsigned(x)  uy == ToUnsigned(y)
  IN  CASE pred = "eq"  -> MayEq(x, y)   [] pred = "ne"  -> {~b : b \in MayEq(x, y)}
        [] pred = "slt" -> MayLt(x, y)   [] pred = "sle" -> MayLe(x, y)
        [] pred = "sgt" -> MayLt(y, x)   [] pred = "sge" -> MayLe(y, x)
        [] pred = "ult" -> MayLt(ux, uy) [] pred = "ule" -> MayLe(ux, uy)
        [] pred = "ugt" -> MayLt(uy, ux) [] pred = "uge" -> MayLe(uy, ux)

(* boolean_range: true is the pattern 1, which reads as -1.                 *)
BooleanRange(answers) ==
  Interval(1, IF TRUE \in answers THEN -1 ELSE 0, IF FALSE \in answers THEN 0 ELSE -1)

RangeIcmp(op, x, y) ==
  BooleanRange(IF RangeTop \in {x, y} \/ x.width # y.width
                 THEN BOOLEAN ELSE DecideIcmp(op.kind, x, y))

RangeCast(op, x) ==
  CASE op.kind = "trunc" -> IF x.lo = x.hi THEN Singleton(op.width, x.lo) ELSE Full(op.width)
    [] op.kind = "zext"  -> LET u == ToUnsigned(x) IN Interval(op.width, u.lo, u.hi)
    [] op.kind = "sext"  -> Interval(op.width, x.lo, x.hi)

RangeTransfer(op, args) ==
  LET some == {args[i] : i \in DOMAIN args}
  IN  CASE op.kind \in Opaque -> RangeTop
        [] op.kind \notin Opaque /\ RangeBottom \in some -> RangeBottom
        [] OTHER ->
             CASE op.kind \in Arith -> IF RangeTop \in some THEN RangeTop
                                       ELSE RangeArith(op, args[1], args[2])
               [] op.kind \in Logic -> Full(op.width)
               [] op.kind \in Compare -> RangeIcmp(op, args[1], args[2])
               [] op.kind \in Casts -> IF RangeTop \in some THEN RangeTop
                                       ELSE RangeCast(op, args[1])
               [] OTHER -> RangeTop

(* Fault: true is looked for at 1, which no interval of width 1 contains.   *)
RangeFeasibleAtOne(x, guard) ==
  guard[1] = "is" =>
    CASE x = RangeBottom -> FALSE
      [] x = RangeTop -> TRUE
      [] OTHER -> x.width = 1 =>
                    (IF guard[2] THEN x.lo <= 1 /\ 1 <= x.hi ELSE x.lo <= 0 /\ 0 <= x.hi)

(* Only the two edges of a branch on an i1 are refined.                     *)
RangeFeasible(x, guard) ==
  guard[1] = "is" =>
    CASE x = RangeBottom -> FALSE
      [] x = RangeTop -> TRUE
      [] OTHER -> x.width = 1 =>
                    (IF guard[2] THEN x.lo <= -1 /\ -1 <= x.hi ELSE x.lo <= 0 /\ 0 <= x.hi)
===============================================================================
