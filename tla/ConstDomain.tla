------------------------------ MODULE ConstDomain -----------------------------
(***************************************************************************)
(* The flat constant lattice of src/src/analysis/domains/constants.rs.     *)
(***************************************************************************)
EXTENDS Semantics

CONSTANTS ConstBottom, ConstTop

ASSUME ConstAssumption ==
  ConstBottom # ConstTop /\ {ConstBottom, ConstTop} \intersect Consts = {}

ConstElem == Consts \union {ConstBottom, ConstTop}

(* Equality of constants is equality of their mathematical values.          *)
ConstJoin(x, y) ==
  CASE x = ConstBottom -> y
    [] y = ConstBottom -> x
    [] x = y -> x
    [] OTHER -> ConstTop

ConstLeq(x, y) == x = ConstBottom \/ y = ConstTop \/ x = y

(* widen defaults to join.                                                  *)
ConstWiden(x, y) == ConstJoin(x, y)

FromSem(w, x) == IF x = Poison THEN Poison ELSE IntConst(w, x.bits)

ConstGamma(x) ==
  CASE x = ConstBottom -> {}
    [] x = ConstTop -> SemValue
    [] x \in Consts -> {ToSem(x)}

ConstAbstract(c) == c

ConstDenotes(c) == {ToSem(c)}

(* Bottom in any operand keeps the result undetermined; the rest is folded  *)
(* when every operand is a constant and folding is defined.                 *)
ConstTransfer(op, args) ==
  LET elems == {args[i] : i \in DOMAIN args}
      results == EvalInst(op, [i \in DOMAIN args |-> ToSem(args[i])])
  IN  IF op.kind \in Opaque THEN ConstTop
      ELSE IF ConstBottom \in elems THEN ConstBottom
      ELSE IF ConstTop \in elems \/ results = {} THEN ConstTop
      ELSE FromSem(op.width, CHOOSE r \in results : TRUE)

ConstFeasible(x, guard) ==
  CASE x = ConstBottom -> FALSE
    [] x = ConstTop -> TRUE
    [] x \in Consts -> CondHolds(ToSem(x), guard)
===============================================================================
