------------------------------- MODULE Semantics -------------------------------
(***************************************************************************)
(* The reference semantics of the integer instructions                     *)
(* (src/src/ir/semantics.rs): what an opcode does to concrete values.      *)
(*                                                                         *)
(* A value is poison or a bit pattern of a width.  An opcode is a record   *)
(* of its kind, the width of its result and its flags; "load" stands for   *)
(* every opcode whose result the analyses do not know.  EvalInst is the    *)
(* set of the results an instruction may have: none for undefined          *)
(* behaviour, nor for operands of the wrong widths, which verified code    *)
(* does not have.                                                          *)
(***************************************************************************)
EXTENDS Integers

CONSTANTS Poison, Width       \* the widths in use

\* Powers of two are what they are: the provers know nothing of exponents.
ASSUME WidthAssumption ==
  \A w \in Width : w \in Nat \ {0} /\ \A n \in 1..w : 2^n = 2 * 2^(n - 1)

ASSUME PoisonAssumption ==
  Poison \notin [width : Nat, bits : Nat] \union [width : Nat, value : Int]

Pattern(w) == 0 .. 2^w - 1

IntOf(w) == [width : {w}, bits : Pattern(w)]

Ints == UNION {IntOf(w) : w \in Width}

SemValue == Ints \union {Poison}

(* SemValue::int: the low w bits of a mathematical integer.                 *)
Sem(w, v) == [width |-> w, bits |-> v % 2^w]

Truth(b) == Sem(1, IF b THEN 1 ELSE 0)

IntMin(w) == -(2^(w - 1))
IntMax(w) == 2^(w - 1) - 1

SignedBits(w, bits) == IF bits >= 2^(w - 1) THEN bits - 2^w ELSE bits
Signed(x) == SignedBits(x.width, x.bits)

(* A constant is poison or an integer with a width, as the pool interned    *)
(* it: -1 and 2^w - 1 are two constants for one bit pattern.  Aggregates    *)
(* and addresses, which are initializers only, are left out.                *)
IntConst(w, v) == [width |-> w, value |-> v]

Consts ==
  {Poison} \union UNION {{IntConst(w, v) : v \in IntMin(w) .. 2^w - 1} : w \in Width}

(* const_to_sem.                                                            *)
ToSem(c) == IF c = Poison THEN Poison ELSE Sem(c.width, c.value)

(* A pattern as the set of the positions of its ones, and back.             *)
BitsOf(w, bits) == {i \in 0 .. w - 1 : (bits \div 2^i) % 2 = 1}
PatternOf(w, S) == CHOOSE bits \in Pattern(w) : BitsOf(w, bits) = S

-----------------------------------------------------------------------------

Arith   == {"add", "sub", "mul"}
DivRem  == {"udiv", "sdiv", "urem", "srem"}
Logic   == {"and", "or", "xor"}
Shifts  == {"shl", "lshr", "ashr"}
MinMax  == {"smin", "smax", "umin", "umax"}
Compare == {"eq", "ne", "ult", "ule", "ugt", "uge", "slt", "sle", "sgt", "sge"}
Casts   == {"trunc", "zext", "sext"}
Opaque  == {"load", "alloca", "store"}

Binary  == Arith \union DivRem \union Logic \union Shifts \union MinMax \union Compare

Op(kind, w, flags) == [kind |-> kind, width |-> w, flags |-> flags]

ArityOf(op) ==
  CASE op.kind = "select" -> 3
    [] op.kind \in Binary \union {"store"} -> 2
    [] op.kind = "alloca" -> 0
    [] OTHER -> 1

Exact(kind, a, b) ==
  CASE kind = "add" -> a + b
    [] kind = "sub" -> a - b
    [] kind = "mul" -> a * b

EvalArith(op, a, b) ==
  LET s == Exact(op.kind, Signed(a), Signed(b))
      u == Exact(op.kind, a.bits, b.bits)
  IN  IF \/ "nsw" \in op.flags /\ s \notin IntMin(a.width) .. IntMax(a.width)
         \/ "nuw" \in op.flags /\ u \notin Pattern(a.width)
      THEN Poison ELSE Sem(a.width, s)

(* Division truncates toward zero.                                          *)
Magnitude(x) == IF x < 0 THEN -x ELSE x
Quotient(x, y) ==
  LET q == Magnitude(x) \div Magnitude(y) IN IF (x < 0) = (y < 0) THEN q ELSE -q

EvalDivRem(op, a, b) ==
  LET signed == op.kind \in {"sdiv", "srem"}
      x == IF signed THEN Signed(a) ELSE a.bits
      y == IF signed THEN Signed(b) ELSE b.bits
      q == Quotient(x, y)
  IN  IF y = 0 \/ (signed /\ x = IntMin(a.width) /\ y = -1) THEN {}
      ELSE IF op.kind \in {"urem", "srem"} THEN {Sem(a.width, x - y * q)}
      ELSE IF "exact" \in op.flags /\ x # y * q THEN {Poison}
      ELSE {Sem(a.width, q)}

EvalShift(op, a, b) ==
  LET k == b.bits
      lost == "exact" \in op.flags /\ a.bits % 2^k # 0
  IN  IF k >= a.width THEN Poison
      ELSE CASE op.kind = "shl" ->
                  IF \/ "nuw" \in op.flags /\ a.bits * 2^k >= 2^a.width
                     \/ "nsw" \in op.flags /\ Signed(a) * 2^k \notin IntMin(a.width) .. IntMax(a.width)
                  THEN Poison ELSE Sem(a.width, a.bits * 2^k)
             [] op.kind = "lshr" -> IF lost THEN Poison ELSE Sem(a.width, a.bits \div 2^k)
             [] op.kind = "ashr" -> IF lost THEN Poison ELSE Sem(a.width, Signed(a) \div 2^k)

EvalLogic(op, a, b) ==
  LET x == BitsOf(a.width, a.bits)  y == BitsOf(a.width, b.bits)
  IN  Sem(a.width, PatternOf(a.width,
        CASE op.kind = "and" -> x \intersect y
          [] op.kind = "or"  -> x \union y
          [] op.kind = "xor" -> (x \ y) \union (y \ x)))

EvalMinMax(op, a, b) ==
  LET first == CASE op.kind = "smin" -> Signed(a) <= Signed(b)
                 [] op.kind = "smax" -> Signed(a) >= Signed(b)
                 [] op.kind = "umin" -> a.bits <= b.bits
                 [] op.kind = "umax" -> a.bits >= b.bits
  IN  IF first THEN a ELSE b

Compares(pred, w, x, y) ==
  LET sx == SignedBits(w, x)  sy == SignedBits(w, y)
  IN  CASE pred = "eq"  -> x = y    [] pred = "ne"  -> x # y
        [] pred = "ult" -> x < y    [] pred = "ule" -> x <= y
        [] pred = "ugt" -> x > y    [] pred = "uge" -> x >= y
        [] pred = "slt" -> sx < sy  [] pred = "sle" -> sx <= sy
        [] pred = "sgt" -> sx > sy  [] pred = "sge" -> sx >= sy

EvalCast(op, a) == Sem(op.width, IF op.kind = "sext" THEN Signed(a) ELSE a.bits)

(* The operands of an opcode that passes poison on, none of them poison.    *)
EvalDefined(op, a, b) ==
  CASE op.kind \in Arith   -> {EvalArith(op, a, b)}
    [] op.kind \in DivRem  -> EvalDivRem(op, a, b)
    [] op.kind \in Logic   -> {EvalLogic(op, a, b)}
    [] op.kind \in Shifts  -> {EvalShift(op, a, b)}
    [] op.kind \in MinMax  -> {EvalMinMax(op, a, b)}
    [] op.kind \in Compare -> {Truth(Compares(op.kind, a.width, a.bits, b.bits))}
    [] op.kind \in Casts   -> {EvalCast(op, a)}

WellTyped(op, args) ==
  LET Has(i, w) == args[i] # Poison => args[i].width = w
  IN  CASE op.kind \in Opaque -> TRUE
        [] op.kind = "select" -> Has(1, 1) /\ Has(2, op.width) /\ Has(3, op.width)
        [] op.kind = "freeze" -> Has(1, op.width)
        [] op.kind = "trunc" -> args[1] # Poison => args[1].width > op.width
        [] op.kind \in {"zext", "sext"} -> args[1] # Poison => args[1].width < op.width
        [] op.kind \in Compare ->
             op.width = 1 /\ (Poison \notin {args[1], args[2]} => Has(2, args[1].width))
        [] OTHER -> Has(1, op.width) /\ Has(2, op.width)

(* freeze and select have rules of their own for poison, every other opcode *)
(* passes it on.                                                            *)
EvalInst(op, args) ==
  IF ~WellTyped(op, args) THEN {}
  ELSE CASE op.kind \in Opaque -> SemValue
         [] op.kind = "freeze" -> {IF args[1] = Poison THEN Sem(op.width, 0) ELSE args[1]}
         [] op.kind = "select" -> {IF args[1] = Poison THEN Poison
                                   ELSE IF args[1].bits = 0 THEN args[3] ELSE args[2]}
         [] op.kind \notin Opaque \union {"freeze", "select"} ->
              IF \E i \in DOMAIN args : args[i] = Poison THEN {Poison}
              ELSE EvalDefined(op, args[1], args[ArityOf(op)])

(* Whether a concrete condition takes an edge (ir/refexec.rs): branching on *)
(* poison is undefined and takes none.                                      *)
CondIs(want)    == <<"is", want>>
CondEquals(c)   == <<"equals", c>>
CondNotAnyOf(S) == <<"none of", S>>

CondHolds(c, guard) ==
  /\ c # Poison
  /\ CASE guard[1] = "is"      -> (c.bits # 0) = guard[2]
       [] guard[1] = "equals"  -> c.bits = guard[2]
       [] guard[1] = "none of" -> c.bits \notin guard[2]
===============================================================================
