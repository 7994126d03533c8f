-------------------------------- MODULE MCWiden -------------------------------
(* The interval domain over loops: how often a value changes, that the       *)
(* engine stops, and what yield-point insertion makes of the result.         *)
(* Nothing here makes poison.                                                *)
EXTENDS YieldPoints

CONSTANT Starts                    \* the constants k1, k2 and k3

MCWidth == {1, 3}

Ops == [k \in {"add", "slt", "sle", "ult", "ne", "zext", "load"} |->
          Op(k, IF k \in {"add", "zext"} THEN 3 ELSE 1, {})]

MCBlock == 1..4
MCValue == 1..13
MCGuard == {CondIs(TRUE), CondIs(FALSE)}
MCOpcode == {Ops[k] : k \in DOMAIN Ops}
MCArity == [o \in MCOpcode |-> CASE o.kind = "load" -> 0 [] o.kind = "zext" -> 1 [] OTHER -> 2]
MCElem == RangeElem
MCLiteral == {IntConst(3, v) : v \in -4..3} \union {IntConst(1, 0)}
MCConcrete == Ints
MCJoin(x, y) == RangeJoin(x, y)
MCLeq(x, y) == RangeLeq(x, y)
MCWiden(x, y) == RangeWiden(x, y)
MCAbstract(l) == RangeAbstract(l)
MCTransfer(o, s) == RangeTransfer(o, s)
MCFeasible(x, g) == RangeFeasible(x, g)
MCGamma(x) == RangeGamma(x) \ {Poison}
MCDenotes(l) == {ToSem(l)}
MCEval(o, s) == {c \in EvalInst(o, s) \ {Poison} : c.width = o.width}
MCSatisfies(c, g) == CondHolds(c, g)
MCRivals(f, seeds) == {}

-----------------------------------------------------------------------------

Br(to, args) == <<[guard |-> Always, to |-> to, args |-> args]>>
CondBr(t1, a1, t2, a2) ==
  <<[guard |-> CondIs(TRUE), to |-> t1, args |-> a1],
    [guard |-> CondIs(FALSE), to |-> t2, args |-> a2]>>

(***************************************************************************)
(*   block 1:      x = load;  b = x < 0;  n = zext b;  br or cond_br b      *)
(*   block 2 (p):  y = p + k2;  c = a test of p or y;  cond_br c            *)
(*   block 3 (q):  z = q + k2;  d = a test of q or z;  cond_br d            *)
(*   block 4:      ret                                                      *)
(* The values in order: k1 k2 k3 p y c q z d x b n 0.                       *)
(***************************************************************************)
Loops(k, c, d, s1, s2, s3) ==
  [entry |-> 1,
   def |-> <<"const", "const", "const", "param", "inst", "inst", "param", "inst", "inst",
             "inst", "inst", "inst", "const">>,
   lit |-> [v \in 1..13 |-> CASE v \in 1..3 -> IntConst(3, k[v]) [] OTHER -> IntConst(1, 0)],
   hook |-> [v \in {} |-> Bottom],
   params |-> <<<<>>, <<4>>, <<7>>, <<>>>>,
   insts |-> <<<<10, 11, 12>>, <<5, 6>>, <<8, 9>>, <<>>>>,
   op |-> [v \in 1..13 |-> CASE v = 6 -> c.op [] v = 9 -> d.op [] v = 10 -> Ops.load
                              [] v = 11 -> Ops.slt [] v = 12 -> Ops.zext [] OTHER -> Ops.add],
   ops |-> <<<<>>, <<>>, <<>>, <<>>, <<4, 2>>, c.ops, <<>>, <<7, 2>>, d.ops, <<>>, <<10, 13>>, <<11>>, <<>>>>,
   cond |-> <<11, 6, 9, 9>>,
   succs |-> <<s1, s2, s3, <<>>>>]

Test(kind, x, y) == [op |-> Ops[kind], ops |-> <<x, y>>]

Ordinary == {<<0, 1, 2>>, <<-4, 1, 3>>, <<-4, 3, -2>>, <<3, -1, 0>>}
AtMaximum == {<<3, 1, 2>>}

(* Nested loops, one loop after the other, and loops that share values or   *)
(* a header.                                                                *)
Shapes ==
  {<<CondBr(3, <<1>>, 4, <<>>), CondBr(3, <<8>>, 2, <<5>>)>>,
   <<CondBr(2, <<5>>, 3, <<4>>), CondBr(3, <<8>>, 4, <<>>)>>,
   <<CondBr(3, <<5>>, 4, <<>>), CondBr(3, <<8>>, 2, <<7>>)>>,
   <<CondBr(2, <<5>>, 3, <<4>>), CondBr(2, <<5>>, 4, <<>>)>>}

Tests ==
  {<<Test("slt", 5, 12), Test("sle", 8, 3)>>,
   <<Test("sle", 4, 3), Test("slt", 12, 8)>>,
   <<Test("ult", 5, 12), Test("slt", 8, 4)>>,
   <<Test("ne", 4, 3), Test("ult", 8, 3)>>}

(* Every function is entered at block 2, and some at block 3 too.            *)
MCFunction ==
  {Close(Loops(k, t[1], t[2], Br(2, <<1>>), s[1], s[2])) : k \in Starts, t \in Tests, s \in Shapes}
    \union
  {Close(Loops(<<-4, 1, 2>>, Test("slt", 5, 12), Test("slt", 12, 8),
               CondBr(2, <<1>>, 3, <<1>>), s[1], s[2])) : s \in Shapes}

-----------------------------------------------------------------------------

VARIABLE rises                     \* how often each value has changed

WidenInit == YieldInit /\ rises = [v \in Value |-> 0]

Counts == rises' = [v \in Value |-> IF vals'[v] # vals[v] THEN rises[v] + 1 ELSE rises[v]]

WidenNext == YieldNext /\ Counts

WidenSpec ==
  /\ WidenInit
  /\ [][WidenNext]_<<planVars, rises>>
  /\ WF_<<planVars, rises>>(WidenNext)

(* The bounds of an interval climb by jumps (solver.rs and ranges.rs on     *)
(* widening): a block parameter leaves Bottom, each of its bounds moves to  *)
(* its extreme once, and at most Top follows, whatever the width.  A cycle  *)
(* without a loop header widens nowhere and is not covered.                 *)
MaxRises == 4

ClimbsInJumps ==
  \A b \in Block : \A i \in DOMAIN fn.params[b] :
    rises[fn.params[b][i]] <= MaxRises \/ ~Reducible
===============================================================================
