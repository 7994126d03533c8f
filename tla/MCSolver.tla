------------------------------- MODULE MCSolver -------------------------------
(* Instances of Rewrite: the constant domain over small functions.          *)
EXTENDS Rewrite

CONSTANTS Poison, ConstBottom, ConstTop

MCWidth == {1, 2}

C == INSTANCE ConstDomain WITH Width <- MCWidth

Int2(v) == C!IntConst(2, v)

Add    == C!Op("add", 2, {"nsw"})
Eq     == C!Op("eq", 1, {})
Ult    == C!Op("ult", 1, {})
Udiv   == C!Op("udiv", 2, {})
Freeze == C!Op("freeze", 2, {})
Load   == C!Op("load", 2, {"volatile"})

(* Accesses to slots: of their type, or of another.  A store has no result. *)
Slot   == C!Op("alloca", 2, {})
Get    == C!Op("load", 2, {})
GetBit == C!Op("load", 1, {})
Put    == C!Op("store", 2, {})

MCBlock == 1..4
MCValue == 1..10
MCGuard == {C!CondIs(TRUE), C!CondIs(FALSE)}
           \union {C!CondEquals(c) : c \in 0..1} \union {C!CondNotAnyOf({0, 1})}
MCOpcode == {Add, Eq, Ult, Udiv, Freeze, Load, Slot, Get, GetBit, Put}
MCArity == [o \in MCOpcode |-> C!ArityOf(o)]
MCElem == C!ConstElem
MCLiteral == C!Consts
MCConcrete == C!SemValue
MCJoin(x, y) == C!ConstJoin(x, y)
MCLeq(x, y) == C!ConstLeq(x, y)
MCWiden(x, y) == C!ConstWiden(x, y)
MCAbstract(l) == C!ConstAbstract(l)
MCTransfer(o, s) == C!ConstTransfer(o, s)
MCFeasible(x, g) == C!ConstFeasible(x, g)
MCGamma(x) == C!ConstGamma(x)
MCDenotes(l) == C!ConstDenotes(l)
MCEval(o, s) == IF o \in {Slot, Put} THEN {C!Sem(2, 0)} ELSE C!EvalInst(o, s)
MCSatisfies(c, g) == C!CondHolds(c, g)

MCName(v) == -v
MCSideEffect(o) == o \in {Load, Slot, Put}
MCLoads(o) == o \in {Get, GetBit}
MCAllocates(o) == o = Slot
MCStores(o) == o = Put
MCSameType(o, slot) == o.width = slot.width
MCPhi(a, b) == 100 * a + b
MCDivides(o) == o = Udiv
MCAsConst(x) == {x} \ {ConstBottom, ConstTop}
MCSelects(c, g) == C!CondHolds(C!ToSem(c), g)
MCIsExactly(c, g) ==
  c # Poison /\ CASE g[1] = "is"     -> c = C!IntConst(1, IF g[2] THEN 1 ELSE 0)
                  [] g[1] = "equals" -> c.value = g[2]
                  [] OTHER           -> FALSE

-----------------------------------------------------------------------------
(* Br and CondBr build a terminator's edges.                                *)
Br(to, args) == <<[guard |-> Always, to |-> to, args |-> args]>>
CondBr(t1, a1, t2, a2) ==
  <<[guard |-> C!CondIs(TRUE), to |-> t1, args |-> a1],
    [guard |-> C!CondIs(FALSE), to |-> t2, args |-> a2]>>

(***************************************************************************)
(*   block 1 (a):    x = op4(a | k, k')          ; 1, 2 constants, 3 = a   *)
(*                   br / cond_br / switch                                 *)
(*   block 2 (p, q): y = op7(p, ..); c = cmp(y, ..)                        *)
(*                   cond_br c                                             *)
(*   block 3 (r):    br 4(r)                                               *)
(*   block 4 (s):    ret s                                                 *)
(***************************************************************************)
Base(k1, k2, hook, op4, ops4, op7, ops7, op8, ops8, cond, s1, s2) ==
  [entry |-> 1,
   def |-> <<"const", "const", "param", "inst", "param", "param", "inst", "inst", "param", "param">>,
   lit |-> <<k1, k2, k1, k1, k1, k1, k1, k1, k1, k1>>,
   hook |-> hook,
   params |-> <<<<3>>, <<5, 6>>, <<9>>, <<10>>>>,
   insts |-> <<<<4>>, <<7, 8>>, <<>>, <<>>>>,
   op |-> <<op4, op4, op4, op4, op4, op4, op7, op8, op4, op4>>,
   ops |-> <<<<>>, <<>>, <<>>, ops4, <<>>, <<>>, ops7, ops8, <<>>, <<>>>>,
   cond |-> <<cond, 8, 9, 10>>,
   succs |-> <<s1, s2, Br(4, <<9>>), <<>>>>]

Literals == { <<Int2(1), Poison>>, <<Int2(-2), Int2(2)>> }
Hooks == { [v \in {} |-> Bottom], 3 :> Int2(1) }

(* A comparison in value 4 is of width 1 and read by its branch alone.      *)
Entries ==
  { [op |-> Eq,  ops |-> <<3, 1>>, succs |-> CondBr(2, <<1, 3>>, 3, <<3>>)],
    [op |-> Ult, ops |-> <<1, 2>>, succs |-> CondBr(2, <<1, 2>>, 3, <<3>>)] }

WideEntries ==
  { [op |-> Udiv, ops |-> <<3, 2>>, succs |-> Br(2, <<4, 1>>)],
    [op |-> Add,  ops |-> <<1, 2>>, succs |-> Br(2, <<1, 4>>)],
    [op |-> Freeze, ops |-> <<1>>,
     succs |-> <<[guard |-> C!CondNotAnyOf({0, 1}), to |-> 2, args |-> <<4>>],
                 [guard |-> C!CondEquals(0), to |-> 3, args |-> <<1>>],
                 [guard |-> C!CondEquals(1), to |-> 2, args |-> <<2, 3>>]>>] }

Bodies == { [op |-> Add, ops |-> <<5, 2>>], [op |-> Add, ops |-> <<5, 6>>],
            [op |-> Freeze, ops |-> <<6>>], [op |-> Load, ops |-> <<5>>],
            [op |-> Udiv, ops |-> <<2, 5>>] }

Tests == { [op |-> Ult, ops |-> <<7, 1>>], [op |-> Eq, ops |-> <<7, 6>>] }
WideTests == Tests \union { [op |-> Eq, ops |-> <<5, 4>>] }

Backs == { CondBr(2, <<7, 6>>, 3, <<7>>), CondBr(3, <<7>>, 2, <<5, 7>>),
           CondBr(3, <<>>, 3, <<6>>) }
WideBacks == Backs \union { CondBr(2, <<6, 4>>, 3, <<5>>) }

FunctionsOf(entries, tests, backs) ==
  {Close(Base(k[1], k[2], h, e.op, e.ops, b.op, b.ops, t.op, t.ops, 4, e.succs, s)) :
     k \in Literals, h \in Hooks, e \in entries, b \in Bodies, t \in tests, s \in backs}

(* Functions for the rewriting passes.  Value 2 as the address of a symbol, *)
(* which goes round the loop in the place of a constant; a switch with all  *)
(* its arguments; a loop that nothing enters.                               *)
Passes(e, b, s, k, kind) ==
  LET f == Base(k[1], k[2], [v \in {} |-> Bottom], e.op, e.ops, b.op, b.ops, Eq,
                IF e.op = Eq THEN <<5, 1>> ELSE <<5, 4>>, 4, e.succs, s)
  IN  Close([f EXCEPT !.def[2] = kind])

SymbolEntries ==
  { [op |-> Freeze, ops |-> <<1>>, succs |-> Br(2, <<4, 2>>)],
    [op |-> Eq, ops |-> <<3, 1>>, succs |-> CondBr(2, <<1, 2>>, 3, <<2>>)] }

SwitchEntries ==
  {[op |-> Freeze, ops |-> <<v>>,
    succs |-> <<[guard |-> C!CondNotAnyOf({0, 1}), to |-> 2, args |-> <<4, 1>>],
                [guard |-> C!CondEquals(0), to |-> 3, args |-> <<1>>],
                [guard |-> C!CondEquals(1), to |-> 2, args |-> <<2, 3>>]>>] : v \in {1, 2, 3}}
  \union {[op |-> Freeze, ops |-> <<3>>, succs |-> Br(3, <<4>>)]}

PassBodies == { [op |-> Load, ops |-> <<6>>], [op |-> Udiv, ops |-> <<5, 2>>] }

PassBacks == { CondBr(2, <<5, 6>>, 3, <<6>>), CondBr(2, <<6, 7>>, 3, <<7>>) }

PassFunctions ==
  {Passes(e, b, s, <<Int2(0), Int2(1)>>, "addr") : e \in SymbolEntries, b \in PassBodies, s \in PassBacks}
  \union
  {Passes(e, b, s, k, "const") : e \in SwitchEntries, b \in PassBodies, s \in PassBacks,
                                k \in {<<Int2(0), Int2(1)>>, <<Int2(2), Poison>>}}

(* Control flow for simplify_cfg to clean up: conditions that are literals  *)
(* (value 1 an i1, value 2 an i2), edges that meet, chains, blocks that     *)
(* forward a parameter that others read, and cycles of forwarding blocks.   *)
CfgEntries ==
  { [cond |-> 4, succs |-> CondBr(2, <<2, 3>>, 3, <<3>>)],
    [cond |-> 4, succs |-> CondBr(2, <<3, 2>>, 3, <<3>>)],
    [cond |-> 1, succs |-> CondBr(2, <<3, 3>>, 3, <<3>>)],
    [cond |-> 2, succs |-> <<[guard |-> C!CondNotAnyOf({0, 1}), to |-> 3, args |-> <<3>>],
                             [guard |-> C!CondEquals(0), to |-> 3, args |-> <<2>>],
                             [guard |-> C!CondEquals(1), to |-> 2, args |-> <<2, 3>>]>>],
    [cond |-> 4, succs |-> Br(2, <<3, 2>>)] }

CfgBodies ==
  { [insts |-> <<>>,     op |-> Load, succs |-> Br(3, <<5>>)],
    [insts |-> <<7, 8>>, op |-> Load, succs |-> Br(3, <<7>>)],
    [insts |-> <<7, 8>>, op |-> Freeze, succs |-> CondBr(3, <<7>>, 3, <<7>>)] }

CfgTails ==
  { [to3 |-> Br(4, <<9>>), params |-> <<10>>, ret |-> 10, to4 |-> <<>>],
    [to3 |-> Br(4, <<2>>), params |-> <<10>>, ret |-> 10, to4 |-> <<>>],
    [to3 |-> Br(4, <<>>),  params |-> <<>>,   ret |-> 9,  to4 |-> <<>>],
    [to3 |-> Br(4, <<9>>), params |-> <<10>>, ret |-> 10, to4 |-> Br(3, <<10>>)],
    [to3 |-> Br(4, <<9>>), params |-> <<10>>, ret |-> 10, to4 |-> Br(2, <<10, 9>>)] }

CfgFunctions ==
  {LET f == Base(C!IntConst(1, 1), Int2(1), [v \in {} |-> Bottom], Eq, <<3, 2>>,
                 b.op, <<5>>, Eq, <<7, 6>>, e.cond, e.succs, b.succs)
       absent == ({7, 8} \ Elements(b.insts)) \union ({10} \ Elements(t.params))
   IN  Close([f EXCEPT !.def = [v \in MCValue |-> IF v \in absent THEN "const" ELSE @[v]],
                       !.ops = [v \in MCValue |-> IF v \in absent THEN <<>> ELSE @[v]],
                       !.insts[2] = b.insts, !.params[4] = t.params,
                       !.cond[4] = t.ret, !.succs[3] = t.to3, !.succs[4] = t.to4]) :
     e \in CfgEntries, b \in CfgBodies, t \in CfgTails}

(* Nested loops, headed by blocks 3 and 2, for licm: the inner one, which   *)
(* need not run, computes from constants, the argument, the outer loop's    *)
(* parameter and its own.                                                   *)
NestBodies == { [op |-> Freeze, ops |-> <<9>>], [op |-> Add, ops |-> <<1, 2>>], [op |-> Add, ops |-> <<9, 5>>],
                [op |-> Freeze, ops |-> <<1>>], [op |-> Udiv, ops |-> <<3, 9>>] }

NestTests == { [op |-> Eq, ops |-> <<7, 1>>], [op |-> Ult, ops |-> <<9, 6>>] }

NestBacks == { CondBr(2, <<7, 6>>, 3, <<7>>), CondBr(3, <<5>>, 2, <<9, 7>>) }

NestFunctions ==
  {Close([Base(k[1], k[2], [v \in {} |-> Bottom], Ult, <<3, 2>>, b.op, b.ops, t.op, t.ops, 4, Br(3, <<3>>), s)
            EXCEPT !.cond[3] = 4, !.succs[3] = CondBr(2, <<9, 1>>, 4, <<9>>)]) :
     k \in {<<Int2(1), Int2(2)>>, <<Poison, Int2(2)>>}, b \in NestBodies, t \in NestTests, s \in NestBacks}

(* Functions with stack slots, for mem2reg: code[v] is the opcode and the   *)
(* operands of v, value 3 the argument, 1 and 2 constants.                  *)
SlotFunction(code, insts, params, cond, succs) ==
  LET placed == UNION {Elements(insts[b]) : b \in MCBlock}
  IN Close([entry |-> 1,
         def |-> [v \in MCValue |-> IF v \in placed THEN "inst"
                                   ELSE IF v \in UNION {Elements(params[b]) : b \in MCBlock}
                                   THEN "param" ELSE "const"],
         lit |-> [v \in MCValue |-> IF v = 2 THEN Int2(2) ELSE Int2(1)],
         hook |-> [v \in {} |-> Bottom],
         params |-> params, insts |-> insts,
         op |-> [v \in MCValue |-> IF v \in placed THEN code[v][1] ELSE Add],
         ops |-> [v \in MCValue |-> IF v \in placed THEN code[v][2] ELSE <<>>],
         cond |-> cond, succs |-> succs])

NoParams == <<<<3>>, <<>>, <<>>, <<>>>>

(* Stores in the arms of a branch, in a block before two merges, or in none *)
(* of the blocks on some path; the slot is read where they meet.            *)
Merges ==
  { <<CondBr(2, <<>>, 3, <<>>), Br(4, <<>>), Br(4, <<>>), <<>>>>,
    <<CondBr(2, <<>>, 3, <<>>), Br(3, <<>>), Br(4, <<>>), <<>>>>,
    <<CondBr(2, <<>>, 4, <<>>), Br(4, <<>>), Br(4, <<>>), <<>>>>,
    <<CondBr(2, <<>>, 3, <<>>), Br(4, <<>>), CondBr(2, <<>>, 4, <<>>), <<>>>>,
    <<<<[guard |-> C!CondNotAnyOf({0, 1}), to |-> 4, args |-> <<>>],
        [guard |-> C!CondEquals(0), to |-> 2, args |-> <<>>],
        [guard |-> C!CondEquals(1), to |-> 3, args |-> <<>>]>>, Br(3, <<>>), Br(4, <<>>), <<>>>> }

MergeFunctions ==
  {SlotFunction((4 :> <<Slot, <<>>>>) @@ (5 :> <<Put, <<4, 1>>>>) @@ (6 :> <<Put, <<4, 2>>>>)
                  @@ (7 :> <<Get, <<4>>>>) @@ (8 :> <<Put, <<4, 3>>>>) @@ (9 :> <<Get, <<4>>>>),
                <<IF first THEN <<4, 5>> ELSE <<4>>, <<6>>, second, <<9>>>>, NoParams, <<3, 3, 3, 9>>, m) :
     first \in BOOLEAN, second \in {<<>>, <<7, 8>>}, m \in Merges}

(* A slot counted up in a loop; allocated before the loop or in it; used in *)
(* a way that keeps it; two slots whose values are exchanged in a loop.     *)
TurnAndLeave == <<Br(2, <<>>), CondBr(2, <<>>, 3, <<>>), Br(4, <<>>), <<>>>>

CountFunctions ==
  {SlotFunction((4 :> <<Slot, <<>>>>) @@ (5 :> <<Put, <<4, 1>>>>) @@ (6 :> <<get, <<4>>>>)
                  @@ (7 :> <<Add, <<6, 2>>>>) @@ (8 :> <<Put, <<4, stored>>>>)
                  @@ (9 :> <<Ult, <<test, 2>>>>) @@ (10 :> <<Get, <<4>>>>),
                insts, NoParams, <<9, 9, 9, ret>>, TurnAndLeave) :
     get \in {Get, Load}, stored \in {4, 7}, test \in {1, 6}, ret \in {4, 10},
     insts \in { <<<<4, 5>>, <<6, 7, 8, 9>>, <<10>>, <<>>>>, <<<<>>, <<4, 5, 6, 7, 8, 9>>, <<10>>, <<>>>>,
                 <<<<>>, <<4, 6, 7, 8, 9>>, <<10>>, <<>>>> }}

ExchangeFunctions ==
  {SlotFunction((4 :> <<Slot, <<>>>>) @@ (5 :> <<Slot, <<>>>>) @@ (6 :> <<Put, <<4, 1>>>>)
                  @@ (7 :> <<Get, <<4>>>>) @@ (8 :> <<Get, <<5>>>>)
                  @@ (9 :> <<Put, <<4, 8>>>>) @@ (10 :> <<Put, <<5, 7>>>>),
                insts, NoParams, <<3, 3, 3, 7>>, TurnAndLeave) :
     insts \in { <<<<4, 5, 6>>, <<7, 8, 9, 10>>, <<>>, <<>>>>, <<<<4, 5>>, <<7, 8, 9, 10, 6>>, <<>>, <<>>>> }}

(* What else keeps a slot: it is passed on, or accessed as another type.    *)
KeptFunctions ==
  {SlotFunction((4 :> <<Slot, <<>>>>) @@ (5 :> <<Put, <<4, 3>>>>) @@ (6 :> <<get, <<4>>>>),
                <<<<4, 5>>, <<6>>, <<>>, <<>>>>, <<<<3>>, <<7>>, <<>>, <<>>>>, <<3, 3, 3, 6>>,
                <<CondBr(2, <<arg>>, 3, <<>>), Br(4, <<>>), Br(2, <<arg>>), <<>>>>) :
     get \in {Get, GetBit}, arg \in {1, 4}}

SlotFunctions == MergeFunctions \union CountFunctions \union ExchangeFunctions \union KeptFunctions

MCFunction ==
  FunctionsOf(Entries, Tests, Backs) \union FunctionsOf(WideEntries, WideTests, WideBacks)
    \union PassFunctions \union CfgFunctions \union NestFunctions
    \union SlotFunctions

-----------------------------------------------------------------------------
(* Solutions by naive iteration of the dataflow equations over the whole    *)
(* function.                                                                *)

Start0(f, seed) == [vals |-> seed, exec |-> {f.entry}]

FeasibleEdges(f, s) ==
  {<<b, k>> \in s.exec \X (1..3) :
     /\ k \in DOMAIN f.succs[b]
     /\ LET g == f.succs[b][k].guard IN g = Always \/ Feasible(s.vals[f.cond[b]], g)}

Sweep(f, s) ==
  LET feasible == FeasibleEdges(f, s)
      Inflow(p, b) == {IF i \in DOMAIN f.succs[e[1]][e[2]].args
                         THEN s.vals[f.succs[e[1]][e[2]].args[i]] ELSE Top :
                       i \in {j \in DOMAIN f.params[b] : f.params[b][j] = p},
                       e \in {d \in feasible : f.succs[d[1]][d[2]].to = b}}
  IN [vals |-> [v \in DOMAIN s.vals |->
        IF \E b \in s.exec : v \in Elements(f.insts[b])
          THEN Transfer(f.op[v], [i \in DOMAIN f.ops[v] |-> s.vals[f.ops[v][i]]])
        ELSE IF \E b \in Block : v \in Elements(f.params[b])
          THEN LET b == CHOOSE c \in Block : v \in Elements(f.params[c])
               IN  FoldSet(LAMBDA x, y : Join(x, y), s.vals[v], Inflow(v, b))
        ELSE s.vals[v]],
      exec |-> s.exec \union {f.succs[e[1]][e[2]].to : e \in feasible}]

RECURSIVE Iterate(_, _)
Iterate(f, s) == LET n == Sweep(f, s) IN IF n = s THEN s ELSE Iterate(f, n)

(* The least solution, and a greater one: the least with every block        *)
(* executable.                                                              *)
MCRivals(f, seeds) ==
  {Iterate(f, [vals |-> seeds, exec |-> blocks]) : blocks \in {{f.entry}, Block}}

(* sccp is idempotent (sccp.rs: "Excluding use-less parameter folds is what *)
(* makes the pass idempotent"): analysed again, the function it has built   *)
(* gives a plan that changes nothing, so a pipeline that repeats it stops.  *)
SecondRunIdle ==
  out # NoBody /\ ~running /\ NoStrays /\ DOMAIN fn.hook = {} /\ Verified(fn) =>
    LET seed == [v \in DOMAIN out.def |->
                   IF v \notin Value THEN Abstract(out.lit[v]) ELSE Seed(v)]
        least == Iterate(out, Start0(out, seed))
        res == [vals |-> least.vals, blocks |-> least.exec, edges |-> FeasibleEdges(out, least)]
    IN  out = SccpWith(BodyOf(fn), Analysis) => ~PlanChanges(out, PlanOf(out, res))
===============================================================================
