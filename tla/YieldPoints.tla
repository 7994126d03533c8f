------------------------------ MODULE YieldPoints ------------------------------
(***************************************************************************)
(* Yield-point insertion (src/src/transform/yield_points.rs): which loops  *)
(* of an analysed function get a check on their back edges, and an         *)
(* execution of the function the pass rebuilt.                             *)
(*                                                                         *)
(* The trip bounds are computed from the interval domain alone; the code   *)
(* intersects them with what the known bits prove.                         *)
(***************************************************************************)
EXTENDS SolverSound, FunctionShapes, RangeDomain

CONSTANTS
  MaxCost,                \* YieldConfig::max_cost
  Unbounded,              \* no trip bound, Cost::Unbounded
  Unplanned               \* the pass has not run

VARIABLES
  plan,                   \* per loop header, its body and its LoopReport
  heads,                  \* executions of each header since the loop was entered
  spent,                  \* cost units spent since then
  polled                  \* the last transfer of control passed a check

yieldVars == <<plan, heads, spent, polled>>
planVars == <<allVars, yieldVars>>

ASSUME MaxCostAssumption == MaxCost \in Nat

-----------------------------------------------------------------------------
(* The natural loops (find_loops): back edges that share a header are one.  *)

Preds(b) == {p \in Reachable(fn) : \E e \in Elements(fn.succs[p]) : e.to = b}

Latches(h) == {p \in Preds(h) : Dominates(fn, h, p)}

LoopBody(h) ==
  LET back[n \in 0..Cardinality(Block)] ==
        IF n = 0 THEN {h} \union Latches(h)
        ELSE back[n - 1] \union UNION {Preds(b) : b \in back[n - 1] \ {h}}
  IN  back[Cardinality(Block)]

-----------------------------------------------------------------------------
(* The facts a bound is made from.  An absent fact is the empty set, or a   *)
(* guard that fails.                                                        *)

IsConst(v) == fn.def[v] = "const" /\ fn.lit[v] # Poison

(* bounds_of: a constant is read signed.                                    *)
HasBounds(v) == IsConst(v) \/ vals[v] \in Intervals
Bounds(v) ==
  IF IsConst(v) THEN LET s == Signed(ToSem(fn.lit[v])) IN [lo |-> s, hi |-> s]
  ELSE [lo |-> vals[v].lo, hi |-> vals[v].hi]

Invariant(h, v) ==
  \A b \in LoopBody(h) : v \notin Elements(fn.params[b]) \union Elements(fn.insts[b])

(* edge_arg: what the edges from p to b pass as parameter k.                *)
EdgeArgs(p, b, k) == {e.args[k] : e \in {d \in Elements(fn.succs[p]) : d.to = b}}

(* What v adds to p, when v adds a constant to it.                          *)
Increments(p, v) ==
  {[step |-> fn.lit[fn.ops[v][3 - i]].value, width |-> fn.op[v].width] :
     i \in {j \in DOMAIN fn.ops[v] :
              /\ fn.def[v] = "inst" /\ fn.op[v].kind = "add"
              /\ fn.ops[v][j] = p /\ IsConst(fn.ops[v][3 - j])}}

(* induction: the header parameter v goes up by one constant on every back  *)
(* edge.                                                                    *)
Inductions(h, v) ==
  LET steps(k) ==
        {c \in UNION {Increments(v, n) : n \in Value} :
           /\ c.step > 0
           /\ \A l \in Latches(h) : \E n \in Value :
                EdgeArgs(l, h, k) = {n} /\ Increments(v, n) = {c}}
  IN  UNION {{[param |-> k, by |-> c] : c \in steps(k)} :
               k \in {i \in DOMAIN fn.params[h] : fn.params[h][i] = v}}

(* iv_operand: the parameter itself, or its value one step later.           *)
Ivs(h, v) ==
  IF Inductions(h, v) # {}
  THEN {[param |-> i.param, by |-> i.by, offset |-> 0] : i \in Inductions(h, v)}
  ELSE {[param |-> i.param, by |-> i.by, offset |-> i.by.step] :
          i \in {j \in UNION {Inductions(h, p) : p \in Elements(fn.params[h])} :
                   j.by \in Increments(fn.params[h][j.param], v)}}

Negate ==
  [eq |-> "ne", ne |-> "eq", ugt |-> "ule", uge |-> "ult", ult |-> "uge", ule |-> "ugt",
   sgt |-> "sle", sge |-> "slt", slt |-> "sge", sle |-> "sgt"]

Swap ==
  [eq |-> "eq", ne |-> "ne", ugt |-> "ult", uge |-> "ule", ult |-> "ugt", ule |-> "uge",
   sgt |-> "slt", sge |-> "sle", slt |-> "sgt", sle |-> "sge"]

(* The test that leaves the loop from block b, as "stay while iv pred n".   *)
ExitTests(h, b) ==
  LET c == fn.cond[b]
      inside(k) == fn.succs[b][k].to \in LoopBody(h)
      pred == IF inside(1) THEN fn.op[c].kind ELSE Negate[fn.op[c].kind]
      test(p, i, n) == {[pred |-> p, iv |-> iv, n |-> fn.ops[c][n]] : iv \in Ivs(h, fn.ops[c][i])}
      found == IF Ivs(h, fn.ops[c][1]) # {} THEN test(pred, 1, 2) ELSE test(Swap[pred], 2, 1)
  IN  IF /\ Len(fn.succs[b]) = 2 /\ inside(1) # inside(2)
         /\ fn.def[c] = "inst" /\ fn.op[c].kind \in Compare
      THEN {t \in found : Invariant(h, t.n)} ELSE {}

(* init_bounds: the arguments on the edges that enter the loop.             *)
Entering(h) == Preds(h) \ LoopBody(h)

HasInit(h, k) ==
  \A p \in Entering(h) : \E v \in Value : EdgeArgs(p, h, k) = {v} /\ HasBounds(v)

InitBounds(h, k) ==
  LET inits == {Bounds(v) : v \in UNION {EdgeArgs(p, h, k) : p \in Entering(h)}}
  IN  [lo |-> Min({i.lo : i \in inits}), hi |-> Max({i.hi : i \in inits})]

(* Fault: that the last step may wrap is forgotten.                         *)
TestBoundWrapping(h, t) ==
  LET n == Bounds(t.n)  init == InitBounds(h, t.iv.param)
      limit == IF t.pred \in {"sle", "ule"} THEN n.hi ELSE n.hi - 1
      span == limit - (init.lo + t.iv.offset)
  IN  IF /\ HasInit(h, t.iv.param) /\ HasBounds(t.n)
         /\ \/ t.pred \in {"slt", "sle"}
            \/ t.pred \in {"ult", "ule"} /\ init.lo >= 0 /\ n.lo >= 0
            \/ t.pred = "ne" /\ t.iv.by.step = 1 /\ init.hi + t.iv.offset <= n.lo
      THEN {IF span < 0 THEN 1 ELSE span \div t.iv.by.step + 2} ELSE {}

(* exit_test_bound: how often the header runs before the test fails.  An    *)
(* unsigned test needs both sides non-negative, and the tested value must   *)
(* not wrap before the test fails; its first value is not looked at.        *)
TestBound(h, t) ==
  LET n == Bounds(t.n)
      init == InitBounds(h, t.iv.param)
      limit == IF t.pred \in {"sle", "ule"} THEN n.hi ELSE n.hi - 1
      span == limit - (init.lo + t.iv.offset)
  IN  IF /\ HasInit(h, t.iv.param)
         /\ HasBounds(t.n)
         /\ \/ t.pred \in {"slt", "sle"}
            \/ t.pred \in {"ult", "ule"} /\ init.lo >= 0 /\ n.lo >= 0
            \/ t.pred = "ne" /\ t.iv.by.step = 1 /\ init.hi + t.iv.offset <= n.lo
         /\ n.hi + t.iv.by.step <= IntMax(t.iv.by.width)
      THEN {IF span < 0 THEN 1 ELSE span \div t.iv.by.step + 2}
      ELSE {}

(* trip_bound: the best test in a block every iteration passes.             *)
TripBound(h) ==
  LET passed == {b \in LoopBody(h) : \A l \in Latches(h) : Dominates(fn, b, l)}
      bounds == UNION {TestBound(h, t) : t \in UNION {ExitTests(h, b) : b \in passed}}
  IN  IF bounds = {} THEN Unbounded ELSE Min(bounds)

-----------------------------------------------------------------------------
(* analyze_loops: what a loop costs, and the loops to check.                *)

(* inst_cost, for the opcodes modelled; the terminator counts one more.     *)
InstCost(v) ==
  CASE fn.op[v].kind = "mul" -> 3
    [] fn.op[v].kind \in DivRem -> 20
    [] fn.op[v].kind = "load" -> 4
    [] OTHER -> 1

BlockCost(b) == 1 + FoldLeft(LAMBDA n, v : n + InstCost(v), 0, fn.insts[b])

(* The loops of S right inside loop h.                                      *)
Inside(c, h) == c # h /\ LoopBody(c) \subseteq LoopBody(h)
Children(h) ==
  {c \in HeadersOf(fn) : Inside(c, h) /\ ~\E d \in HeadersOf(fn) : Inside(d, h) /\ Inside(c, d)}

(* Fault: the inner loops are taken for ordinary blocks.                    *)
LoopCostsFlat ==
  [h \in HeadersOf(fn) |->
     IF TripBound(h) = Unbounded THEN Unbounded
     ELSE TripBound(h) * MapThenSumSet(BlockCost, LoopBody(h))]

(* The costs, innermost first; they do not overflow here.                   *)
LoopCosts ==
  LET own(h) == LoopBody(h) \ UNION {LoopBody(c) : c \in Children(h)}
      cost[h \in HeadersOf(fn)] ==
        IF TripBound(h) = Unbounded \/ \E c \in Children(h) : cost[c] = Unbounded THEN Unbounded
        ELSE LET inner(c) == cost[c]
             IN  TripBound(h) * (MapThenSumSet(BlockCost, own(h)) + MapThenSumSet(inner, Children(h)))
  IN  cost

NeedsCheck(cost) == cost = Unbounded \/ cost > MaxCost

(* Fault: dominance is taken to be strict, so a one-block loop gets none.   *)
CheckedEdgesStrict(h, cost) == IF NeedsCheck(cost) THEN Latches(h) \ {h} ELSE {}

(* rebuild: where the edges into header h that pass its check come from.    *)
CheckedEdges(h, cost) == IF NeedsCheck(cost) THEN Latches(h) ELSE {}

InsertChecks ==
  /\ Done /\ plan = Unplanned
  /\ LET costs == LoopCosts
     IN  plan' = [h \in DOMAIN costs |->
                    [body |-> LoopBody(h), trip |-> TripBound(h), cost |-> costs[h],
                     polls |-> CheckedEdges(h, costs[h])]]
  /\ heads' = [h \in HeadersOf(fn) |-> IF h = fn.entry THEN 1 ELSE 0]
  /\ spent' = [h \in HeadersOf(fn) |-> 0]
  /\ UNCHANGED <<allVars, polled>>

-----------------------------------------------------------------------------

YieldInit ==
  /\ SoundInit
  /\ plan = Unplanned
  /\ heads = <<>> /\ spent = <<>>
  /\ polled = FALSE

(* Both counters stop one past the bound they are compared with.            *)
UpTo(bound, n) == IF bound = Unbounded THEN 0 ELSE Min({n, bound + 1})

(* The executed function is the rebuilt one: an edge into a checked header  *)
(* first loads the flag and may call the scheduler.                         *)
Leave(k) ==
  LET to == Target(at, k)
      within(h) == at \in plan[h].body
  IN  /\ ExecTerminator(k)
      /\ heads' = [h \in DOMAIN plan |->
                     IF to # h THEN heads[h]
                     ELSE UpTo(plan[h].trip, IF within(h) THEN heads[h] + 1 ELSE 1)]
      /\ spent' = [h \in DOMAIN plan |->
                     IF within(h) THEN UpTo(plan[h].cost, spent[h] + BlockCost(at))
                     ELSE IF to = h THEN 0 ELSE spent[h]]
      /\ polled' = (to \in DOMAIN plan /\ at \in plan[to].polls)
      /\ UNCHANGED plan

YieldNext ==
  \/ Analyse /\ UNCHANGED yieldVars
  \/ InsertChecks
  \/ plan # Unplanned /\ Start /\ UNCHANGED yieldVars
  \/ ExecInst /\ UNCHANGED <<plan, heads, spent>> /\ polled' = FALSE
  \/ \E k \in DOMAIN fn.succs[at] : Leave(k)

YieldSpec == YieldInit /\ [][YieldNext]_planVars /\ WF_planVars(YieldNext)

-----------------------------------------------------------------------------

(* LoopReport::trip_bound, "the proven trip bound (header executions per    *)
(* entry)".                                                                 *)
TripBoundHolds ==
  running => \A h \in DOMAIN plan : plan[h].trip # Unbounded => heads[h] <= plan[h].trip

(* A cycle made of no natural loop's back edge gets no check, and is not    *)
(* counted in the cost of the loop around it.                               *)
Reducible ==
  \A b \in Reachable(fn) :
    LET ahead(d) == {e.to : e \in Elements(fn.succs[d])} \ {c \in Block : Dominates(fn, c, d)}
        after[n \in 1..Cardinality(Block)] ==
          IF n = 1 THEN ahead(b) ELSE after[n - 1] \union UNION {ahead(d) : d \in after[n - 1]}
    IN  b \notin after[Cardinality(Block)]

(* A loop left without a check costs no more than was proven, counting the  *)
(* loops in it: the module docs' "conservative, never unsound".             *)
CostHolds ==
  running => \A h \in DOMAIN plan :
    plan[h].cost # Unbounded => spent[h] <= plan[h].cost \/ ~Reducible

(* A function that does not return passes a check again and again: no loop  *)
(* can keep the processor from the scheduler.                               *)
Returned == running /\ pos = Len(fn.insts[at]) /\ fn.succs[at] = <<>>

Preemptible == []<>(polled \/ Returned \/ (running /\ ~Reducible))
===============================================================================
