--------------------------------- MODULE Sccp ---------------------------------
(***************************************************************************)
(* Sparse conditional constant propagation (src/src/transform/sccp.rs):    *)
(* the result of the fixpoint engine with the constant domain, distilled   *)
(* into a plan and rebuilt.  A result is [vals, blocks, edges], which the  *)
(* engine leaves in its variables.  Constant offsets of `ptr_add` are left *)
(* out: the integer instructions have no addresses.                        *)
(***************************************************************************)
EXTENDS Rebuild

CONSTANTS
  AsConst(_),             \* ConstLattice::as_const: one literal, or none
  Selects(_, _)           \* the constant c takes an edge with guard g

Analysis == [vals |-> vals, blocks |-> block_exec, edges |-> edge_exec]

(* value_const.                                                             *)
Folds(f, res) ==
  {v \in DOMAIN f.def :
     /\ AsConst(res.vals[v]) # {}
     /\ \/ f.def[v] = "param"
        \/ f.def[v] = "inst" /\ ~SideEffect(f.op[v])}

ConstantOf(res, v) == CHOOSE c \in AsConst(res.vals[v]) : TRUE

(* Fault: the cases of a switch are counted without the default.            *)
ChosenCase(f, b, c) ==
  LET k == CHOOSE n \in DOMAIN f.succs[b] : Selects(c, f.succs[b][n].guard)
  IN  IF k = 1 THEN 1 ELSE k - 1

(* The successors in order: the first edge whose guard the constant meets.  *)
ChosenEdge(f, b, c) ==
  CHOOSE k \in DOMAIN f.succs[b] :
    /\ Selects(c, f.succs[b][k].guard)
    /\ \A j \in 1..(k - 1) : ~Selects(c, f.succs[b][j].guard)

Cut(f, res, b) ==
  /\ f.succs[b] # <<>>
  /\ \A k \in DOMAIN f.succs[b] : <<b, k>> \notin res.edges

Decided(f, res, b) ==
  ~Cut(f, res, b) /\ Guarded(f, b) /\ AsConst(res.vals[f.cond[b]]) # {}

(* terminator_choice: no edge at all, the one the constant condition takes, *)
(* or all of them.                                                          *)
TermChoice(f, res, b) ==
  IF Cut(f, res, b) THEN {}
  ELSE IF Decided(f, res, b) THEN {ChosenEdge(f, b, ConstantOf(res, f.cond[b]))}
  ELSE DOMAIN f.succs[b]

(* emit_single_edge: a chosen edge becomes a `br`.                          *)
KeptSuccs(f, res, b) ==
  LET chosen == SelectSeq([k \in DOMAIN f.succs[b] |-> k],
                          LAMBDA k : k \in TermChoice(f, res, b))
  IN  [n \in DOMAIN chosen |->
         [f.succs[b][chosen[n]] EXCEPT !.guard = IF Decided(f, res, b) THEN Always ELSE @]]

-----------------------------------------------------------------------------
(* symbol_params: the parameters that receive the address of one symbol on  *)
(* every edge that is kept.  The optimistic fixpoint of the code meets, for *)
(* each parameter, whatever flows into it through other parameters.         *)

(* The arguments and the parameters they are passed for.                    *)
Flows(f, res) ==
  UNION {{<<e.args[i], f.params[e.to][i]>> : i \in DOMAIN e.args} :
         e \in UNION {{f.succs[b][k] : k \in TermChoice(f, res, b)} : b \in res.blocks}}

Candidates(f, res) ==
  UNION {Elements(f.params[b]) : b \in res.blocks \ {f.entry}} \ Folds(f, res)

(* What flows into p and is no candidate itself.                            *)
Origins(flows, candidates, p) ==
  LET through[n \in 0..Cardinality(candidates)] ==
        IF n = 0 THEN {p}
        ELSE LET qs == through[n - 1]
             IN  qs \union {e[1] : e \in {d \in flows : d[2] \in qs \intersect candidates}}
  IN  through[Cardinality(candidates)] \ candidates

(* Fault: the addresses a parameter receives are not compared.              *)
OneSymbolOfAny(f, origins) == \E a \in origins : a # Stray /\ f.def[a] = "addr"

OneSymbol(f, origins) == \E a \in origins : a # Stray /\ f.def[a] = "addr" /\ origins = {a}

SymbolParams(f, res) ==
  LET candidates == Candidates(f, res)
      flows == Flows(f, res)
  IN  [p \in {q \in candidates : OneSymbol(f, Origins(flows, candidates, q))} |->
         CHOOSE a \in Origins(flows, candidates, p) : a # Stray /\ f.def[a] = "addr"]

-----------------------------------------------------------------------------

PlanOf(f, res) ==
  LET blocks == res.blocks \intersect f.blocks
  IN  [blocks |-> blocks,
       code |-> f.insts,
       tail |-> [b \in Block |-> b],
       succs |-> [b \in Block |-> IF b \in blocks THEN KeptSuccs(f, res, b) ELSE <<>>],
       stops |-> {b \in blocks : Cut(f, res, b)},
       folded |-> [v \in Folds(f, res) |-> ConstantOf(res, v)],
       alias |-> SymbolParams(f, res),
       dropped |-> {},
       before |-> DomPreorder(f),
       bypassed |-> {},
       single |-> {b \in blocks : Decided(f, res, b)}]

(* The code asserts that a kept edge leads to a block that is rebuilt.      *)
Placed(f, res) ==
  \A b \in res.blocks : \A e \in Elements(KeptSuccs(f, res, b)) : e.to \in res.blocks

(* Fault: a parameter counts as a change whether or not anything reads it.  *)
PlanChangesUnread(f, plan) ==
  \/ f.blocks # plan.blocks
  \/ plan.single \union plan.stops # {}
  \/ DOMAIN plan.folded # {} \/ DOMAIN plan.alias # {}

(* Plan::changed.                                                           *)
PlanChanges(f, plan) ==
  \/ f.blocks # plan.blocks
  \/ plan.single \union plan.stops # {}
  \/ \E v \in DOMAIN plan.folded : f.def[v] = "inst" \/ HasUses(f, v)
  \/ \E p \in DOMAIN plan.alias : HasUses(f, p)

SccpWith(f, res) ==
  LET plan == PlanOf(f, res) IN IF PlanChanges(f, plan) THEN RebuildWith(f, plan) ELSE f
===============================================================================
