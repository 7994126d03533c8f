-------------------------------- MODULE Rebuild -------------------------------
(***************************************************************************)
(* How a transform rewrites a function (src/src/transform/mod.rs): it      *)
(* emits a fresh one block by block, in some order of the blocks of the    *)
(* old one, and maps every operand through the values emitted so           *)
(* far.  An operand that is not there yet becomes poison (`Stray`), which  *)
(* only unreachable code may ever read.                                    *)
(*                                                                         *)
(* A body is a function with the blocks it still has and those that end in *)
(* `unreachable`; a block with neither successors nor that end returns     *)
(* `cond`.  A value keeps its name in the new function, and the literal    *)
(* that replaces v is a new value, `Name(v)`.  A block of the new function *)
(* is named after the old block it starts as; `tail` is the one whose      *)
(* terminator it ends with, `bypassed` the blocks no edge goes through now; *)
(* `ahead` and `inside` are preheaders, see Licm, and `promoted` the stack  *)
(* slots that are gone, see Mem2Reg.                                        *)
(***************************************************************************)
EXTENDS FunctionShapes

CONSTANTS
  Stray, Name(_),
  SideEffect(_),          \* InstKind::has_side_effect
  Loads(_)                \* a load that is not volatile

BodyOf(f) ==
  [entry |-> f.entry, def |-> f.def, lit |-> f.lit, params |-> f.params, insts |-> f.insts,
   op |-> f.op, ops |-> f.ops, cond |-> f.cond, succs |-> f.succs,
   blocks |-> Block, stops |-> {}, tail |-> [b \in Block |-> b], bypassed |-> {},
   ahead |-> [b \in Block |-> 0], inside |-> [b \in Block |-> {}], promoted |-> {}]

Guarded(f, b) == \E e \in Elements(f.succs[b]) : e.guard # Always
Returns(f, b) == b \in f.blocks \ f.stops /\ f.succs[b] = <<>>

(* What the terminator of b reads besides the arguments of its edges.       *)
TermReads(f, b) == IF Guarded(f, b) \/ Returns(f, b) THEN {f.cond[b]} ELSE {}

HasUses(f, v) ==
  \/ \E b \in f.blocks : \E i \in DOMAIN f.insts[b] : v \in Elements(f.ops[f.insts[b][i]])
  \/ \E b \in f.blocks :
       \/ v \in TermReads(f, b)
       \/ \E e \in Elements(f.succs[b]) : v \in Elements(e.args)

(* The verifier: an edge passes one argument per parameter.                 *)
Verified(f) ==
  \A b \in Block : \A e \in Elements(f.succs[b]) : Len(e.args) = Len(f.params[e.to])

-----------------------------------------------------------------------------

(* Fault: the blocks in the order of their indices, the last one first.     *)
DomPreorderBackwards(f) == {p \in Block \X Block : p[2] < p[1]}

(* dom_preorder, as the pairs of blocks in the order of emission: parents   *)
(* first, the subtrees of siblings by index, the unreachable blocks last.   *)
DomPreorder(f) ==
  LET live == Reachable(f)
      dom == {p \in live \X live : Dominates(f, p[1], p[2])}
      Above(b) == {d \in live \ {b} : <<d, b>> \in dom}
      siblings == {p \in live \X live : p[1] < p[2] /\ Above(p[1]) = Above(p[2])}
      InTree(a, b) ==
        \/ a # b /\ <<a, b>> \in dom
        \/ \E p \in siblings : <<p[1], a>> \in dom /\ <<p[2], b>> \in dom
  IN  {p \in live \X live : InTree(p[1], p[2])}
        \union (live \X (Block \ live))
        \union {p \in (Block \ live) \X (Block \ live) : p[1] < p[2]}

(***************************************************************************)
(* A plan: the blocks of the new function; the old instructions that each  *)
(* of them is made of, in `code`, the old block it ends as, its edges and  *)
(* whether it ends in `unreachable`; the values that become literals and   *)
(* the parameters that become other values; the parameters to drop with    *)
(* their arguments; and the order of emission.                             *)
(***************************************************************************)

(* remap_value, for the reader at position i of block b.                    *)
Remapped(f, plan, v, b, i) ==
  LET w == IF v \in DOMAIN plan.alias THEN plan.alias[v] ELSE v
      emitted ==
        IF w = Stray THEN FALSE
        ELSE CASE f.def[w] \in {"const", "addr"} -> TRUE
               [] f.def[w] = "param" ->
                    \E c \in plan.blocks : w \in Elements(f.params[c]) \ plan.dropped
               [] f.def[w] = "inst" ->
                    \E c \in plan.blocks : \E j \in DOMAIN plan.code[c] :
                      /\ plan.code[c][j] = w
                      /\ IF c = b THEN j < i ELSE <<c, b>> \in plan.before
  IN  IF ~emitted THEN Stray ELSE IF w \in DOMAIN plan.folded THEN Name(w) ELSE w

(* rebuild_terminator_keeping: an edge with the arguments of the parameters *)
(* that stay.                                                               *)
KeptEdge(f, plan, b, e) ==
  LET kept == SelectSeq([i \in DOMAIN e.args |-> i],
                        LAMBDA i : f.params[e.to][i] \notin plan.dropped)
  IN  [e EXCEPT !.args = [n \in DOMAIN kept |->
         Remapped(f, plan, e.args[kept[n]], b, Len(plan.code[b]) + 1)]]

RebuildWith(f, plan) ==
  LET names == {Name(v) : v \in DOMAIN plan.folded}
      Insts(b) == SelectSeq(plan.code[b], LAMBDA v : v \notin DOMAIN plan.folded)
      At(v, b) == CHOOSE i \in DOMAIN plan.code[b] : plan.code[b][i] = v
      Ops(v, b) == [n \in DOMAIN f.ops[v] |-> Remapped(f, plan, f.ops[v][n], b, At(v, b))]
      Emits(b, v) == b \in plan.blocks /\ v \in Elements(Insts(b))
      ReadsCond(b) ==
        \/ \E e \in Elements(plan.succs[b]) : e.guard # Always
        \/ Returns(f, plan.tail[b]) /\ b \notin plan.stops
  IN  [f EXCEPT
        !.def = @ @@ [n \in names |-> "const"],
        !.lit = @ @@ [n \in names |->
                        plan.folded[CHOOSE v \in DOMAIN plan.folded : Name(v) = n]],
        !.params = [b \in Block |->
                      IF b \in plan.blocks THEN SelectSeq(@[b], LAMBDA p : p \notin plan.dropped)
                      ELSE <<>>],
        !.insts = [b \in Block |-> IF b \in plan.blocks THEN Insts(b) ELSE <<>>],
        !.ops = [v \in Value |->
                   IF \E b \in Block : Emits(b, v) THEN Ops(v, CHOOSE b \in Block : Emits(b, v))
                   ELSE <<>>],
        !.cond = [b \in Block |->
                    IF b \in plan.blocks /\ ReadsCond(b)
                    THEN Remapped(f, plan, @[plan.tail[b]], b, Len(plan.code[b]) + 1)
                    ELSE @[b]],
        !.succs = [b \in Block |->
                     IF b \in plan.blocks
                     THEN [n \in DOMAIN plan.succs[b] |-> KeptEdge(f, plan, b, plan.succs[b][n])]
                     ELSE <<>>],
        !.blocks = plan.blocks,
        !.stops = plan.stops \union {b \in plan.blocks : plan.tail[b] \in @},
        !.tail = [b \in Block |-> @[plan.tail[b]]],
        !.bypassed = @ \union plan.bypassed]
===============================================================================
