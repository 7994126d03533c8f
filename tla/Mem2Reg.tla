---------------------------------- MODULE Mem2Reg --------------------------------
(***************************************************************************)
(* Promotion of stack slots (src/src/transform/mem2reg.rs, with the         *)
(* dominance frontiers of src/src/analysis/domfrontier.rs): an `alloca`     *)
(* that is only loaded from and stored to becomes values, and the blocks    *)
(* where different stores meet get a parameter for it, `Phi(a, b)`.  What   *)
(* no store reaches is poison, here the value `Uninit`.                     *)
(***************************************************************************)
EXTENDS Rebuild

CONSTANTS
  Allocates(_), Stores(_),    \* with Loads, the opcodes that access memory,
  SameType(_, _),             \* an access and the slot have one type
  Phi(_, _), Uninit, PoisonLiteral

InstsOf(f) == UNION {Elements(f.insts[b]) : b \in f.blocks}

(* Fault: the address may be what is stored.                                *)
AccessesAnyOperand(f, u, a) ==
  /\ Loads(f.op[u]) \/ Stores(f.op[u])
  /\ f.ops[u][1] = a /\ SameType(f.op[u], f.op[a])

(* u loads slot a, or stores something else to it.                          *)
Accesses(f, u, a) ==
  /\ Loads(f.op[u]) \/ (Stores(f.op[u]) /\ f.ops[u][2] # a)
  /\ f.ops[u][1] = a /\ SameType(f.op[u], f.op[a])

(* is_promotable                                                            *)
Promotable(f, a) ==
  /\ \A u \in InstsOf(f) : a \in Elements(f.ops[u]) => Accesses(f, u, a)
  /\ \A b \in f.blocks :
       a \notin TermReads(f, b) \union UNION {Elements(e.args) : e \in Elements(f.succs[b])}

Slots(f) == {a \in InstsOf(f) : Allocates(f.op[a]) /\ Promotable(f, a)}

-----------------------------------------------------------------------------
(* Dominance: `dom` is the pairs of a dominator and a reachable block.      *)

Dominance(f) ==
  LET live == Reachable(f) IN {p \in live \X live : Dominates(f, p[1], p[2])}

Above(dom, b) == {d \in Block \ {b} : <<d, b>> \in dom}

(* The entry is its own immediate dominator.                                *)
Idom(f, dom, b) ==
  IF b = f.entry THEN b
  ELSE CHOOSE d \in Above(dom, b) : \A c \in Above(dom, b) : <<c, d>> \in dom

(* Fault: a block is never on its own frontier, though a loop leads back.   *)
StrictFrontier(f, dom, b) ==
  {y \in {e.to : e \in UNION {Elements(f.succs[p]) : p \in {q \in Block : <<b, q>> \in dom}}} :
     <<b, y>> \notin dom}

(* DominanceFrontiers::compute: y is met on the way up from a predecessor   *)
(* that b dominates, and b is still below y's immediate dominator.          *)
Frontier(f, dom, b) ==
  {y \in {e.to : e \in UNION {Elements(f.succs[p]) : p \in {q \in Block : <<b, q>> \in dom}}} :
     Idom(f, dom, y) \in Above(dom, b)}

(* Fault: the frontier of the stores alone.                                 *)
FrontierOnce(f, dom, defs) == UNION {Frontier(f, dom, b) : b \in defs}

(* DominanceFrontiers::iterated                                             *)
Iterated(f, dom, defs) ==
  LET grown[n \in 0..Cardinality(Block)] ==
        IF n = 0 THEN {}
        ELSE UNION {Frontier(f, dom, b) : b \in defs \union grown[n - 1]}
  IN  grown[Cardinality(Block)]

(* The blocks that get a parameter for slot a.                              *)
PhiBlocks(f, dom, a) ==
  LET defs == {b \in Reachable(f) : \E u \in Elements(f.insts[b]) : Stores(f.op[u]) /\ f.ops[u][1] = a}
  IN  Iterated(f, dom, defs) \ {f.entry}

-----------------------------------------------------------------------------
(* Renaming.  `phis` maps each slot to the blocks with a parameter for it.  *)

StoresTo(f, b, a, end) ==
  {i \in 1..end : Stores(f.op[f.insts[b][i]]) /\ f.ops[f.insts[b][i]][1] = a}

(* process_block: what slot a holds after the first `end` instructions of   *)
(* b, if it held `before` at the end of the immediate dominator.            *)
HeldAfter(f, phis, b, a, end, before) ==
  LET stores == StoresTo(f, b, a, end)
  IN  IF stores # {}
      THEN f.ops[f.insts[b][CHOOSE i \in stores : \A j \in stores : j <= i]][2]
      ELSE IF b \in phis[a] THEN Phi(a, b) ELSE before

(* What a holds when b is entered: nothing, in the entry and in a block     *)
(* that cannot be reached.                                                  *)
HeldAbove(f, dom, phis, a) ==
  LET held[b \in Block] ==
        IF b = f.entry \/ <<b, b>> \notin dom THEN Uninit
        ELSE LET d == Idom(f, dom, b)
             IN  HeldAfter(f, phis, d, a, Len(f.insts[d]), held[d])
  IN  held

(* Each promoted load, replaced by what reaches it; this may be a promoted  *)
(* load itself.                                                             *)
Reaching(f, phis, above) ==
  LET loads == {u \in InstsOf(f) : Loads(f.op[u]) /\ f.ops[u][1] \in DOMAIN phis}
      Where(u) == CHOOSE p \in f.blocks \X (1..Cardinality(DOMAIN f.def)) :
                    p[2] \in DOMAIN f.insts[p[1]] /\ f.insts[p[1]][p[2]] = u
      direct == [u \in loads |->
                   LET p == Where(u)  a == f.ops[u][1]
                   IN  HeldAfter(f, phis, p[1], a, p[2], above[a][p[1]])]
      on[n \in 0..Cardinality(loads)] ==
        IF n = 0 THEN direct
        ELSE [u \in loads |-> IF on[n - 1][u] \in loads THEN direct[on[n - 1][u]] ELSE on[n - 1][u]]
  IN  on[Cardinality(loads)]

(* The parameters of promoted slots follow a block's own, in slot order.    *)
PhiSlots(phis, b) == SetToSortSeq({a \in DOMAIN phis : b \in phis[a]}, <)

(* Each edge with what every such slot of its target holds.                 *)
Threaded(f, phis, above, b) ==
  [k \in DOMAIN f.succs[b] |->
     LET e == f.succs[b][k]
         slots == PhiSlots(phis, e.to)
     IN  [e EXCEPT !.args = @ \o [i \in DOMAIN slots |->
            HeldAfter(f, phis, b, slots[i], Len(f.insts[b]), above[slots[i]][b])]]]

PromoteWith(f, phis, above) ==
  LET names == UNION {{Phi(a, b) : b \in phis[a]} : a \in DOMAIN phis}
      gone == {u \in InstsOf(f) :
                 u \in DOMAIN phis \/ \E a \in DOMAIN phis : a \in Elements(f.ops[u])}
      extended == [f EXCEPT
        !.def = @ @@ [n \in names |-> "param"] @@ (Uninit :> "const"),
        !.lit = @ @@ (Uninit :> PoisonLiteral),
        !.params = [b \in Block |->
                      LET slots == PhiSlots(phis, b)
                      IN  @[b] \o [i \in DOMAIN slots |-> Phi(slots[i], b)]],
        !.promoted = DOMAIN phis]
  IN  RebuildWith(extended,
        [blocks |-> f.blocks,
         code |-> [b \in Block |-> SelectSeq(f.insts[b], LAMBDA u : u \notin gone)],
         tail |-> [b \in Block |-> b],
         succs |-> <<>> \o [b \in Block |-> Threaded(f, phis, above, b)],
         stops |-> {},
         folded |-> [v \in {} |-> Stray],
         alias |-> Reaching(f, phis, above),
         dropped |-> {},
         before |-> DomPreorder(f),
         bypassed |-> {}])

PromoteSlots(f, dom, slots) ==
  LET phis == [a \in slots |-> PhiBlocks(f, dom, a)]
  IN  PromoteWith(f, phis, [a \in slots |-> HeldAbove(f, dom, phis, a)])

Mem2RegOf(f) ==
  IF Slots(f) = {} THEN f ELSE PromoteSlots(f, Dominance(f), Slots(f))
================================================================================
