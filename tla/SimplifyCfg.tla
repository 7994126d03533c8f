------------------------------ MODULE SimplifyCfg ------------------------------
(***************************************************************************)
(* Control-flow clean-ups (src/src/transform/simplify_cfg.rs): constant    *)
(* branches are folded, blocks that only forward their parameters are      *)
(* bypassed, blocks with one predecessor are spliced into it, and what     *)
(* cannot be reached is dropped, all planned on the old function.  `eff`   *)
(* is the folded terminators, as edges; `fwd` the forwarding blocks.       *)
(***************************************************************************)
EXTENDS Rebuild

CONSTANT IsExactly(_, _)      \* a literal is the very constant a guard asks for

IsBr(edges) == Len(edges) = 1 /\ edges[1].guard = Always

(* compute_eff: a condition that is one of the interned constants; a switch *)
(* is never folded to its default.                                          *)
FoldConstant(f, b) ==
  LET c == f.cond[b]
      exact == IF Guarded(f, b) /\ c # Stray /\ f.def[c] = "const"
               THEN {k \in DOMAIN f.succs[b] : IsExactly(f.lit[c], f.succs[b][k].guard)} ELSE {}
  IN  IF exact = {} THEN f.succs[b]
      ELSE <<[f.succs[b][CHOOSE k \in exact : \A j \in exact : k <= j] EXCEPT !.guard = Always]>>

OwnParam(f, b, a) == a # Stray /\ a \in Elements(f.params[b])

(* forward_safe                                                             *)
ForwardSafe(f, b, a) == OwnParam(f, b, a) \/ a = Stray \/ f.def[a] \in {"const", "addr"}

(* params_confined_to_block: nothing but the terminator of b reads them.    *)
ParamsConfined(f, b) ==
  \A p \in Elements(f.params[b]) :
    /\ \A c \in f.blocks : \A i \in DOMAIN f.insts[c] : p \notin Elements(f.ops[f.insts[c][i]])
    /\ \A c \in f.blocks \ {b} :
         p \notin TermReads(f, c) \union UNION {Elements(e.args) : e \in Elements(f.succs[c])}

(* Fault: a parameter may be read anywhere.                                 *)
MayForwardAnyParam(f, eff, b) ==
  /\ b # f.entry /\ f.insts[b] = <<>>
  /\ IsBr(eff[b]) /\ eff[b][1].to # b
  /\ \A a \in Elements(eff[b][1].args) : ForwardSafe(f, b, a)

MayForward(f, eff, b) ==
  /\ b # f.entry /\ f.insts[b] = <<>>
  /\ IsBr(eff[b]) /\ eff[b][1].to # b
  /\ \A a \in Elements(eff[b][1].args) : ForwardSafe(f, b, a)
  /\ ParamsConfined(f, b)

(* A chain of forwarding blocks that comes to an end.                       *)
Exits(f, eff, fwd, b) ==
  LET on[n \in 0..Cardinality(Block)] ==
        IF n = 0 THEN b ELSE IF on[n - 1] \in fwd THEN eff[on[n - 1]][1].to ELSE on[n - 1]
  IN  on[Cardinality(Block)] \notin fwd

(* classify_forwarders: those on a cycle, and those that lead into it, are  *)
(* demoted one by one.                                                      *)
Forwarders(f, eff) ==
  LET Demote(fwd, b) == IF b \in fwd /\ ~Exits(f, eff, fwd, b) THEN fwd \ {b} ELSE fwd
      round[n \in 0..Cardinality(Block)] ==
        IF n = 0 THEN {b \in f.blocks : MayForward(f, eff, b)}
        ELSE FoldLeft(Demote, round[n - 1], [b \in 1..Cardinality(Block) |-> b])
  IN  round[Cardinality(Block)]

(* Fault: the arguments are handed on as they are.                          *)
RECURSIVE ResolveUnsubstituted(_, _, _, _)
ResolveUnsubstituted(f, eff, fwd, e) ==
  IF e.to \notin fwd THEN e
  ELSE ResolveUnsubstituted(f, eff, fwd, [eff[e.to][1] EXCEPT !.guard = e.guard])

(* resolve_edge: on through forwarding blocks, their parameters replaced by *)
(* the arguments they receive.                                              *)
RECURSIVE Resolve(_, _, _, _)
Resolve(f, eff, fwd, e) ==
  IF e.to \notin fwd THEN e
  ELSE LET next == eff[e.to][1]
           Given(a) == IF OwnParam(f, e.to, a)
                       THEN e.args[CHOOSE i \in DOMAIN f.params[e.to] : f.params[e.to][i] = a]
                       ELSE a
       IN  Resolve(f, eff, fwd, [guard |-> e.guard, to |-> next.to,
                                 args |-> <<>> \o [i \in DOMAIN next.args |-> Given(next.args[i])]])

(* single_edge: every edge leads to one block with the same arguments.      *)
SameEdge(f, eff, fwd, b) ==
  LET resolved == {[Resolve(f, eff, fwd, e) EXCEPT !.guard = Always] : e \in Elements(eff[b])}
  IN  IF eff[b] # <<>> /\ ~IsBr(eff[b]) /\ Cardinality(resolved) = 1
      THEN <<CHOOSE e \in resolved : TRUE>> ELSE eff[b]

Effective(f) ==
  LET round[n \in 0..Cardinality(Block)] ==
        IF n = 0 THEN <<>> \o [b \in Block |-> FoldConstant(f, b)]
        ELSE LET eff == round[n - 1]
                 fwd == Forwarders(f, eff)
             IN  <<>> \o [b \in Block |-> SameEdge(f, eff, fwd, b)]
  IN  round[Cardinality(Block)]

-----------------------------------------------------------------------------

(* The depth-first post-order of the graph of resolved edges.               *)
RECURSIVE Visit(_, _, _, _)
Visit(succ, path, post, b) ==
  LET Onto(done, c) == IF c \in path \union {b} \union Elements(done) THEN done
                       ELSE Visit(succ, path \union {b}, done, c)
  IN  Append(FoldLeft(Onto, post, succ[b]), b)

(* A block entered by one edge only, the `br` of another block.             *)
Absorbable(f, edges, live, fwd) ==
  {t \in live \ (fwd \union {f.entry}) :
     LET incoming == {<<b, k>> \in (live \ fwd) \X (1..Cardinality(DOMAIN f.def)) :
                        k \in DOMAIN edges[b] /\ edges[b][k].to = t}
     IN  Cardinality(incoming) = 1 /\ \A e \in incoming : IsBr(edges[e[1]]) /\ e[1] # t}

(* emit_chain: a block and those spliced into it, one after the other.      *)
RECURSIVE Chain(_, _, _)
Chain(edges, absorbed, b) ==
  IF IsBr(edges[b]) /\ edges[b][1].to \in absorbed
  THEN <<b>> \o Chain(edges, absorbed, edges[b][1].to) ELSE <<b>>

(* What the parameters of spliced blocks stand for.                         *)
Bound(f, edges, absorbed, sources) ==
  LET from == {b \in sources : IsBr(edges[b]) /\ edges[b][1].to \in absorbed}
      arg == [p \in UNION {Elements(f.params[t]) : t \in absorbed} |->
                LET b == CHOOSE c \in from : p \in Elements(f.params[edges[c][1].to])
                    params == f.params[edges[b][1].to]
                IN  edges[b][1].args[CHOOSE i \in DOMAIN params : params[i] = p]]
      on[n \in 0..Cardinality(Block)] ==
        IF n = 0 THEN arg
        ELSE [p \in DOMAIN arg |->
                LET a == on[n - 1][p] IN IF a \in DOMAIN arg THEN arg[a] ELSE a]
  IN  on[Cardinality(Block)]

(* The plan of the new blocks: `chain` is what each of the `roots` becomes. *)
PlanOfChains(f, edges, fwd, absorbed, post, roots, chain) ==
  LET tail == <<>> \o [b \in Block |-> IF b \in roots THEN chain[b][Len(chain[b])] ELSE b]
      Index(b) == CHOOSE i \in DOMAIN post : post[i] = b
  IN  [blocks |-> roots,
       code |-> [b \in Block |->
                   IF b \in roots
                   THEN FlattenSeq([i \in DOMAIN chain[b] |-> f.insts[chain[b][i]]]) ELSE <<>>],
       tail |-> tail,
       succs |-> [b \in Block |-> IF b \in roots THEN edges[tail[b]] ELSE <<>>],
       stops |-> {},
       folded |-> [v \in {} |-> Stray],
       alias |-> Bound(f, edges, absorbed, Elements(post) \ fwd),
       dropped |-> {},
       before |-> {p \in roots \X roots : Index(p[1]) > Index(p[2])},
       bypassed |-> fwd]

PlanOfOrder(f, edges, fwd, post) ==
  LET live == Elements(post)
      absorbed == Absorbable(f, edges, live, fwd)
  IN  PlanOfChains(f, edges, fwd, absorbed, post, live \ (fwd \union absorbed),
                   [b \in live |-> Chain(edges, absorbed, b)])

PlanOfEdges(f, edges, fwd) ==
  LET succ == <<>> \o [b \in Block |-> <<>> \o [k \in DOMAIN edges[b] |-> edges[b][k].to]]
  IN  PlanOfOrder(f, edges, fwd, Visit(succ, {}, <<>>, f.entry))

SimplifyPlan(f, eff) ==
  LET fwd == Forwarders(f, eff)
  IN  PlanOfEdges(f, <<>> \o [b \in Block |->
        <<>> \o [k \in DOMAIN eff[b] |-> Resolve(f, eff, fwd, eff[b][k])]], fwd)

(* A plan that keeps every block and folds nothing is not carried out.      *)
SimplifyCfgWith(f, eff, plan) ==
  IF plan.blocks = f.blocks /\ \A b \in f.blocks : eff[b] = f.succs[b] THEN f
  ELSE RebuildWith(f, plan)

SimplifyCfgOf(f) ==
  LET eff == Effective(f) IN SimplifyCfgWith(f, eff, SimplifyPlan(f, eff))
===============================================================================
