---------------------------------- MODULE Licm ----------------------------------
(***************************************************************************)
(* Loop-invariant code motion (src/src/transform/licm.rs): an instruction   *)
(* that computes the same value on every turn of a loop is computed once,   *)
(* in a preheader before the loop, whether or not the loop would have       *)
(* executed it.  The preheader of the loop at h is the first `ahead[h]`     *)
(* instructions of block h here, which only an edge from outside the loop   *)
(* executes, before it passes its arguments; `inside[h]` is the loop.       *)
(***************************************************************************)
EXTENDS Rebuild

CONSTANT Divides(_)       \* integer division, which may be undefined

(* find_loops: the blocks that reach a back edge without passing the header. *)
LoopOf(f, h) ==
  LET live == Reachable(f)
      Preds(bs) == {p \in live : \E e \in Elements(f.succs[p]) : e.to \in bs}
      back[n \in 0..Cardinality(Block)] ==
        IF n = 0 THEN {h} \union {p \in Preds({h}) : Dominates(f, h, p)}
        ELSE back[n - 1] \union Preds(back[n - 1] \ {h})
  IN  back[Cardinality(Block)]

Loops(f) == [h \in HeadersOf(f) |-> LoopOf(f, h)]

(* Fault: whatever is pure is hoisted.                                      *)
HoistsDivision(f, v) == ~SideEffect(f.op[v]) /\ ~Loads(f.op[v])

(* is_hoistable_kind                                                        *)
Hoists(f, v) == ~SideEffect(f.op[v]) /\ ~Loads(f.op[v]) /\ ~Divides(f.op[v])

DefinedIn(f, b) == Elements(f.params[b]) \union Elements(f.insts[b])
Home(f, v) == CHOOSE b \in f.blocks : v \in DefinedIn(f, b)

(* Fault: an operand hoisted out of any loop is there.                      *)
AvailableSomewhere(f, loops, dest, v, h) ==
  \/ v = Stray \/ f.def[v] \in {"const", "addr"}
  \/ Home(f, v) \notin loops[h] /\ Dominates(f, Home(f, v), h)
  \/ v \in DOMAIN dest

(* In the preheader of h an operand is there if it is a constant, if it is  *)
(* defined before the loop, or if it was hoisted out of it as well.         *)
Available(f, loops, dest, v, h) ==
  \/ v = Stray \/ f.def[v] \in {"const", "addr"}
  \/ Home(f, v) \notin loops[h] /\ Dominates(f, Home(f, v), h)
  \/ v \in DOMAIN dest /\ loops[h] \subseteq loops[dest[v]]

(* The loops around v that v is invariant in; the entry has no preheader.   *)
InvariantIn(f, loops, dest, v) ==
  {h \in DOMAIN loops \ {f.entry} :
     Home(f, v) \in loops[h] /\ \A o \in Elements(f.ops[v]) : Available(f, loops, dest, o, h)}

Outermost(loops, headers) ==
  CHOOSE h \in headers : \A k \in headers \ {h} :
    \/ Cardinality(loops[k]) < Cardinality(loops[h])
    \/ Cardinality(loops[k]) = Cardinality(loops[h]) /\ h < k

(* The preheader each hoisted instruction goes to.                          *)
Destinations(f, loops) ==
  LET pure == {v \in UNION {Elements(f.insts[b]) : b \in UNION {loops[h] : h \in DOMAIN loops}} :
                 Hoists(f, v)}
      Moved(dest) ==
        LET to == [v \in pure |-> InvariantIn(f, loops, dest, v)]
        IN  [v \in {u \in pure : to[u] # {}} |-> Outermost(loops, to[v])]
      round[n \in 0..Cardinality(DOMAIN f.def)] ==
        IF n = 0 THEN [v \in {} |-> Stray] ELSE Moved(round[n - 1])
  IN  round[Cardinality(DOMAIN f.def)]

(* What is hoisted out of the loop at h, definitions before uses: by the    *)
(* dominator preorder of the blocks, then by place.                         *)
Hoisted(f, dest, before, h) ==
  LET At(v) == CHOOSE i \in DOMAIN f.insts[Home(f, v)] : f.insts[Home(f, v)][i] = v
      Earlier(u, v) == \/ <<Home(f, u), Home(f, v)>> \in before
                       \/ Home(f, u) = Home(f, v) /\ At(u) < At(v)
  IN  SetToSortSeq({v \in DOMAIN dest : dest[v] = h}, Earlier)

HoistWith(f, loops, dest, before) ==
  LET pre == <<>> \o [b \in Block |-> Hoisted(f, dest, before, b)]
      Rest(b) == SelectSeq(f.insts[b], LAMBDA v : v \notin DOMAIN dest)
      plan == [blocks |-> f.blocks,
               code |-> [b \in Block |-> pre[b] \o Rest(b)],
               tail |-> [b \in Block |-> b],
               succs |-> f.succs,
               stops |-> {},
               folded |-> [v \in {} |-> Stray],
               alias |-> [v \in {} |-> Stray],
               dropped |-> {},
               before |-> before,
               bypassed |-> {}]
  IN  [RebuildWith(f, plan) EXCEPT
        !.ahead = [b \in Block |-> Len(pre[b])],
        !.inside = [b \in Block |-> IF b \in DOMAIN loops THEN loops[b] ELSE {}]]

LicmOf(f) ==
  LET loops == Loops(f)
      dest == Destinations(f, loops)
  IN  IF DOMAIN dest = {} THEN f ELSE HoistWith(f, loops, dest, DomPreorder(f))
================================================================================
