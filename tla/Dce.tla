---------------------------------- MODULE Dce ---------------------------------
(***************************************************************************)
(* Dead-code elimination (src/src/transform/dce.rs): what no effect, no    *)
(* terminator and no live value reads is left out, and so are the block    *)
(* parameters that only such values read, with their arguments.            *)
(***************************************************************************)
EXTENDS Rebuild

(* Every terminator is live, the entry's parameters are the function's own. *)
LiveRoots(f) ==
  Elements(f.params[f.entry])
    \union {v \in UNION {Elements(f.insts[b]) : b \in Block} : SideEffect(f.op[v])}
    \union UNION {TermReads(f, b) : b \in f.blocks}

(* Fault: an argument is followed on the edges that come from other blocks. *)
FeedsFromOutside(f, live) ==
  UNION {{e.args[i] : i \in {n \in DOMAIN e.args : f.params[e.to][n] \in live}} :
         e \in UNION {{d \in Elements(f.succs[b]) : d.to # b} : b \in Block}}

(* The arguments of live parameters, on every edge.                         *)
Feeds(f, live) ==
  UNION {{e.args[i] : i \in {n \in DOMAIN e.args : f.params[e.to][n] \in live}} :
         e \in UNION {Elements(f.succs[b]) : b \in Block}}

LiveValues(f) ==
  LET insts == UNION {Elements(f.insts[b]) : b \in Block}
      grown[n \in 0..Cardinality(DOMAIN f.def)] ==
        IF n = 0 THEN LiveRoots(f)
        ELSE LET live == grown[n - 1]
             IN  live \union UNION {Elements(f.ops[v]) : v \in live \intersect insts}
                      \union Feeds(f, live)
  IN  grown[Cardinality(DOMAIN f.def)]

(* With nothing dead the body is kept as it is.                             *)
DceOf(f) ==
  LET live == LiveValues(f)
      defined == UNION {Elements(f.insts[b]) \union Elements(f.params[b]) : b \in Block}
  IN  IF defined \subseteq live THEN f
      ELSE RebuildWith(f,
             [blocks |-> f.blocks,
              code |-> [b \in Block |-> SelectSeq(f.insts[b], LAMBDA v : v \in live)],
              tail |-> [b \in Block |-> b],
              succs |-> f.succs,
              stops |-> {},
              folded |-> [v \in {} |-> Stray],
              alias |-> [v \in {} |-> Stray],
              dropped |-> UNION {Elements(f.params[b]) : b \in Block} \ live,
              before |-> DomPreorder(f),
              bypassed |-> {}])
===============================================================================
