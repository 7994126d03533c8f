----------------------------- MODULE FunctionShapes ---------------------------
(***************************************************************************)
(* What the code derives from a function before it is analysed: the use    *)
(* lists, and the loop headers found by src/src/analysis/cfg.rs.           *)
(***************************************************************************)
EXTENDS Solver, FiniteSets, SequencesExt

Reads(f, call, v) ==
  IF call[1] = "inst" THEN v \in Elements(f.ops[call[2]])
  ELSE \E k \in DOMAIN f.succs[call[2]] :
         LET e == f.succs[call[2]][k]
         IN  (e.guard # Always /\ f.cond[call[2]] = v) \/ v \in Elements(e.args)

(* The readers in the order the builder creates them: block by block.       *)
Readers(f) ==
  FlattenSeq([b \in 1..Cardinality(Block) |->
    [i \in DOMAIN f.insts[b] |-> InstCall(f.insts[b][i])] \o <<TermCall(b)>>])

UsesOf(f, v) == LET ReadsV(call) == Reads(f, call, v) IN SelectSeq(Readers(f), ReadsV)

(* The blocks reachable from the entry without passing `avoid`.             *)
ReachAvoiding(f, avoid) ==
  LET Succs(b) == {e.to : e \in Elements(f.succs[b])}
      within[n \in 0..Cardinality(Block)] ==
        IF n = 0 THEN {f.entry} \ {avoid}
        ELSE within[n - 1] \union (UNION {Succs(b) : b \in within[n - 1]} \ {avoid})
  IN  within[Cardinality(Block)]

Reachable(f) == ReachAvoiding(f, 0)

Dominates(f, d, b) == d = b \/ b \notin ReachAvoiding(f, d)

HeadersOf(f) ==
  {h \in Block : \E b \in Reachable(f) :
     \E k \in DOMAIN f.succs[b] : f.succs[b][k].to = h /\ Dominates(f, h, b)}

Close(f) ==
  [entry |-> f.entry, def |-> f.def, lit |-> f.lit, hook |-> f.hook,
   params |-> f.params, insts |-> f.insts, op |-> f.op, ops |-> f.ops,
   cond |-> f.cond, succs |-> f.succs, header |-> HeadersOf(f),
   uses |-> <<>> \o [v \in Value |-> UsesOf(f, v)]]

===============================================================================
