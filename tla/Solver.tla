-------------------------------- MODULE Solver --------------------------------
(***************************************************************************)
(* The sparse conditional fixpoint engine of src/src/analysis/solver.rs.   *)
(*                                                                         *)
(* One run analyses one function, `fn`, which Init picks and no step       *)
(* changes.  The engine's loop pops the block worklist before the SSA      *)
(* worklist, both last in first out; the handler of a popped entry is a    *)
(* short call tree, and `todo` is the calls it still has to make, in       *)
(* order.  Instructions without a result are left out: visit_inst returns  *)
(* at once for them.                                                       *)
(*                                                                         *)
(* A definition marked "Fault" varies the one below it the way a plausible *)
(* bug would; no specification uses it (README, "Faults").                 *)
(***************************************************************************)
EXTENDS Naturals, Sequences

CONSTANTS
  Value, Block,         \* ValueId and BlockId
  Function,             \* the functions that may be analysed
  Literal,              \* the constants of the pool
  Opcode, Arity,        \* the opcodes, and the number of operands of each
  Guard,                \* the guards of the edges of a cond_br or switch
  Always,               \* the guard of the one edge of a `br`
  Elem, Bottom, Top,    \* the abstract domain
  Join(_, _), Leq(_, _), Widen(_, _),
  Abstract(_),          \* abstract_const: a literal to an element
  Transfer(_, _),       \* an opcode and its operands' elements to an element
  Feasible(_, _)        \* edge_feasible: the condition's element and a guard

VARIABLES
  fn,                   \* the function under analysis
  vals,                 \* the abstract value of every SSA value
  block_exec,           \* the blocks proven executable
  edge_exec,            \* the edges <<b, k>> proven executable
  block_wl, ssa_wl,     \* the worklists; the head is the entry pushed last
  todo                  \* the calls left in the handler being run

vars == <<fn, vals, block_exec, edge_exec, block_wl, ssa_wl, todo>>

InstCall(v)        == <<"inst", v, 0, 0>>
TermCall(b)        == <<"term", b, 0, 0>>
EdgesCall(b, left) == <<"edges", b, left, 0>>   \* the edges still to take
ParamCall(b, k, i) == <<"param", b, k, i>>
MarkCall(b)        == <<"mark", b, 0, 0>>

Use == {InstCall(v) : v \in Value} \union {TermCall(b) : b \in Block}

Elements(s) == {s[i] : i \in DOMAIN s}

-----------------------------------------------------------------------------
(* What a function is made of.  `header` is the loop headers found by       *)
(* Dominators, `hook` the seeds that override the default ones.             *)

Edge == [guard : Guard \union {Always}, to : Block, args : Seq(Value)]

Shape(f) ==
  /\ f.entry \in Block
  /\ f.def \in [Value -> {"const", "addr", "param", "inst"}]
  /\ f.lit \in [Value -> Literal]
  /\ DOMAIN f.hook \subseteq Value
  /\ \A v \in DOMAIN f.hook : f.hook[v] \in Elem
  /\ f.params \in [Block -> Seq(Value)]
  /\ f.insts \in [Block -> Seq(Value)]
  /\ f.op \in [Value -> Opcode]
  /\ f.ops \in [Value -> Seq(Value)]
  /\ \A v \in Value : f.def[v] = "inst" => Len(f.ops[v]) = Arity[f.op[v]]
  /\ f.cond \in [Block -> Value]
  /\ f.succs \in [Block -> Seq(Edge)]
  /\ f.header \subseteq Block
  /\ f.uses \in [Value -> Seq(Use)]

(* SSA: a value is a parameter, an instruction's result or neither, and the *)
(* use list of a value holds every instruction that reads it.               *)
SingleDef(f) ==
  /\ \A b \in Block : \A i \in DOMAIN f.params[b] : f.def[f.params[b][i]] = "param"
  /\ \A b \in Block : \A i \in DOMAIN f.insts[b] : f.def[f.insts[b][i]] = "inst"

UseLists(f) ==
  /\ \A v \in Value : \A i \in DOMAIN f.ops[v] :
       InstCall(v) \in Elements(f.uses[f.ops[v][i]])
  /\ \A b \in Block : \A k \in DOMAIN f.succs[b] :
       /\ f.succs[b][k].guard # Always => TermCall(b) \in Elements(f.uses[f.cond[b]])
       /\ \A i \in DOMAIN f.succs[b][k].args :
            TermCall(b) \in Elements(f.uses[f.succs[b][k].args[i]])

WellFormed(f) == Shape(f) /\ SingleDef(f) /\ UseLists(f)

ASSUME FunctionAssumption == \A f \in Function : WellFormed(f)

ASSUME ArityAssumption == Arity \in [Opcode -> Nat]

OperandLists(o, S) == [1..Arity[o] -> S]

(* AbstractDomain's operations return elements.                             *)
ASSUME ElementAssumption ==
  /\ Bottom \in Elem /\ Top \in Elem
  /\ \A l \in Literal : Abstract(l) \in Elem
  /\ \A o \in Opcode : \A s \in OperandLists(o, Elem) : Transfer(o, s) \in Elem
  /\ \A x, y \in Elem : Join(x, y) \in Elem /\ Widen(x, y) \in Elem

(* The laws AbstractDomain asks of its implementors (domain.rs): an order,  *)
(* upper bounds, and a transfer that is monotone.                           *)
ASSUME OrderAssumption ==
  /\ \A x \in Elem : Leq(x, x) /\ Leq(Bottom, x) /\ Leq(x, Top)
  /\ \A x, y, z \in Elem : Leq(x, y) /\ Leq(y, z) => Leq(x, z)
  /\ \A x, y \in Elem : Leq(x, Join(x, y)) /\ Leq(y, Join(x, y))
  /\ \A x, y \in Elem : Leq(x, Widen(x, y)) /\ Leq(y, Widen(x, y))

ASSUME MonotoneAssumption ==
  \A o \in Opcode : \A s, t \in OperandLists(o, Elem) :
    (\A i \in DOMAIN s : Leq(s[i], t[i])) => Leq(Transfer(o, s), Transfer(o, t))

(* A join is the least upper bound (domain.rs:27), and a condition of which *)
(* less is known prunes no more edges.                                      *)
ASSUME PrecisionAssumption ==
  /\ \A x, y, z \in Elem : Leq(x, z) /\ Leq(y, z) => Leq(Join(x, y), z)
  /\ \A x, y \in Elem, g \in Guard : Leq(x, y) /\ Feasible(x, g) => Feasible(y, g)

-----------------------------------------------------------------------------

EntryParams == Elements(fn.params[fn.entry])

(* A value the engine computes: an instruction's result, or a parameter of  *)
(* a block other than the entry.                                            *)
Computed(v) ==
  \/ fn.def[v] = "inst"
  \/ fn.def[v] = "param" /\ v \notin EntryParams

(* Fault: the entry's parameters start like those of any other block.       *)
SeedEntryBottom(v) ==
  IF fn.def[v] \in {"inst", "param"} THEN Bottom
  ELSE IF v \in DOMAIN fn.hook THEN fn.hook[v]
  ELSE IF fn.def[v] = "const" THEN Abstract(fn.lit[v])
  ELSE Top

(* Engine::new: the initial element of a value.                             *)
Seed(v) ==
  IF Computed(v) THEN Bottom
  ELSE IF v \in DOMAIN fn.hook THEN fn.hook[v]
  ELSE IF fn.def[v] = "const" THEN Abstract(fn.lit[v])
  ELSE Top

Init ==
  /\ fn \in Function
  /\ vals = [v \in Value |-> Seed(v)]
  /\ block_exec = {fn.entry}
  /\ edge_exec = {}
  /\ block_wl = <<fn.entry>>
  /\ ssa_wl = <<>>
  /\ todo = <<>>

Operands(v) == [i \in DOMAIN fn.ops[v] |-> vals[fn.ops[v][i]]]
Result(v) == Transfer(fn.op[v], Operands(v))

(* Fault: a branch on a known condition still takes both edges.             *)
EdgeAlwaysFeasible(b, k) == k \in DOMAIN fn.succs[b]

EdgeFeasible(b, k) ==
  LET guard == fn.succs[b][k].guard
  IN  guard = Always \/ Feasible(vals[fn.cond[b]], guard)

(* The element an edge offers the i-th parameter of its target; a missing   *)
(* argument is over-approximated.                                           *)
Offered(b, k, i) ==
  LET args == fn.succs[b][k].args
  IN  IF i \in DOMAIN args THEN vals[args[i]] ELSE Top

Target(b, k) == fn.succs[b][k].to

-----------------------------------------------------------------------------
(* The actions.                                                             *)

PopBlock ==
  /\ todo = <<>>
  /\ block_wl # <<>>
  /\ LET b == Head(block_wl)
     IN  todo' = [i \in DOMAIN fn.insts[b] |-> InstCall(fn.insts[b][i])]
                   \o <<TermCall(b)>>
  /\ block_wl' = Tail(block_wl)
  /\ UNCHANGED <<fn, vals, block_exec, edge_exec, ssa_wl>>

(* Fault: only the instructions that read the value are visited again.      *)
PopSsaInsts ==
  /\ todo = <<>> /\ block_wl = <<>> /\ ssa_wl # <<>>
  /\ LET IsInst(call) == \E v \in Value : call = InstCall(v)
     IN  todo' = SelectSeq(fn.uses[Head(ssa_wl)], IsInst)
  /\ ssa_wl' = Tail(ssa_wl)
  /\ UNCHANGED <<fn, vals, block_exec, edge_exec, block_wl>>

(* Fault: the entry is read and stays on the worklist.                      *)
PeekSsa ==
  /\ todo = <<>> /\ block_wl = <<>> /\ ssa_wl # <<>>
  /\ todo' = fn.uses[Head(ssa_wl)]
  /\ UNCHANGED <<fn, vals, block_exec, edge_exec, block_wl, ssa_wl>>

PopSsa ==
  /\ todo = <<>>
  /\ block_wl = <<>>
  /\ ssa_wl # <<>>
  /\ todo' = fn.uses[Head(ssa_wl)]
  /\ ssa_wl' = Tail(ssa_wl)
  /\ UNCHANGED <<fn, vals, block_exec, edge_exec, block_wl>>

(* A placed instruction's block is executable (process_ssa skips the rest). *)
InstExecutable(v) == \E b \in block_exec : v \in Elements(fn.insts[b])

SkipUse ==
  /\ todo # <<>>
  /\ \/ \E v \in Value : Head(todo) = InstCall(v) /\ ~InstExecutable(v)
     \/ \E b \in Block \ block_exec : Head(todo) = TermCall(b)
  /\ todo' = Tail(todo)
  /\ UNCHANGED <<fn, vals, block_exec, edge_exec, block_wl, ssa_wl>>

(* Fault: the change is not pushed.                                         *)
UpdateSilently(v, new) == vals' = [vals EXCEPT ![v] = new] /\ UNCHANGED ssa_wl

(* vals[v] := new, pushing v when that is a change.                         *)
Update(v, new) ==
  IF new # vals[v]
    THEN /\ vals' = [vals EXCEPT ![v] = new]
         /\ ssa_wl' = <<v>> \o ssa_wl
    ELSE UNCHANGED <<vals, ssa_wl>>

VisitInst(v) ==
  /\ todo # <<>>
  /\ Head(todo) = InstCall(v)
  /\ InstExecutable(v)
  /\ Update(v, Result(v))
  /\ todo' = Tail(todo)
  /\ UNCHANGED <<fn, block_exec, edge_exec, block_wl>>

(* Fault: only the first feasible edge is taken.                            *)
VisitFirstEdge(b) ==
  /\ todo # <<>> /\ Head(todo) = TermCall(b) /\ b \in block_exec
  /\ LET feasible == {k \in DOMAIN fn.succs[b] : EdgeFeasible(b, k)}
         first == {k \in feasible : \A j \in feasible : k <= j}
     IN  todo' = <<EdgesCall(b, first)>> \o Tail(todo)
  /\ UNCHANGED <<fn, vals, block_exec, edge_exec, block_wl, ssa_wl>>

(* feasible_edges is computed once, before any of the edges is taken.       *)
VisitTerminator(b) ==
  /\ todo # <<>>
  /\ Head(todo) = TermCall(b)
  /\ b \in block_exec
  /\ LET feasible == {k \in DOMAIN fn.succs[b] : EdgeFeasible(b, k)}
     IN  todo' = <<EdgesCall(b, feasible)>> \o Tail(todo)
  /\ UNCHANGED <<fn, vals, block_exec, edge_exec, block_wl, ssa_wl>>

(* Fault: an edge into a block already executable is not marked.            *)
TakeFirstEdgeInto(b, k) ==
  /\ todo # <<>>
  /\ \E left \in SUBSET DOMAIN fn.succs[b] :
       /\ Head(todo) = EdgesCall(b, left)
       /\ k \in left /\ \A j \in left : k <= j
       /\ todo' = [i \in DOMAIN fn.params[Target(b, k)] |-> ParamCall(b, k, i)]
                    \o <<MarkCall(Target(b, k)), EdgesCall(b, left \ {k})>>
                    \o Tail(todo)
  /\ edge_exec' = IF Target(b, k) \in block_exec THEN edge_exec
                  ELSE edge_exec \union {<<b, k>>}
  /\ UNCHANGED <<fn, vals, block_exec, block_wl, ssa_wl>>

(* The next feasible edge, in successor order.                              *)
TakeEdge(b, k) ==
  /\ todo # <<>>
  /\ \E left \in SUBSET DOMAIN fn.succs[b] :
       /\ Head(todo) = EdgesCall(b, left)
       /\ k \in left
       /\ \A j \in left : k <= j
       /\ todo' = [i \in DOMAIN fn.params[Target(b, k)] |-> ParamCall(b, k, i)]
                    \o <<MarkCall(Target(b, k)), EdgesCall(b, left \ {k})>>
                    \o Tail(todo)
  /\ edge_exec' = edge_exec \union {<<b, k>>}
  /\ UNCHANGED <<fn, vals, block_exec, block_wl, ssa_wl>>

EdgesTaken(b) ==
  /\ todo # <<>>
  /\ Head(todo) = EdgesCall(b, {})
  /\ todo' = Tail(todo)
  /\ UNCHANGED <<fn, vals, block_exec, edge_exec, block_wl, ssa_wl>>

(* Fault: the parameter takes the argument of the last edge visited.        *)
OverwriteParam(b, k, i) ==
  /\ todo # <<>> /\ Head(todo) = ParamCall(b, k, i)
  /\ Update(fn.params[Target(b, k)][i], Offered(b, k, i))
  /\ todo' = Tail(todo)
  /\ UNCHANGED <<fn, block_exec, edge_exec, block_wl>>

(* Fault: no widening at a loop header.                                     *)
JoinParam(b, k, i) ==
  /\ todo # <<>> /\ Head(todo) = ParamCall(b, k, i)
  /\ LET param == fn.params[Target(b, k)][i]
     IN  Update(param, Join(vals[param], Offered(b, k, i)))
  /\ todo' = Tail(todo)
  /\ UNCHANGED <<fn, block_exec, edge_exec, block_wl>>

UpdateParam(b, k, i) ==
  /\ todo # <<>>
  /\ Head(todo) = ParamCall(b, k, i)
  /\ LET param  == fn.params[Target(b, k)][i]
         joined == Join(vals[param], Offered(b, k, i))
     IN  Update(param, IF Target(b, k) \in fn.header
                         THEN Widen(vals[param], joined) ELSE joined)
  /\ todo' = Tail(todo)
  /\ UNCHANGED <<fn, block_exec, edge_exec, block_wl>>

MarkBlockExec(b) ==
  /\ todo # <<>>
  /\ Head(todo) = MarkCall(b)
  /\ IF b \in block_exec
       THEN UNCHANGED <<block_exec, block_wl>>
       ELSE /\ block_exec' = block_exec \union {b}
            /\ block_wl' = <<b>> \o block_wl
  /\ todo' = Tail(todo)
  /\ UNCHANGED <<fn, vals, edge_exec, ssa_wl>>

Done == todo = <<>> /\ block_wl = <<>> /\ ssa_wl = <<>>

Step ==
  \/ PopBlock
  \/ PopSsa
  \/ SkipUse
  \/ \E v \in Value : VisitInst(v)
  \/ \E b \in Block :
       \/ VisitTerminator(b)
       \/ EdgesTaken(b)
       \/ MarkBlockExec(b)
       \/ \E k \in DOMAIN fn.succs[b] :
            \/ TakeEdge(b, k)
            \/ \E i \in DOMAIN fn.params[Target(b, k)] : UpdateParam(b, k, i)

(* run returns: the result is read, nothing changes any more.               *)
Return == Done /\ UNCHANGED vars

Next == Step \/ Return

Spec == Init /\ [][Next]_vars

(* The engine is a plain loop: it takes a step while there is one to take.  *)
FairSpec == Spec /\ WF_vars(Step)

-----------------------------------------------------------------------------
(* Type correctness.  Every call left to make names an edge and a parameter *)
(* that exist.                                                              *)

ParamCalls(b) ==
  UNION {{ParamCall(b, k, i) : i \in DOMAIN fn.params[Target(b, k)]} : k \in DOMAIN fn.succs[b]}

Call ==
  Use \union {MarkCall(b) : b \in Block}
      \union (UNION {{EdgesCall(b, left) : left \in SUBSET DOMAIN fn.succs[b]} : b \in Block})
      \union (UNION {ParamCalls(b) : b \in Block})

TypeOK ==
  /\ WellFormed(fn)
  /\ vals \in [Value -> Elem]
  /\ block_exec \subseteq Block
  /\ \A e \in edge_exec : \E b \in Block : \E k \in DOMAIN fn.succs[b] : e = <<b, k>>
  /\ block_wl \in Seq(Block)
  /\ ssa_wl \in Seq(Value)
  /\ todo \in Seq(Call)

-----------------------------------------------------------------------------
(* What the worklists are for: whatever is not yet up to date is scheduled. *)

Pending(v) == v \in Elements(ssa_wl)
ToDo(call) == call \in Elements(todo)
Scheduled(b) == b \in Elements(block_wl)

(* An instruction of an executable block has the value its operands give    *)
(* it, unless its block, the instruction or one of its operands is still to *)
(* be visited (visit_inst, process_ssa).                                    *)
InstsCurrent ==
  \A b \in block_exec : \A i \in DOMAIN fn.insts[b] :
    LET v == fn.insts[b][i]
    IN  \/ Scheduled(b)
        \/ ToDo(InstCall(v))
        \/ \E j \in DOMAIN fn.ops[v] : Pending(fn.ops[v][j])
        \/ vals[v] = Result(v)

(* The terminator of b will still be evaluated under the condition b has.   *)
TermPending(b) ==
  \/ Scheduled(b)
  \/ ToDo(TermCall(b))

CondPending(b, k) == fn.succs[b][k].guard # Always /\ Pending(fn.cond[b])

EdgePending(b, k) ==
  \E left \in SUBSET DOMAIN fn.succs[b] : k \in left /\ ToDo(EdgesCall(b, left))

(* Every edge the condition's value admits is executable, unless that       *)
(* value, or the edge, is still to be looked at (visit_terminator).         *)
EdgesCurrent ==
  \A b \in block_exec : \A k \in DOMAIN fn.succs[b] :
    EdgeFeasible(b, k) =>
      \/ TermPending(b) \/ CondPending(b, k) \/ EdgePending(b, k)
      \/ <<b, k>> \in edge_exec

ArgPending(b, k, i) ==
  /\ i \in DOMAIN fn.succs[b][k].args
  /\ Pending(fn.succs[b][k].args[i])

(* Across an executable edge that is still feasible, every parameter of the *)
(* target has absorbed its argument, unless the terminator, the condition,  *)
(* the argument or the parameter is still to be visited                     *)
(* (update_target_params).                                                  *)
ParamsCurrent ==
  \A e \in edge_exec :
    LET b == e[1]  k == e[2]
    IN  EdgeFeasible(b, k) =>
          \A i \in DOMAIN fn.params[Target(b, k)] :
            \/ TermPending(b) \/ CondPending(b, k) \/ EdgePending(b, k)
            \/ ArgPending(b, k, i)
            \/ ToDo(ParamCall(b, k, i))
            \/ Leq(Offered(b, k, i), vals[fn.params[Target(b, k)][i]])

(* The target of an executable edge is executable, or about to be marked.   *)
TargetsMarked ==
  \A e \in edge_exec :
    LET t == Target(e[1], e[2]) IN t \in block_exec \/ ToDo(MarkCall(t))

(* Edges are only taken out of executable blocks.                           *)
SourcesExecutable ==
  /\ \A e \in edge_exec : e[1] \in block_exec
  /\ \A b \in Block : \A left \in SUBSET DOMAIN fn.succs[b] :
       ToDo(EdgesCall(b, left)) => b \in block_exec

(* No instruction has a value above the one its operands give it now.       *)
InstsBelow == \A v \in Value : fn.def[v] = "inst" => Leq(vals[v], Result(v))

WorklistInvariant ==
  /\ InstsCurrent /\ EdgesCurrent /\ ParamsCurrent
  /\ TargetsMarked /\ SourcesExecutable /\ InstsBelow

(* What the engine returns is a post-fixpoint: executability is closed      *)
(* under the feasible edges, every instruction of an executable block has   *)
(* the value of its operands, and every parameter is above its arguments.   *)
PostFixpoint ==
  Done =>
    \A b \in block_exec :
      /\ \A i \in DOMAIN fn.insts[b] : vals[fn.insts[b][i]] = Result(fn.insts[b][i])
      /\ \A k \in DOMAIN fn.succs[b] : EdgeFeasible(b, k) =>
           /\ <<b, k>> \in edge_exec
           /\ Target(b, k) \in block_exec
           /\ \A i \in DOMAIN fn.params[Target(b, k)] :
                Leq(Offered(b, k, i), vals[fn.params[Target(b, k)][i]])

(* visit_inst assigns the new result without joining it to the old one.     *)
(* The value of every SSA value rises all the same, and what is executable  *)
(* stays executable, so no fact is ever withdrawn.                          *)
Raises ==
  /\ \A v \in Value : Leq(vals[v], vals'[v])
  /\ block_exec \subseteq block_exec'
  /\ edge_exec \subseteq edge_exec'

RaisesOnly == [][Raises]_vars

(* No worklist is left with entries that nothing takes.                     *)
Terminates == <>Done
===============================================================================
