------------------------------ MODULE SolverSound -----------------------------
(***************************************************************************)
(* What the fixpoint is for: the function that was analysed is executed,   *)
(* as the reference interpreter src/src/ir/refexec.rs executes it, and     *)
(* every value and every transfer of control is compared with the result   *)
(* the engine returned.  The result itself is compared with the other      *)
(* solutions of the equations it solves.                                   *)
(***************************************************************************)
EXTENDS Solver

CONSTANTS
  Concrete, Undef,        \* concrete values; the absence of one
  Gamma(_),               \* the concretization of an element
  Denotes(_),             \* the values a literal may denote
  Eval(_, _),             \* the results an opcode may have, none if undefined
  Satisfies(_, _),        \* a concrete condition takes a guarded edge
  Rivals(_, _)            \* for a function and its seeds, results to compare with

VARIABLES
  env,                    \* the concrete value of every SSA value
  at,                     \* the block being executed
  pos,                    \* the instructions of it already executed
  running                 \* the execution was started

execVars == <<env, at, pos, running>>
allVars == <<vars, execVars>>

ASSUME ConcreteAssumption ==
  /\ Undef \notin Concrete
  /\ \A x \in Elem : Gamma(x) \subseteq Concrete
  /\ \A l \in Literal : Denotes(l) \subseteq Concrete
  /\ \A o \in Opcode : \A s \in OperandLists(o, Concrete) : Eval(o, s) \subseteq Concrete

(* Soundness of a domain, as domain.rs defines it: Gamma is monotone, and    *)
(* the abstract operations cover the concrete ones.                         *)
ASSUME SoundnessAssumption ==
  /\ Gamma(Top) = Concrete
  /\ \A x, y \in Elem : Leq(x, y) => Gamma(x) \subseteq Gamma(y)
  /\ \A l \in Literal : Denotes(l) \subseteq Gamma(Abstract(l))
  /\ \A o \in Opcode : \A s \in OperandLists(o, Elem) : \A c \in OperandLists(o, Concrete) :
       (\A i \in DOMAIN s : c[i] \in Gamma(s[i])) => Eval(o, c) \subseteq Gamma(Transfer(o, s))
  /\ \A x \in Elem, g \in Guard : \A c \in Gamma(x) : Satisfies(c, g) => Feasible(x, g)

SoundInit ==
  /\ Init
  /\ env = [v \in Value |-> Undef]
  /\ at = fn.entry
  /\ pos = 0
  /\ running = FALSE

(* The values an execution may start with: those of constants, addresses    *)
(* and arguments.  A hook is a promise its caller makes about the value.    *)
Given(v) ==
  IF v \in DOMAIN fn.hook THEN Gamma(fn.hook[v])
  ELSE IF fn.def[v] = "const" THEN Denotes(fn.lit[v])
  ELSE Concrete

Analyse == Step /\ UNCHANGED execVars

Start ==
  /\ Done /\ ~running
  /\ \E given \in [{v \in Value : ~Computed(v)} -> Concrete] :
       /\ \A v \in DOMAIN given : given[v] \in Given(v)
       /\ env' = [v \in Value |-> IF Computed(v) THEN Undef ELSE given[v]]
  /\ running' = TRUE
  /\ UNCHANGED <<vars, at, pos>>

ConcreteOperands(v) == [i \in DOMAIN fn.ops[v] |-> env[fn.ops[v][i]]]

(* One instruction; undefined behaviour leaves no result and ends the run.  *)
ExecInst ==
  /\ running
  /\ pos < Len(fn.insts[at])
  /\ LET v == fn.insts[at][pos + 1]
     IN  /\ \A i \in DOMAIN fn.ops[v] : env[fn.ops[v][i]] # Undef
         /\ \E r \in Eval(fn.op[v], ConcreteOperands(v)) : env' = [env EXCEPT ![v] = r]
  /\ pos' = pos + 1
  /\ UNCHANGED <<vars, at, running>>

Takes(k) ==
  LET guard == fn.succs[at][k].guard
  IN  guard # Always => env[fn.cond[at]] # Undef /\ Satisfies(env[fn.cond[at]], guard)

(* What v holds once edge k is taken: a parameter its argument, everything  *)
(* else what it held.                                                       *)
Passed(k, v) ==
  LET params == fn.params[Target(at, k)]
      args == fn.succs[at][k].args
  IN  IF v \notin Elements(params) THEN env[v]
      ELSE LET i == CHOOSE n \in DOMAIN params : params[n] = v
           IN  IF i \in DOMAIN args THEN env[args[i]] ELSE Undef

(* Fault: the next block is entered where this one was left.                *)
ExecTerminatorHere(k) ==
  /\ running /\ pos = Len(fn.insts[at])
  /\ Takes(k) /\ \A j \in 1..(k - 1) : ~Takes(j)
  /\ env' = [v \in Value |-> Passed(k, v)]
  /\ at' = Target(at, k)
  /\ UNCHANGED <<vars, pos, running>>

(* The terminator: the first edge whose guard holds.  All the parameters    *)
(* are assigned at once, from the values the arguments had before.          *)
ExecTerminator(k) ==
  /\ running
  /\ pos = Len(fn.insts[at])
  /\ Takes(k)
  /\ \A j \in 1..(k - 1) : ~Takes(j)
  /\ env' = [v \in Value |-> Passed(k, v)]
  /\ at' = Target(at, k)
  /\ pos' = 0
  /\ UNCHANGED <<vars, running>>

Execute == ExecInst \/ \E k \in DOMAIN fn.succs[at] : ExecTerminator(k)

SoundNext == Analyse \/ Start \/ Execute

SoundSpec == SoundInit /\ [][SoundNext]_allVars

-----------------------------------------------------------------------------

SoundTypeOK ==
  /\ TypeOK
  /\ env \in [Value -> Concrete \union {Undef}]
  /\ at \in Block
  /\ pos \in 0..Len(fn.insts[at])
  /\ running \in BOOLEAN
  /\ running => Done

(* The dataflow equations as inequalities, for a result s: a value for every *)
(* SSA value and a set of executable blocks.                                *)

Seeds == [v \in Value |-> Seed(v)]

Computes(s, v) == Transfer(fn.op[v], [j \in DOMAIN fn.ops[v] |-> s.vals[fn.ops[v][j]]])

Admits(s, b, k) ==
  LET guard == fn.succs[b][k].guard
  IN  guard = Always \/ Feasible(s.vals[fn.cond[b]], guard)

Offers(s, b, k, i) ==
  LET args == fn.succs[b][k].args
  IN  IF i \in DOMAIN args THEN s.vals[args[i]] ELSE Top

Solves(s) ==
  /\ s \in [vals : [Value -> Elem], exec : SUBSET Block]
  /\ fn.entry \in s.exec
  /\ \A v \in Value : Leq(Seeds[v], s.vals[v])
  /\ \A b \in s.exec :
       /\ \A i \in DOMAIN fn.insts[b] :
            Leq(Computes(s, fn.insts[b][i]), s.vals[fn.insts[b][i]])
       /\ \A k \in DOMAIN fn.succs[b] : Admits(s, b, k) =>
            /\ Target(b, k) \in s.exec
            /\ \A i \in DOMAIN fn.params[Target(b, k)] :
                 Leq(Offers(s, b, k, i), s.vals[fn.params[Target(b, k)][i]])

(* Widening loses nothing: it happens nowhere, or is the default, a join.   *)
WidenIsLeast ==
  \A x, y, z \in Elem : Leq(x, z) /\ Leq(y, z) => Leq(Widen(x, y), z)

WidensExactly == fn.header = {} \/ WidenIsLeast

-----------------------------------------------------------------------------

(* The sparse worklist order neither misses nor invents a fact: what the    *)
(* engine returns solves the equations, and nothing that solves them claims *)
(* more, as long as widening loses nothing.                                 *)
LeastFixpoint ==
  Done /\ ~running =>
    /\ Solves([vals |-> vals, exec |-> block_exec])
    /\ WidensExactly => \A s \in Rivals(fn, Seeds) : Solves(s) =>
         /\ block_exec \subseteq s.exec
         /\ \A v \in Value : Leq(vals[v], s.vals[v])

(* Control is only ever in a block the engine proved executable.            *)
ReachSound == running => at \in block_exec

(* A value at run time is one its abstract value stands for.                *)
ValuesSound ==
  running => \A v \in Value : env[v] # Undef => env[v] \in Gamma(vals[v])

(* Control is only ever transferred along an edge marked executable.        *)
EdgesSound ==
  [][\A k \in DOMAIN fn.succs[at] : ExecTerminator(k) => <<at, k>> \in edge_exec]_allVars
===============================================================================
