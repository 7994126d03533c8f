--------------------------------- MODULE Rewrite ------------------------------
(***************************************************************************)
(* The optimization pipeline at work (src/src/transform/pipeline.rs): a    *)
(* function is analysed and rewritten, and the function it was and the one *)
(* it has become are executed side by side on the same arguments.  The old *)
(* one leads; a result that may be anything, as a call's, is the same for  *)
(* both.  Only the slots mem2reg may promote have a memory: nothing else   *)
(* can tell what a load returns.                                           *)
(***************************************************************************)
EXTENDS SolverSound, Sccp, SimplifyCfg, Dce, Licm, Mem2Reg

CONSTANTS
  NoBody,
  PoisonValue             \* what an operand that was never emitted holds

VARIABLES
  out,                    \* the rewritten function
  env2, at2,              \* its execution: the values, and the block
  memory                  \* what the slots of the old function hold

rewriteVars == <<allVars, out, env2, at2, memory>>

RewriteInit ==
  /\ SoundInit
  /\ out = NoBody /\ env2 = [v \in {} |-> Undef] /\ at2 = fn.entry
  /\ memory = [a \in {} |-> Undef]

(* What the passes make of a body: the clean-up group of -O2, which ends    *)
(* with licm, without its e-graph, and passes of it alone.  What the engine *)
(* returned is about the function as it was before mem2reg.                 *)
Optimized(body) ==
  LET folded == IF body.promoted = {} THEN SccpWith(body, Analysis) ELSE body
      cleaned == DceOf(SimplifyCfgOf(folded))
  IN  {folded, SimplifyCfgOf(body), cleaned, LicmOf(body), LicmOf(cleaned)}

(* sccp solves without hooks; a function that is seeded is for others.  A   *)
(* pass whose assertion fails rewrites nothing.                             *)
Optimizable == Verified(fn) /\ DOMAIN fn.hook = {} /\ Placed(fn, Analysis)

Optimize ==
  /\ Done /\ ~running /\ out = NoBody
  /\ \E body \in {BodyOf(fn), Mem2RegOf(BodyOf(fn))} :
       out' \in IF Optimizable THEN Optimized(body) ELSE {BodyOf(fn)}
  /\ memory' = [a \in Slots(BodyOf(fn)) |-> PoisonValue]
  /\ UNCHANGED <<allVars, env2, at2>>

(* A literal put in by a pass holds what it denotes.                        *)
Starts ==
  /\ out # NoBody
  /\ Start
  /\ env2' = env' @@ [n \in DOMAIN out.def \ Value |->
                        IF out.def[n] = "const" THEN CHOOSE c \in Denotes(out.lit[n]) : TRUE
                        ELSE Undef]
  /\ UNCHANGED <<out, at2, memory>>

Read(values, v) == IF v = Stray THEN PoisonValue ELSE values[v]

Operands2(values, v) == [i \in DOMAIN out.ops[v] |-> Read(values, out.ops[v][i])]

(* The results of a rewritten instruction; none if undefined.               *)
Results2(values, v) ==
  LET ops == Operands2(values, v)
  IN  IF Undef \in Elements(ops) THEN {} ELSE Eval(out.op[v], ops)

(* A result is that of the old instruction, r, if it may be.                *)
Result2(v, r) ==
  LET results == Results2(env2, v)
  IN  IF r \in results THEN r
      ELSE IF results = {} THEN Undef ELSE CHOOSE x \in results : TRUE

Preheader(b) == SubSeq(out.insts[b], 1, out.ahead[b])
Emitted(b) == Elements(out.insts[b]) \ Elements(Preheader(b))
Moved == UNION {Elements(Preheader(b)) : b \in Block}

(* What instruction v leaves in the slots: a fresh slot holds poison.       *)
MemoryAfter(v) ==
  IF v \in DOMAIN memory THEN [memory EXCEPT ![v] = PoisonValue]
  ELSE IF Stores(fn.op[v]) /\ fn.ops[v][1] \in DOMAIN memory
       THEN [memory EXCEPT ![fn.ops[v][1]] = env[fn.ops[v][2]]]
  ELSE memory

ExecBoth ==
  /\ ExecInst
  /\ LET v == fn.insts[at][pos + 1]
     IN  /\ Loads(fn.op[v]) /\ fn.ops[v][1] \in DOMAIN memory => env'[v] = memory[fn.ops[v][1]]
         /\ memory' = MemoryAfter(v)
         /\ env2' = IF v \in Emitted(at2) THEN [env2 EXCEPT ![v] = Result2(v, env'[v])] ELSE env2
  /\ UNCHANGED <<out, at2>>

Takes2(k) ==
  LET guard == out.succs[at2][k].guard
      c == Read(env2, out.cond[at2])
  IN  guard # Always => c # Undef /\ Satisfies(c, guard)

(* The edges the rewritten function takes out of the block: one, or none.   *)
Taken2 == {k \in DOMAIN out.succs[at2] : Takes2(k) /\ \A j \in 1..(k - 1) : ~Takes2(j)}

Passed2(values, e, v) ==
  LET params == out.params[e.to]
  IN  IF v \notin Elements(params) THEN values[v]
      ELSE LET i == CHOOSE n \in DOMAIN params : params[n] = v
           IN  IF i \in DOMAIN e.args THEN Read(values, e.args[i]) ELSE Undef

(* The values after the preheader of b, if an edge to b enters its loop.    *)
Entering(b) ==
  LET Run(all, v) ==
        UNION {{[values EXCEPT ![v] = r] :
                  r \in IF Results2(values, v) = {} THEN {Undef} ELSE Results2(values, v)} :
               values \in all}
  IN  IF at2 \in out.inside[b] THEN {env2} ELSE FoldLeft(Run, {env2}, Preheader(b))

(* The old function leaves a block.  The rewritten one leaves its own if    *)
(* that ends there, and stays in it if the next was spliced into it, or     *)
(* while the old one passes through a block that is bypassed.               *)
TransferBoth(k) ==
  /\ ExecTerminator(k)
  /\ IF at # out.tail[at2] THEN UNCHANGED <<env2, at2>>
     ELSE IF Taken2 = {} THEN env2' = [v \in DOMAIN env2 |-> Undef] /\ UNCHANGED at2
     ELSE LET e == out.succs[at2][CHOOSE j \in Taken2 : TRUE]
          IN  /\ \E values \in Entering(e.to) :
                   env2' = [v \in DOMAIN env2 |-> Passed2(values, e, v)]
              /\ at2' = e.to
  /\ UNCHANGED <<out, memory>>

RewriteNext ==
  \/ Analyse /\ UNCHANGED <<out, env2, at2, memory>>
  \/ Optimize
  \/ Starts
  \/ ExecBoth
  \/ \E k \in DOMAIN fn.succs[at] : TransferBoth(k)

RewriteSpec == RewriteInit /\ [][RewriteNext]_rewriteVars

-----------------------------------------------------------------------------

(* Promoting a slot that is allocated again may turn a poison value into    *)
(* one that it held before.                                                 *)
Agrees(new, old) == new = old \/ (out.promoted # {} /\ old = PoisonValue /\ new # Undef)

Alive(v) == \E b \in out.blocks : v \in Elements(out.params[b]) \union Elements(out.insts[b])

(* Whatever a pass leaves in the function still has the value it had: an    *)
(* instruction or parameter that is kept, a value that was folded to a      *)
(* literal, and an instruction that was hoisted, once the old function has  *)
(* come to it; a parameter made for a slot has what is in the slot; and     *)
(* nothing that was hoisted is undefined.  (The passes' documentation: the  *)
(* result refines the function; here it has no other values at all but for  *)
(* poison, and no more undefined behaviour.)                                *)
ValuesKept ==
  running =>
    /\ at \notin out.bypassed => \A v \in Value :
         /\ env[v] # Undef /\ Alive(v) /\ (v \in Moved => \E i \in 1..pos : fn.insts[at][i] = v) =>
              Agrees(env2[v], env[v])
         /\ env[v] # Undef /\ Name(v) \in DOMAIN out.def => env2[Name(v)] = env[v]
    /\ at = at2 /\ pos = 0 => \A a \in out.promoted :
         Phi(a, at) \in Elements(out.params[at]) => Agrees(env2[Phi(a, at)], memory[a])
    /\ \A b \in Block : at2 \in out.inside[b] => \A v \in Elements(Preheader(b)) : env2[v] # Undef

(* What can be seen of an execution is the same in both functions: an       *)
(* instruction with a side effect, except on a slot that was promoted, is   *)
(* executed in the same place with the same operands, and the same value is *)
(* returned.                                                                *)
ObservablesKept ==
  running =>
    IF pos < Len(fn.insts[at])
    THEN LET v == fn.insts[at][pos + 1]
         IN  SideEffect(fn.op[v]) /\ out.promoted \intersect ({v} \union Elements(fn.ops[v])) = {} =>
               /\ v \in Emitted(at2)
               /\ \A i \in DOMAIN fn.ops[v] :
                    Agrees(Operands2(env2, v)[i], ConcreteOperands(v)[i])
    ELSE fn.succs[at] = <<>> =>
           /\ at2 \in out.blocks \ out.stops /\ out.succs[at2] = <<>>
           /\ at = out.tail[at2] /\ Agrees(Read(env2, out.cond[at2]), env[fn.cond[at]])

(* remap_value (transform/mod.rs): poison stands in for an operand that is  *)
(* not there yet in unreachable code only.                                  *)
NoStrays ==
  out # NoBody => \A b \in Reachable(out) :
    /\ b \in out.blocks
    /\ Stray \notin TermReads(out, b)
    /\ \A i \in DOMAIN out.insts[b] : Stray \notin Elements(out.ops[out.insts[b][i]])
    /\ \A e \in Elements(out.succs[b]) : Stray \notin Elements(e.args)
===============================================================================
