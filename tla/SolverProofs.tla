------------------------------ MODULE SolverProofs ----------------------------
(***************************************************************************)
(* Proofs about the fixpoint engine, for every domain that satisfies the   *)
(* laws of AbstractDomain and every set of well-formed functions: its      *)
(* state is well-typed, it returns a post-fixpoint and never withdraws a   *)
(* fact.  And for every domain that satisfies SoundnessAssumption its result *)
(* is sound: no execution of the analysed function computes a value, or      *)
(* takes an edge, that the result excludes.                                  *)
(*                                                                         *)
(* WorklistInvariant is inductive.  Its proof goes through Effects: what   *)
(* one step does to every piece of scheduled work, said once for all the   *)
(* actions.  Each part of the invariant then follows from Effects without  *)
(* looking at the actions again.                                           *)
(***************************************************************************)
EXTENDS SolverSound, SequenceTheorems, TLAPS

-----------------------------------------------------------------------------
(* Sequences and what they contain.                                         *)

LEMMA ElementsCons ==
  ASSUME NEW S, NEW s \in Seq(S), NEW x \in S
  PROVE  /\ <<x>> \o s \in Seq(S)
         /\ Elements(<<x>> \o s) = {x} \union Elements(s)
<1>1. <<x>> \o s \in Seq(S)
  OBVIOUS
<1>2. Len(<<x>> \o s) = 1 + Len(s)
  OBVIOUS
<1>3. (<<x>> \o s)[1] = x /\ \A i \in 1..Len(s) : (<<x>> \o s)[i + 1] = s[i]
  OBVIOUS
<1>4. ASSUME NEW y \in Elements(<<x>> \o s) PROVE y \in {x} \union Elements(s)
  <2>1. PICK i \in 1..(1 + Len(s)) : y = (<<x>> \o s)[i]
    BY <1>2 DEF Elements
  <2>2. CASE i = 1
    BY <2>1, <2>2, <1>3
  <2>3. CASE i # 1
    <3>1. i - 1 \in 1..Len(s) /\ (i - 1) + 1 = i
      BY <2>3
    <3>2. y = s[i - 1]
      BY <2>1, <3>1, <1>3
    <3> QED BY <3>1, <3>2 DEF Elements
  <2> QED BY <2>2, <2>3
<1>5. ASSUME NEW y \in Elements(s) PROVE y \in Elements(<<x>> \o s)
  <2>1. PICK i \in 1..Len(s) : y = s[i]
    BY DEF Elements
  <2>2. i + 1 \in DOMAIN (<<x>> \o s) /\ (<<x>> \o s)[i + 1] = y
    BY <2>1, <1>2, <1>3
  <2> QED BY <2>2 DEF Elements
<1>6. x \in Elements(<<x>> \o s)
  <2>1. 1 \in DOMAIN (<<x>> \o s) /\ (<<x>> \o s)[1] = x
    BY <1>2, <1>3
  <2> QED BY <2>1 DEF Elements
<1> QED BY <1>1, <1>4, <1>5, <1>6

LEMMA ElementsTail ==
  ASSUME NEW S, NEW s \in Seq(S), s # <<>>
  PROVE  /\ Head(s) \in S /\ Tail(s) \in Seq(S)
         /\ Elements(s) = {Head(s)} \union Elements(Tail(s))
<1>1. s = <<Head(s)>> \o Tail(s) /\ Head(s) \in S /\ Tail(s) \in Seq(S)
  OBVIOUS
<1> QED BY <1>1, ElementsCons

LEMMA ElementsConcat ==
  ASSUME NEW S, NEW s \in Seq(S), NEW t \in Seq(S)
  PROVE  /\ s \o t \in Seq(S)
         /\ Elements(s \o t) = Elements(s) \union Elements(t)
<1>1. Len(s \o t) = Len(s) + Len(t) /\ s \o t \in Seq(S)
  OBVIOUS
<1>2. \A i \in 1..Len(s) : (s \o t)[i] = s[i]
  OBVIOUS
<1>3. \A i \in 1..Len(t) : (s \o t)[Len(s) + i] = t[i]
  OBVIOUS
<1>4. ASSUME NEW y \in Elements(s \o t) PROVE y \in Elements(s) \union Elements(t)
  <2>1. PICK i \in 1..(Len(s) + Len(t)) : y = (s \o t)[i]
    BY <1>1 DEF Elements
  <2>2. CASE i <= Len(s)
    <3>1. i \in 1..Len(s)
      BY <2>2
    <3> QED BY <2>1, <3>1, <1>2 DEF Elements
  <2>3. CASE i > Len(s)
    <3>1. i - Len(s) \in 1..Len(t) /\ Len(s) + (i - Len(s)) = i
      BY <2>3
    <3>2. y = t[i - Len(s)]
      BY <2>1, <3>1, <1>3
    <3> QED BY <3>1, <3>2 DEF Elements
  <2> QED BY <2>2, <2>3
<1>5. Elements(s) \subseteq Elements(s \o t)
  BY <1>1, <1>2 DEF Elements
<1>6. ASSUME NEW y \in Elements(t) PROVE y \in Elements(s \o t)
  <2>1. PICK i \in 1..Len(t) : y = t[i]
    BY DEF Elements
  <2>2. Len(s) + i \in DOMAIN (s \o t) /\ (s \o t)[Len(s) + i] = y
    BY <2>1, <1>1, <1>3
  <2> QED BY <2>2 DEF Elements
<1> QED BY <1>1, <1>4, <1>5, <1>6

LEMMA ElementsMember ==
  ASSUME NEW S, NEW s \in Seq(S)
  PROVE  Elements(s) \subseteq S
BY DEF Elements

-----------------------------------------------------------------------------
(* Types.                                                                   *)

LEMMA FunctionShape ==
  ASSUME WellFormed(fn)
  PROVE  /\ fn.entry \in Block
         /\ fn.def \in [Value -> {"const", "addr", "param", "inst"}]
         /\ fn.params \in [Block -> Seq(Value)]
         /\ fn.insts \in [Block -> Seq(Value)]
         /\ fn.op \in [Value -> Opcode]
         /\ fn.ops \in [Value -> Seq(Value)]
         /\ fn.cond \in [Block -> Value]
         /\ fn.succs \in [Block -> Seq(Edge)]
         /\ fn.uses \in [Value -> Seq(Use)]
BY DEF WellFormed, Shape

LEMMA SeedType ==
  ASSUME WellFormed(fn), NEW v \in Value
  PROVE  Seed(v) \in Elem
BY ElementAssumption DEF WellFormed, Shape, Seed

LEMMA EdgeType ==
  ASSUME WellFormed(fn), NEW b \in Block, NEW k \in DOMAIN fn.succs[b]
  PROVE  /\ Target(b, k) \in Block
         /\ fn.succs[b][k].args \in Seq(Value)
         /\ fn.succs[b][k].guard \in Guard \union {Always}
<1>1. fn.succs[b] \in Seq(Edge)
  BY FunctionShape
<1>2. fn.succs[b][k] \in Edge
  BY <1>1
<1> QED BY <1>2 DEF Edge, Target

LEMMA ParamType ==
  ASSUME WellFormed(fn), NEW b \in Block, NEW i \in DOMAIN fn.params[b]
  PROVE  fn.params[b][i] \in Value /\ fn.def[fn.params[b][i]] = "param"
<1>1. fn.params[b] \in Seq(Value)
  BY FunctionShape
<1> QED BY <1>1 DEF WellFormed, SingleDef

LEMMA InstType ==
  ASSUME WellFormed(fn), NEW b \in Block, NEW i \in DOMAIN fn.insts[b]
  PROVE  fn.insts[b][i] \in Value /\ fn.def[fn.insts[b][i]] = "inst"
<1>1. fn.insts[b] \in Seq(Value)
  BY FunctionShape
<1> QED BY <1>1 DEF WellFormed, SingleDef

LEMMA OperandsType ==
  ASSUME WellFormed(fn), vals \in [Value -> Elem],
         NEW v \in Value, fn.def[v] = "inst"
  PROVE  /\ fn.op[v] \in Opcode
         /\ fn.ops[v] \in Seq(Value)
         /\ DOMAIN fn.ops[v] = 1..Arity[fn.op[v]]
         /\ Operands(v) \in OperandLists(fn.op[v], Elem)
         /\ Result(v) \in Elem
<1>1. fn.op[v] \in Opcode /\ fn.ops[v] \in Seq(Value)
  BY FunctionShape
<1>2. Len(fn.ops[v]) = Arity[fn.op[v]]
  BY DEF WellFormed, Shape
<1>3. DOMAIN fn.ops[v] = 1..Arity[fn.op[v]]
  BY <1>1, <1>2
<1>4. \A i \in DOMAIN fn.ops[v] : fn.ops[v][i] \in Value
  BY <1>1
<1>5. Operands(v) \in OperandLists(fn.op[v], Elem)
  BY <1>3, <1>4 DEF Operands, OperandLists
<1>6. Result(v) \in Elem
  BY <1>1, <1>5, ElementAssumption DEF Result
<1> QED BY <1>1, <1>3, <1>5, <1>6

LEMMA OfferedType ==
  ASSUME WellFormed(fn), vals \in [Value -> Elem],
         NEW b \in Block, NEW k \in DOMAIN fn.succs[b], NEW i
  PROVE  Offered(b, k, i) \in Elem
<1>1. fn.succs[b][k].args \in Seq(Value)
  BY EdgeType
<1>2. i \in DOMAIN fn.succs[b][k].args => fn.succs[b][k].args[i] \in Value
  BY <1>1
<1> QED BY <1>2, ElementAssumption DEF Offered

(* The calls handlers make are calls.                                       *)
LEMMA CallTypes ==
  ASSUME WellFormed(fn)
  PROVE  /\ \A v \in Value : InstCall(v) \in Call /\ fn.uses[v] \in Seq(Call)
         /\ \A b \in Block : TermCall(b) \in Call /\ MarkCall(b) \in Call
         /\ \A b \in Block : \A left \in SUBSET DOMAIN fn.succs[b] : EdgesCall(b, left) \in Call
         /\ \A b \in Block : \A k \in DOMAIN fn.succs[b] :
              \A i \in DOMAIN fn.params[Target(b, k)] : ParamCall(b, k, i) \in Call
<1>1. Use \subseteq Call
  BY DEF Call
<1>2. \A v \in Value : fn.uses[v] \in Seq(Use)
  BY FunctionShape
<1>3. \A v \in Value : fn.uses[v] \in Seq(Call)
  BY <1>1, <1>2, SeqMonotonic
<1>4. \A v \in Value : InstCall(v) \in Call
  BY <1>1 DEF Use
<1>5. \A b \in Block : TermCall(b) \in Call /\ MarkCall(b) \in Call
  BY <1>1 DEF Use, Call
<1>6. \A b \in Block : \A left \in SUBSET DOMAIN fn.succs[b] : EdgesCall(b, left) \in Call
  BY DEF Call
<1>7. ASSUME NEW b \in Block, NEW k \in DOMAIN fn.succs[b],
             NEW i \in DOMAIN fn.params[Target(b, k)]
      PROVE  ParamCall(b, k, i) \in Call
  <2>1. ParamCall(b, k, i) \in ParamCalls(b)
    BY DEF ParamCalls
  <2> QED BY <2>1 DEF Call
<1> QED BY <1>3, <1>4, <1>5, <1>6, <1>7

(* The list of calls a handler makes, in terms of what it contains.         *)
LEMMA InstCalls ==
  ASSUME WellFormed(fn), NEW b \in Block
  PROVE  LET calls == [i \in DOMAIN fn.insts[b] |-> InstCall(fn.insts[b][i])]
         IN  /\ calls \in Seq(Call)
             /\ Elements(calls) = {InstCall(fn.insts[b][i]) : i \in DOMAIN fn.insts[b]}
<1> DEFINE calls == [i \in DOMAIN fn.insts[b] |-> InstCall(fn.insts[b][i])]
<1>1. fn.insts[b] \in Seq(Value)
  BY FunctionShape
<1>2. \A i \in DOMAIN fn.insts[b] : fn.insts[b][i] \in Value
  BY <1>1
<1>3. \A i \in DOMAIN fn.insts[b] : InstCall(fn.insts[b][i]) \in Call
  BY <1>2, CallTypes
<1>4. DOMAIN fn.insts[b] = 1..Len(fn.insts[b]) /\ Len(fn.insts[b]) \in Nat
  BY <1>1
<1>5. calls \in Seq(Call)
  BY <1>3, <1>4
<1>6. Elements(calls) = {InstCall(fn.insts[b][i]) : i \in DOMAIN fn.insts[b]}
  BY DEF Elements
<1> QED BY <1>5, <1>6

LEMMA ParamCallList ==
  ASSUME WellFormed(fn), NEW b \in Block, NEW k \in DOMAIN fn.succs[b]
  PROVE  LET calls == [i \in DOMAIN fn.params[Target(b, k)] |-> ParamCall(b, k, i)]
         IN  /\ calls \in Seq(Call)
             /\ Elements(calls) = {ParamCall(b, k, i) : i \in DOMAIN fn.params[Target(b, k)]}
<1> DEFINE calls == [i \in DOMAIN fn.params[Target(b, k)] |-> ParamCall(b, k, i)]
<1>1. fn.params[Target(b, k)] \in Seq(Value)
  BY FunctionShape, EdgeType
<1>2. /\ DOMAIN fn.params[Target(b, k)] = 1..Len(fn.params[Target(b, k)])
      /\ Len(fn.params[Target(b, k)]) \in Nat
  BY <1>1
<1>3. \A i \in DOMAIN fn.params[Target(b, k)] : ParamCall(b, k, i) \in Call
  BY CallTypes
<1>4. calls \in Seq(Call)
  BY <1>2, <1>3
<1>5. Elements(calls) = {ParamCall(b, k, i) : i \in DOMAIN fn.params[Target(b, k)]}
  BY DEF Elements
<1> QED BY <1>4, <1>5

(* What is left to do after each action that makes calls.                   *)
LEMMA PopBlockTodo ==
  ASSUME TypeOK, PopBlock
  PROVE  /\ Head(block_wl) \in Block
         /\ todo' \in Seq(Call)
         /\ Elements(todo') = {InstCall(fn.insts[Head(block_wl)][i]) :
                                 i \in DOMAIN fn.insts[Head(block_wl)]}
                              \union {TermCall(Head(block_wl))}
<1> DEFINE b == Head(block_wl)
           calls == [i \in DOMAIN fn.insts[b] |-> InstCall(fn.insts[b][i])]
           last == <<TermCall(b)>>
<1>1. b \in Block /\ WellFormed(fn)
  BY DEF TypeOK, PopBlock
<1>2. calls \in Seq(Call) /\ Elements(calls) = {InstCall(fn.insts[b][i]) : i \in DOMAIN fn.insts[b]}
  BY <1>1, InstCalls
<1>3. last \in Seq(Call) /\ Elements(last) = {TermCall(b)}
  <2>1. TermCall(b) \in Call
    BY <1>1, CallTypes
  <2> QED BY <2>1 DEF Elements
<1>4. todo' = calls \o last
  BY DEF PopBlock
<1> HIDE DEF calls, last
<1>5. todo' \in Seq(Call) /\ Elements(todo') = Elements(calls) \union Elements(last)
  BY <1>2, <1>3, <1>4, ElementsConcat
<1> QED BY <1>1, <1>2, <1>3, <1>5

LEMMA TakeEdgeTodo ==
  ASSUME TypeOK, NEW b \in Block, NEW k \in DOMAIN fn.succs[b], TakeEdge(b, k)
  PROVE  /\ todo' \in Seq(Call)
         /\ \E left \in SUBSET DOMAIN fn.succs[b] :
              /\ Head(todo) = EdgesCall(b, left)
              /\ k \in left
              /\ Elements(todo') =
                   {ParamCall(b, k, i) : i \in DOMAIN fn.params[Target(b, k)]}
                   \union {MarkCall(Target(b, k)), EdgesCall(b, left \ {k})}
                   \union Elements(Tail(todo))
<1>1. WellFormed(fn) /\ todo \in Seq(Call) /\ todo # <<>>
  BY DEF TypeOK, TakeEdge
<1>2. PICK left \in SUBSET DOMAIN fn.succs[b] :
        /\ Head(todo) = EdgesCall(b, left)
        /\ k \in left
        /\ todo' = [i \in DOMAIN fn.params[Target(b, k)] |-> ParamCall(b, k, i)]
                     \o <<MarkCall(Target(b, k)), EdgesCall(b, left \ {k})>>
                     \o Tail(todo)
  BY DEF TakeEdge
<1> DEFINE calls == [i \in DOMAIN fn.params[Target(b, k)] |-> ParamCall(b, k, i)]
           last == <<MarkCall(Target(b, k)), EdgesCall(b, left \ {k})>>
<1>3. /\ calls \in Seq(Call)
      /\ Elements(calls) = {ParamCall(b, k, i) : i \in DOMAIN fn.params[Target(b, k)]}
  BY <1>1, ParamCallList
<1>4. last \in Seq(Call) /\ Elements(last) = {MarkCall(Target(b, k)), EdgesCall(b, left \ {k})}
  <2>1. Target(b, k) \in Block
    BY <1>1, EdgeType
  <2>2. MarkCall(Target(b, k)) \in Call /\ EdgesCall(b, left \ {k}) \in Call
    BY <1>1, <2>1, CallTypes
  <2> QED BY <2>2 DEF Elements
<1>5. Tail(todo) \in Seq(Call)
  BY <1>1
<1>6. todo' = (calls \o last) \o Tail(todo)
  BY <1>2
<1> DEFINE front == calls \o last
           rest == Tail(todo)
<1> HIDE DEF calls, last
<1>7. front \in Seq(Call) /\ Elements(front) = Elements(calls) \union Elements(last)
  BY <1>3, <1>4, ElementsConcat
<1>8. todo' = front \o rest /\ rest \in Seq(Call)
  BY <1>5, <1>6
<1> HIDE DEF front, rest
<1>9. front \o rest \in Seq(Call) /\ Elements(front \o rest) = Elements(front) \union Elements(rest)
  BY <1>7, <1>8, ElementsConcat
<1>10. todo' \in Seq(Call) /\ Elements(todo') = Elements(calls) \union Elements(last) \union Elements(Tail(todo))
  BY <1>7, <1>8, <1>9 DEF rest
<1> QED BY <1>2, <1>3, <1>4, <1>10

LEMMA VisitTerminatorTodo ==
  ASSUME TypeOK, NEW b \in Block, VisitTerminator(b)
  PROVE  /\ todo' \in Seq(Call)
         /\ Elements(todo') =
              {EdgesCall(b, {k \in DOMAIN fn.succs[b] : EdgeFeasible(b, k)})}
              \union Elements(Tail(todo))
<1> DEFINE feasible == {k \in DOMAIN fn.succs[b] : EdgeFeasible(b, k)}
<1>1. WellFormed(fn) /\ Tail(todo) \in Seq(Call)
  BY DEF TypeOK, VisitTerminator
<1>2. todo' = <<EdgesCall(b, feasible)>> \o Tail(todo)
  BY DEF VisitTerminator
<1>3. EdgesCall(b, feasible) \in Call
  BY <1>1, CallTypes
<1> HIDE DEF feasible
<1>4. todo' \in Seq(Call) /\ Elements(todo') = {EdgesCall(b, feasible)} \union Elements(Tail(todo))
  BY <1>1, <1>2, <1>3, ElementsCons
<1> QED BY <1>4 DEF feasible

(* Update changes one value, and schedules it when it does.                 *)
LEMMA UpdateEffect ==
  ASSUME TypeOK, NEW v \in Value, NEW new \in Elem, Update(v, new)
  PROVE  /\ vals' = [vals EXCEPT ![v] = new]
         /\ vals' \in [Value -> Elem]
         /\ ssa_wl' \in Seq(Value)
         /\ Elements(ssa_wl) \subseteq Elements(ssa_wl')
         /\ vals'[v] # vals[v] => v \in Elements(ssa_wl')
<1>1. vals \in [Value -> Elem] /\ ssa_wl \in Seq(Value)
  BY DEF TypeOK
<1>2. CASE new # vals[v]
  <2>1. vals' = [vals EXCEPT ![v] = new] /\ ssa_wl' = <<v>> \o ssa_wl
    BY <1>2 DEF Update
  <2>2. ssa_wl' \in Seq(Value) /\ Elements(ssa_wl') = {v} \union Elements(ssa_wl)
    BY <1>1, <2>1, ElementsCons
  <2> QED BY <1>1, <2>1, <2>2
<1>3. CASE new = vals[v]
  <2>1. vals' = vals /\ ssa_wl' = ssa_wl
    BY <1>3 DEF Update
  <2> QED BY <1>1, <1>3, <2>1
<1> QED BY <1>2, <1>3
-----------------------------------------------------------------------------
(* The first call left is a call, and dropping it keeps the others.         *)
LEMMA HeadTodo ==
  ASSUME TypeOK, todo # <<>>
  PROVE  /\ Head(todo) \in Call /\ Tail(todo) \in Seq(Call)
         /\ Elements(todo) = {Head(todo)} \union Elements(Tail(todo))
BY ElementsTail DEF TypeOK

(* The instruction a step visits is an instruction of an executable block.  *)
LEMMA VisitInstType ==
  ASSUME TypeOK, NEW v \in Value, VisitInst(v)
  PROVE  fn.def[v] = "inst" /\ Result(v) \in Elem /\ Update(v, Result(v))
<1>1. PICK b \in block_exec : v \in Elements(fn.insts[b])
  BY DEF VisitInst, InstExecutable
<1>2. b \in Block /\ WellFormed(fn) /\ vals \in [Value -> Elem]
  BY <1>1 DEF TypeOK
<1>3. fn.def[v] = "inst"
  BY <1>1, <1>2, InstType DEF Elements
<1>4. Result(v) \in Elem
  BY <1>2, <1>3, OperandsType
<1> QED BY <1>3, <1>4 DEF VisitInst

(* A parameter is updated to an element above its own and the offered one.  *)
LEMMA UpdateParamEffect ==
  ASSUME TypeOK, NEW b \in Block, NEW k \in DOMAIN fn.succs[b],
         NEW i \in DOMAIN fn.params[Target(b, k)], UpdateParam(b, k, i)
  PROVE  /\ fn.params[Target(b, k)][i] \in Value
         /\ fn.def[fn.params[Target(b, k)][i]] = "param"
         /\ \E new \in Elem :
              /\ Update(fn.params[Target(b, k)][i], new)
              /\ Leq(vals[fn.params[Target(b, k)][i]], new)
              /\ Leq(Offered(b, k, i), new)
<1> DEFINE param == fn.params[Target(b, k)][i]
           joined == Join(vals[param], Offered(b, k, i))
           new == IF Target(b, k) \in fn.header THEN Widen(vals[param], joined) ELSE joined
<1>1. WellFormed(fn) /\ vals \in [Value -> Elem]
  BY DEF TypeOK
<1>2. Target(b, k) \in Block
  BY <1>1, EdgeType
<1>3. param \in Value /\ fn.def[param] = "param"
  BY <1>1, <1>2, ParamType
<1>4. vals[param] \in Elem /\ Offered(b, k, i) \in Elem
  BY <1>1, <1>3, OfferedType
<1>5. /\ joined \in Elem
      /\ Leq(vals[param], joined) /\ Leq(Offered(b, k, i), joined)
  BY <1>4, ElementAssumption, OrderAssumption
<1>6. Update(param, new)
  BY DEF UpdateParam
<1> HIDE DEF param, joined
<1>7. CASE Target(b, k) \in fn.header
  <2>1. new = Widen(vals[param], joined) /\ new \in Elem
    BY <1>4, <1>5, <1>7, ElementAssumption
  <2>2. Leq(vals[param], new) /\ Leq(joined, new)
    BY <2>1, <1>4, <1>5, OrderAssumption
  <2>3. Leq(Offered(b, k, i), new)
    BY <2>1, <2>2, <1>4, <1>5, OrderAssumption
  <2> QED BY <1>3, <1>6, <2>1, <2>2, <2>3 DEF param
<1>8. CASE Target(b, k) \notin fn.header
  <2>1. new = joined
    BY <1>8
  <2> QED BY <1>3, <1>5, <1>6, <2>1 DEF param
<1> QED BY <1>7, <1>8

-----------------------------------------------------------------------------
(* Type correctness.                                                        *)

LEMMA InitType == Init => TypeOK
<1> SUFFICES ASSUME Init PROVE TypeOK
  OBVIOUS
<1>1. WellFormed(fn)
  BY FunctionAssumption DEF Init
<1>2. vals \in [Value -> Elem]
  BY <1>1, SeedType DEF Init
<1>3. fn.entry \in Block
  BY <1>1, FunctionShape
<1> QED BY <1>1, <1>2, <1>3 DEF Init, TypeOK

(* Call does not depend on anything a step changes.                         *)
LEMMA CallConstant == fn' = fn => Call' = Call
BY DEF Call, Use, ParamCalls, Target, InstCall, TermCall, EdgesCall, ParamCall, MarkCall

LEMMA StepType == TypeOK /\ Step => TypeOK'
<1> SUFFICES ASSUME TypeOK, Step PROVE TypeOK'
  OBVIOUS
<1>1. /\ WellFormed(fn) /\ vals \in [Value -> Elem] /\ block_exec \subseteq Block
      /\ \A e \in edge_exec : \E b \in Block : \E k \in DOMAIN fn.succs[b] : e = <<b, k>>
      /\ block_wl \in Seq(Block) /\ ssa_wl \in Seq(Value) /\ todo \in Seq(Call)
  BY DEF TypeOK
<1> DEFINE Typed ==
      /\ fn' = fn
      /\ vals' \in [Value -> Elem] /\ block_exec' \subseteq Block
      /\ \A e \in edge_exec' : \E b \in Block : \E k \in DOMAIN fn.succs[b] : e = <<b, k>>
      /\ block_wl' \in Seq(Block) /\ ssa_wl' \in Seq(Value) /\ todo' \in Seq(Call)
<1>2. SUFFICES Typed
  <2>1. fn' = fn => WellFormed(fn')
    BY <1>1
  <2> QED BY <2>1, CallConstant DEF TypeOK
<1>3. CASE PopBlock
  <2>1. todo' \in Seq(Call) /\ block_wl' \in Seq(Block)
    BY <1>1, <1>3, PopBlockTodo DEF PopBlock
  <2> QED BY <1>1, <1>3, <2>1 DEF PopBlock
<1>4. CASE PopSsa
  <2>1. Head(ssa_wl) \in Value /\ ssa_wl' \in Seq(Value)
    BY <1>1, <1>4 DEF PopSsa
  <2>2. todo' \in Seq(Call)
    BY <1>1, <1>4, <2>1, CallTypes DEF PopSsa
  <2> QED BY <1>1, <1>4, <2>1, <2>2 DEF PopSsa
<1>5. CASE SkipUse
  BY <1>1, <1>5, HeadTodo DEF SkipUse
<1>6. ASSUME NEW v \in Value, VisitInst(v)
      PROVE  Typed
  <2>1. vals' \in [Value -> Elem] /\ ssa_wl' \in Seq(Value)
    BY <1>6, VisitInstType, UpdateEffect
  <2>2. todo' \in Seq(Call)
    BY <1>6, HeadTodo DEF VisitInst
  <2> QED BY <1>1, <1>6, <2>1, <2>2 DEF VisitInst
<1>7. ASSUME NEW b \in Block, VisitTerminator(b)
      PROVE  Typed
  BY <1>1, <1>7, VisitTerminatorTodo DEF VisitTerminator
<1>8. ASSUME NEW b \in Block, EdgesTaken(b)
      PROVE  Typed
  BY <1>1, <1>8, HeadTodo DEF EdgesTaken
<1>9. ASSUME NEW b \in Block, MarkBlockExec(b)
      PROVE  Typed
  <2>1. todo' \in Seq(Call)
    BY <1>9, HeadTodo DEF MarkBlockExec
  <2>2. <<b>> \o block_wl \in Seq(Block)
    BY <1>1, ElementsCons
  <2>3. block_exec' \subseteq Block /\ block_wl' \in Seq(Block)
    BY <1>1, <1>9, <2>2 DEF MarkBlockExec
  <2> QED BY <1>1, <1>9, <2>1, <2>3 DEF MarkBlockExec
<1>10. ASSUME NEW b \in Block, NEW k \in DOMAIN fn.succs[b], TakeEdge(b, k)
       PROVE  Typed
  <2>1. todo' \in Seq(Call)
    BY <1>10, TakeEdgeTodo
  <2> QED BY <1>1, <1>10, <2>1 DEF TakeEdge
<1>11. ASSUME NEW b \in Block, NEW k \in DOMAIN fn.succs[b],
              NEW i \in DOMAIN fn.params[Target(b, k)], UpdateParam(b, k, i)
       PROVE  Typed
  <2>1. vals' \in [Value -> Elem] /\ ssa_wl' \in Seq(Value)
    BY <1>11, UpdateParamEffect, UpdateEffect
  <2>2. todo' \in Seq(Call)
    BY <1>11, HeadTodo DEF UpdateParam
  <2> QED BY <1>1, <1>11, <2>1, <2>2 DEF UpdateParam
<1> QED BY <1>3, <1>4, <1>5, <1>6, <1>7, <1>8, <1>9, <1>10, <1>11 DEF Step

(* Every reachable state of the engine is well typed.                       *)
THEOREM TypeCorrect == Spec => []TypeOK
<1>1. TypeOK /\ [Next]_vars => TypeOK'
  <2> SUFFICES ASSUME TypeOK, [Next]_vars PROVE TypeOK'
    OBVIOUS
  <2>1. CASE Step
    BY <2>1, StepType
  <2>2. CASE UNCHANGED vars
    <3>1. fn' = fn /\ Call' = Call
      BY <2>2, CallConstant DEF vars
    <3> QED BY <2>2, <3>1 DEF vars, TypeOK
  <2> QED BY <2>1, <2>2 DEF Next, Return
<1> QED BY <1>1, InitType, PTL DEF Spec

-----------------------------------------------------------------------------
(* The inductive invariant                                                  *)

IInv == TypeOK /\ WorklistInvariant

-----------------------------------------------------------------------------
(* What one step does.  Scheduled work is kept, or done, or replaced by the *)
(* work it stands for.                                                      *)

ValuesGrow ==
  /\ fn' = fn
  /\ vals' \in [Value -> Elem]
  /\ \A v \in Value : Leq(vals[v], vals'[v])
  /\ \A v \in Value : vals'[v] # vals[v] => Pending(v)'

InstsComputed ==
  \A v \in Value : fn.def[v] = "inst" => vals'[v] = vals[v] \/ vals'[v] = Result(v)

BlockHandled ==
  \A b \in Block : Scheduled(b) =>
    \/ Scheduled(b)'
    \/ ToDo(TermCall(b))' /\ \A i \in DOMAIN fn.insts[b] : ToDo(InstCall(fn.insts[b][i]))'

ValueHandled ==
  \A v \in Value : Pending(v) => Pending(v)' \/ \A u \in Elements(fn.uses[v]) : ToDo(u)'

InstHandled ==
  \A v \in Value : ToDo(InstCall(v)) =>
    ToDo(InstCall(v))' \/ ~InstExecutable(v) \/ vals'[v] = Result(v)

TermHandled ==
  \A b \in Block : ToDo(TermCall(b)) =>
    \/ ToDo(TermCall(b))'
    \/ b \notin block_exec
    \/ EdgesCall(b, {k \in DOMAIN fn.succs[b] : EdgeFeasible(b, k)}) \in Elements(todo')

ParamsCalled(b, k) ==
  \A i \in DOMAIN fn.params[Target(b, k)] : ToDo(ParamCall(b, k, i))'

EdgeHandled ==
  \A b \in Block : \A k \in DOMAIN fn.succs[b] : EdgePending(b, k) =>
    EdgePending(b, k)' \/ (<<b, k>> \in edge_exec' /\ ParamsCalled(b, k))

ParamHandled ==
  \A b \in Block : \A k \in DOMAIN fn.succs[b] : \A i \in DOMAIN fn.params[Target(b, k)] :
    ToDo(ParamCall(b, k, i)) =>
      ToDo(ParamCall(b, k, i))' \/ Leq(Offered(b, k, i), vals'[fn.params[Target(b, k)][i]])

MarkHandled ==
  \A b \in Block : ToDo(MarkCall(b)) => ToDo(MarkCall(b))' \/ b \in block_exec'

BlocksMarked ==
  /\ block_exec \subseteq block_exec' /\ block_exec' \subseteq Block
  /\ \A b \in block_exec' : b \in block_exec \/ Scheduled(b)'

EdgesMarked ==
  /\ edge_exec \subseteq edge_exec'
  /\ \A b \in Block : \A k \in DOMAIN fn.succs[b] : <<b, k>> \in edge_exec' =>
       \/ <<b, k>> \in edge_exec
       \/ b \in block_exec /\ ToDo(MarkCall(Target(b, k)))' /\ ParamsCalled(b, k)
  /\ \A e \in edge_exec' : e \in edge_exec \/ \E b \in Block : \E k \in DOMAIN fn.succs[b] : e = <<b, k>>

EdgesFromExecutable ==
  \A b \in Block : \A left \in SUBSET DOMAIN fn.succs[b] :
    ToDo(EdgesCall(b, left))' => b \in block_exec

Effects ==
  /\ ValuesGrow /\ InstsComputed
  /\ BlockHandled /\ ValueHandled
  /\ InstHandled /\ TermHandled /\ EdgeHandled /\ ParamHandled /\ MarkHandled
  /\ BlocksMarked /\ EdgesMarked /\ EdgesFromExecutable

-----------------------------------------------------------------------------
(* Calls of different kinds, and calls with different arguments, differ.    *)
LEMMA CallsDiffer ==
  /\ \A v, w : InstCall(v) = InstCall(w) => v = w
  /\ \A b, c : TermCall(b) = TermCall(c) => b = c
  /\ \A b, c, l, m : EdgesCall(b, l) = EdgesCall(c, m) => b = c /\ l = m
  /\ \A b, k, i, c, j, h : ParamCall(b, k, i) = ParamCall(c, j, h) => b = c /\ k = j /\ i = h
  /\ \A b, c : MarkCall(b) = MarkCall(c) => b = c
  /\ \A v, b : InstCall(v) # TermCall(b) /\ InstCall(v) # MarkCall(b)
  /\ \A v, b, l : InstCall(v) # EdgesCall(b, l)
  /\ \A v, b, k, i : InstCall(v) # ParamCall(b, k, i)
  /\ \A b, c : TermCall(b) # MarkCall(c)
  /\ \A b, c, l : TermCall(b) # EdgesCall(c, l) /\ MarkCall(b) # EdgesCall(c, l)
  /\ \A b, c, k, i : TermCall(b) # ParamCall(c, k, i) /\ MarkCall(b) # ParamCall(c, k, i)
  /\ \A b, l, c, k, i : EdgesCall(b, l) # ParamCall(c, k, i)
BY DEF InstCall, TermCall, EdgesCall, ParamCall, MarkCall

(* Popping the first call keeps all the others.                             *)
LEMMA OthersKept ==
  ASSUME TypeOK, todo # <<>>, Elements(Tail(todo)) \subseteq Elements(todo')
  PROVE  \A call : ToDo(call) => ToDo(call)' \/ call = Head(todo)
BY HeadTodo DEF ToDo

LEMMA NothingToDo ==
  ASSUME todo = <<>>
  PROVE  \A call : ~ToDo(call)
BY DEF ToDo, Elements

(* A step that leaves the values alone.                                     *)
LEMMA ValuesUnchanged ==
  ASSUME TypeOK, fn' = fn, vals' = vals
  PROVE  ValuesGrow /\ InstsComputed
BY OrderAssumption DEF TypeOK, ValuesGrow, InstsComputed

(* A step that leaves what is executable alone.                             *)
LEMMA ExecUnchanged ==
  ASSUME TypeOK, block_exec' = block_exec
  PROVE  BlocksMarked
BY DEF TypeOK, BlocksMarked

LEMMA EdgesUnchanged ==
  ASSUME edge_exec' = edge_exec
  PROVE  EdgesMarked
BY DEF EdgesMarked

LEMMA BlockWlUnchanged ==
  ASSUME block_wl' = block_wl
  PROVE  BlockHandled
BY DEF BlockHandled, Scheduled

LEMMA SsaWlGrows ==
  ASSUME Elements(ssa_wl) \subseteq Elements(ssa_wl')
  PROVE  ValueHandled
BY DEF ValueHandled, Pending

(* Handlers other than VisitTerminator and TakeEdge add no edges to take.   *)
LEMMA NoNewEdges ==
  ASSUME IInv, \A b \in Block : \A left \in SUBSET DOMAIN fn.succs[b] :
                 ToDo(EdgesCall(b, left))' => ToDo(EdgesCall(b, left))
  PROVE  EdgesFromExecutable
BY DEF EdgesFromExecutable, IInv, WorklistInvariant, SourcesExecutable

-----------------------------------------------------------------------------
(* The effects of each action.                                              *)

LEMMA PopBlockEffects == IInv /\ PopBlock => Effects
<1> SUFFICES ASSUME IInv, PopBlock PROVE Effects
  OBVIOUS
<1>1. TypeOK /\ fn' = fn /\ todo = <<>> /\ block_wl # <<>> /\ block_wl \in Seq(Block)
  BY DEF IInv, PopBlock, TypeOK
<1>2. \A call : ~ToDo(call)
  BY <1>1, NothingToDo
<1>3. PICK b \in Block :
        /\ b = Head(block_wl)
        /\ Elements(todo') = {InstCall(fn.insts[b][i]) : i \in DOMAIN fn.insts[b]} \union {TermCall(b)}
  BY <1>1, PopBlockTodo
<1>4. Elements(block_wl) = {b} \union Elements(block_wl')
  BY <1>1, <1>3, ElementsTail DEF PopBlock
<1>5. BlockHandled
  <2>1. ToDo(TermCall(b))' /\ \A i \in DOMAIN fn.insts[b] : ToDo(InstCall(fn.insts[b][i]))'
    BY <1>1, <1>3 DEF ToDo
  <2>2. \A c \in Block : Scheduled(c) => Scheduled(c)' \/ c = b
    BY <1>4 DEF Scheduled
  <2> QED BY <2>1, <2>2 DEF BlockHandled
<1>6. EdgesFromExecutable
  <2>1. \A c \in Block : \A left \in SUBSET DOMAIN fn.succs[c] : ~ToDo(EdgesCall(c, left))'
    BY <1>1, <1>3, CallsDiffer DEF ToDo
  <2> QED BY <2>1 DEF EdgesFromExecutable
<1>7. ValuesGrow /\ InstsComputed /\ BlocksMarked /\ EdgesMarked /\ ValueHandled
  BY <1>1, ValuesUnchanged, ExecUnchanged, EdgesUnchanged, SsaWlGrows DEF PopBlock
<1>8. InstHandled /\ TermHandled /\ EdgeHandled /\ ParamHandled /\ MarkHandled
  BY <1>2 DEF InstHandled, TermHandled, EdgeHandled, EdgePending, ParamHandled, MarkHandled
<1> QED BY <1>5, <1>6, <1>7, <1>8 DEF Effects

LEMMA PopSsaEffects == IInv /\ PopSsa => Effects
<1> SUFFICES ASSUME IInv, PopSsa PROVE Effects
  OBVIOUS
<1> DEFINE v == Head(ssa_wl)
<1>1. TypeOK /\ todo = <<>> /\ ssa_wl # <<>> /\ ssa_wl \in Seq(Value) /\ WellFormed(fn)
  BY DEF IInv, PopSsa, TypeOK
<1>2. \A call : ~ToDo(call)
  BY <1>1, NothingToDo
<1>3. todo' = fn.uses[v] /\ v \in Value
  BY <1>1 DEF PopSsa
<1>4. Elements(ssa_wl) = {v} \union Elements(ssa_wl')
  BY <1>1, ElementsTail DEF PopSsa
<1> HIDE DEF v
<1>5. ValueHandled
  BY <1>3, <1>4 DEF ValueHandled, Pending, ToDo
<1>6. EdgesFromExecutable
  <2>1. Elements(todo') \subseteq Use
    BY <1>1, <1>3, FunctionShape, ElementsMember
  <2>2. \A c, left : EdgesCall(c, left) \notin Use
    BY CallsDiffer DEF Use
  <2> QED BY <2>1, <2>2 DEF EdgesFromExecutable, ToDo
<1>7. ValuesGrow /\ InstsComputed /\ BlocksMarked /\ EdgesMarked /\ BlockHandled
  BY <1>1, ValuesUnchanged, ExecUnchanged, EdgesUnchanged, BlockWlUnchanged DEF PopSsa
<1>8. InstHandled /\ TermHandled /\ EdgeHandled /\ ParamHandled /\ MarkHandled
  BY <1>2 DEF InstHandled, TermHandled, EdgeHandled, EdgePending, ParamHandled, MarkHandled
<1> QED BY <1>5, <1>6, <1>7, <1>8 DEF Effects

(* A handler that is done with the call at the head.                        *)
LEMMA PoppedOnly ==
  ASSUME TypeOK, todo # <<>>, todo' = Tail(todo), fn' = fn
  PROVE  /\ \A call : ToDo(call) => ToDo(call)' \/ call = Head(todo)
         /\ \A call : ToDo(call)' => ToDo(call)
BY HeadTodo, OthersKept DEF ToDo

LEMMA EdgesKept ==
  ASSUME fn' = fn,
         \A call : ToDo(call) => ToDo(call)' \/ call = Head(todo),
         \A b, l : EdgesCall(b, l) # Head(todo)
  PROVE  EdgeHandled
<1> SUFFICES ASSUME NEW b \in Block, NEW k \in DOMAIN fn.succs[b], EdgePending(b, k)
             PROVE  EdgePending(b, k)'
  BY DEF EdgeHandled
<1>1. PICK left \in SUBSET DOMAIN fn.succs[b] : k \in left /\ ToDo(EdgesCall(b, left))
  BY DEF EdgePending
<1>2. ToDo(EdgesCall(b, left))'
  BY <1>1
<1> QED BY <1>1, <1>2 DEF EdgePending

LEMMA SkipUseEffects == IInv /\ SkipUse => Effects
<1> SUFFICES ASSUME IInv, SkipUse PROVE Effects
  OBVIOUS
<1>1. TypeOK /\ todo # <<>> /\ todo' = Tail(todo) /\ fn' = fn
  BY DEF IInv, SkipUse
<1>2. /\ \A call : ToDo(call) => ToDo(call)' \/ call = Head(todo)
      /\ \A call : ToDo(call)' => ToDo(call)
  BY <1>1, PoppedOnly
<1>3. \/ \E v \in Value : Head(todo) = InstCall(v) /\ ~InstExecutable(v)
      \/ \E b \in Block \ block_exec : Head(todo) = TermCall(b)
  BY DEF SkipUse
<1>4. InstHandled /\ TermHandled
  BY <1>2, <1>3, CallsDiffer DEF InstHandled, TermHandled
<1>5. EdgeHandled /\ ParamHandled /\ MarkHandled
  <2>1. /\ \A b, l : EdgesCall(b, l) # Head(todo)
        /\ \A b, k, i : ParamCall(b, k, i) # Head(todo)
        /\ \A b : MarkCall(b) # Head(todo)
    BY <1>3, CallsDiffer
  <2> QED BY <1>1, <1>2, <2>1, EdgesKept DEF ParamHandled, MarkHandled
<1>6. EdgesFromExecutable
  BY <1>2, NoNewEdges
<1>7. ValuesGrow /\ InstsComputed /\ BlocksMarked /\ EdgesMarked /\ ValueHandled /\ BlockHandled
  BY <1>1, ValuesUnchanged, ExecUnchanged, EdgesUnchanged, SsaWlGrows, BlockWlUnchanged DEF SkipUse
<1> QED BY <1>4, <1>5, <1>6, <1>7 DEF Effects

LEMMA VisitInstEffects ==
  ASSUME IInv, NEW v \in Value, VisitInst(v)
  PROVE  Effects
<1>1. TypeOK /\ todo # <<>> /\ todo' = Tail(todo) /\ fn' = fn /\ Head(todo) = InstCall(v)
  BY DEF IInv, VisitInst
<1>2. /\ \A call : ToDo(call) => ToDo(call)' \/ call = Head(todo)
      /\ \A call : ToDo(call)' => ToDo(call)
  BY <1>1, PoppedOnly
<1>3. /\ fn.def[v] = "inst" /\ Result(v) \in Elem
      /\ vals' = [vals EXCEPT ![v] = Result(v)] /\ vals' \in [Value -> Elem]
      /\ Elements(ssa_wl) \subseteq Elements(ssa_wl')
      /\ vals'[v] # vals[v] => v \in Elements(ssa_wl')
  BY <1>1, VisitInstType, UpdateEffect
<1>4. vals \in [Value -> Elem] /\ Leq(vals[v], Result(v))
  BY <1>3 DEF IInv, TypeOK, WorklistInvariant, InstsBelow
<1>5. vals'[v] = Result(v) /\ \A w \in Value : w # v => vals'[w] = vals[w]
  BY <1>3, <1>4
<1>6. ValuesGrow /\ InstsComputed
  <2>1. \A w \in Value : Leq(vals[w], vals'[w])
    BY <1>4, <1>5, OrderAssumption
  <2> QED BY <1>1, <1>3, <1>5, <2>1 DEF ValuesGrow, InstsComputed, Pending
<1>7. InstHandled
  BY <1>1, <1>2, <1>5, CallsDiffer DEF InstHandled
<1>8. TermHandled /\ EdgeHandled /\ ParamHandled /\ MarkHandled
  BY <1>1, <1>2, EdgesKept, CallsDiffer DEF TermHandled, ParamHandled, MarkHandled
<1>9. EdgesFromExecutable
  BY <1>2, NoNewEdges
<1>10. BlocksMarked /\ EdgesMarked /\ ValueHandled /\ BlockHandled
  BY <1>1, <1>3, ExecUnchanged, EdgesUnchanged, SsaWlGrows, BlockWlUnchanged DEF VisitInst
<1> QED BY <1>6, <1>7, <1>8, <1>9, <1>10 DEF Effects

LEMMA UpdateParamEffects ==
  ASSUME IInv, NEW b \in Block, NEW k \in DOMAIN fn.succs[b],
         NEW i \in DOMAIN fn.params[Target(b, k)], UpdateParam(b, k, i)
  PROVE  Effects
<1>1. TypeOK /\ todo # <<>> /\ todo' = Tail(todo) /\ fn' = fn /\ Head(todo) = ParamCall(b, k, i)
  BY DEF IInv, UpdateParam
<1>2. /\ \A call : ToDo(call) => ToDo(call)' \/ call = Head(todo)
      /\ \A call : ToDo(call)' => ToDo(call)
  BY <1>1, PoppedOnly
<1>3. PICK param \in Value, new \in Elem :
        /\ param = fn.params[Target(b, k)][i] /\ fn.def[param] = "param"
        /\ Update(param, new) /\ Leq(vals[param], new) /\ Leq(Offered(b, k, i), new)
  BY <1>1, UpdateParamEffect
<1>4. /\ vals' = [vals EXCEPT ![param] = new] /\ vals' \in [Value -> Elem]
      /\ Elements(ssa_wl) \subseteq Elements(ssa_wl')
      /\ vals'[param] # vals[param] => param \in Elements(ssa_wl')
  BY <1>1, <1>3, UpdateEffect
<1>5. vals \in [Value -> Elem]
  BY <1>1 DEF TypeOK
<1>6. vals'[param] = new /\ \A w \in Value : w # param => vals'[w] = vals[w]
  BY <1>4, <1>5
<1>7. ValuesGrow /\ InstsComputed
  <2>1. \A w \in Value : Leq(vals[w], vals'[w])
    BY <1>3, <1>5, <1>6, OrderAssumption
  <2> QED BY <1>1, <1>3, <1>4, <1>6, <2>1 DEF ValuesGrow, InstsComputed, Pending
<1>8. ParamHandled
  BY <1>1, <1>2, <1>3, <1>6, CallsDiffer DEF ParamHandled
<1>9. InstHandled /\ TermHandled /\ EdgeHandled /\ MarkHandled
  BY <1>1, <1>2, EdgesKept, CallsDiffer DEF InstHandled, TermHandled, MarkHandled
<1>10. EdgesFromExecutable
  BY <1>2, NoNewEdges
<1>11. BlocksMarked /\ EdgesMarked /\ ValueHandled /\ BlockHandled
  BY <1>1, <1>4, ExecUnchanged, EdgesUnchanged, SsaWlGrows, BlockWlUnchanged DEF UpdateParam
<1> QED BY <1>7, <1>8, <1>9, <1>10, <1>11 DEF Effects

LEMMA VisitTerminatorEffects ==
  ASSUME IInv, NEW b \in Block, VisitTerminator(b)
  PROVE  Effects
<1> DEFINE feasible == {k \in DOMAIN fn.succs[b] : EdgeFeasible(b, k)}
<1>1. TypeOK /\ todo # <<>> /\ fn' = fn /\ Head(todo) = TermCall(b) /\ b \in block_exec
  BY DEF IInv, VisitTerminator
<1>2. Elements(todo') = {EdgesCall(b, feasible)} \union Elements(Tail(todo))
  BY <1>1, VisitTerminatorTodo
<1>3. \A call : ToDo(call) => ToDo(call)' \/ call = Head(todo)
  BY <1>1, <1>2, OthersKept
<1>4. TermHandled
  BY <1>1, <1>2, <1>3, CallsDiffer DEF TermHandled, ToDo
<1>5. InstHandled /\ EdgeHandled /\ ParamHandled /\ MarkHandled
  BY <1>1, <1>3, EdgesKept, CallsDiffer DEF InstHandled, ParamHandled, MarkHandled
<1>6. EdgesFromExecutable
  <2> SUFFICES ASSUME NEW c \in Block, NEW left \in SUBSET DOMAIN fn.succs[c],
                      ToDo(EdgesCall(c, left))'
               PROVE  c \in block_exec
    BY DEF EdgesFromExecutable
  <2>1. EdgesCall(c, left) = EdgesCall(b, feasible) \/ ToDo(EdgesCall(c, left))
    BY <1>1, <1>2, HeadTodo DEF ToDo
  <2> QED BY <1>1, <2>1, CallsDiffer DEF IInv, WorklistInvariant, SourcesExecutable
<1>7. ValuesGrow /\ InstsComputed /\ BlocksMarked /\ EdgesMarked /\ ValueHandled /\ BlockHandled
  BY <1>1, ValuesUnchanged, ExecUnchanged, EdgesUnchanged, SsaWlGrows, BlockWlUnchanged DEF VisitTerminator
<1> QED BY <1>4, <1>5, <1>6, <1>7 DEF Effects

LEMMA EdgesTakenEffects ==
  ASSUME IInv, NEW b \in Block, EdgesTaken(b)
  PROVE  Effects
<1>1. TypeOK /\ todo # <<>> /\ todo' = Tail(todo) /\ fn' = fn /\ Head(todo) = EdgesCall(b, {})
  BY DEF IInv, EdgesTaken
<1>2. /\ \A call : ToDo(call) => ToDo(call)' \/ call = Head(todo)
      /\ \A call : ToDo(call)' => ToDo(call)
  BY <1>1, PoppedOnly
<1>3. EdgeHandled
  <2> SUFFICES ASSUME NEW c \in Block, NEW k \in DOMAIN fn.succs[c], EdgePending(c, k)
               PROVE  EdgePending(c, k)'
    BY DEF EdgeHandled
  <2>1. PICK left \in SUBSET DOMAIN fn.succs[c] : k \in left /\ ToDo(EdgesCall(c, left))
    BY DEF EdgePending
  <2>2. EdgesCall(c, left) # Head(todo)
    BY <1>1, <2>1, CallsDiffer
  <2>3. ToDo(EdgesCall(c, left))'
    BY <1>2, <2>1, <2>2
  <2> QED BY <1>1, <2>1, <2>3 DEF EdgePending
<1>4. InstHandled /\ TermHandled /\ ParamHandled /\ MarkHandled
  BY <1>1, <1>2, CallsDiffer DEF InstHandled, TermHandled, ParamHandled, MarkHandled
<1>5. EdgesFromExecutable
  BY <1>2, NoNewEdges
<1>6. ValuesGrow /\ InstsComputed /\ BlocksMarked /\ EdgesMarked /\ ValueHandled /\ BlockHandled
  BY <1>1, ValuesUnchanged, ExecUnchanged, EdgesUnchanged, SsaWlGrows, BlockWlUnchanged DEF EdgesTaken
<1> QED BY <1>3, <1>4, <1>5, <1>6 DEF Effects

LEMMA MarkBlockExecEffects ==
  ASSUME IInv, NEW b \in Block, MarkBlockExec(b)
  PROVE  Effects
<1>1. /\ TypeOK /\ todo # <<>> /\ todo' = Tail(todo) /\ fn' = fn /\ Head(todo) = MarkCall(b)
      /\ block_exec \subseteq Block /\ block_wl \in Seq(Block)
  BY DEF IInv, MarkBlockExec, TypeOK
<1>2. /\ \A call : ToDo(call) => ToDo(call)' \/ call = Head(todo)
      /\ \A call : ToDo(call)' => ToDo(call)
  BY <1>1, PoppedOnly
<1>3. /\ block_exec' = block_exec \union {b}
      /\ Elements(block_wl) \subseteq Elements(block_wl')
      /\ b \in block_exec \/ b \in Elements(block_wl')
  <2>1. CASE b \in block_exec
    BY <2>1 DEF MarkBlockExec
  <2>2. CASE b \notin block_exec
    <3>1. block_wl' = <<b>> \o block_wl /\ block_exec' = block_exec \union {b}
      BY <2>2 DEF MarkBlockExec
    <3>2. Elements(block_wl') = {b} \union Elements(block_wl)
      BY <1>1, <3>1, ElementsCons
    <3> QED BY <3>1, <3>2
  <2> QED BY <2>1, <2>2
<1>4. BlocksMarked /\ BlockHandled /\ MarkHandled
  <2>1. BlocksMarked
    BY <1>1, <1>3 DEF BlocksMarked, Scheduled
  <2>2. BlockHandled
    BY <1>3 DEF BlockHandled, Scheduled
  <2>3. MarkHandled
    BY <1>1, <1>2, <1>3, CallsDiffer DEF MarkHandled
  <2> QED BY <2>1, <2>2, <2>3
<1>5. InstHandled /\ TermHandled /\ ParamHandled /\ EdgeHandled
  BY <1>1, <1>2, EdgesKept, CallsDiffer DEF InstHandled, TermHandled, ParamHandled
<1>6. EdgesFromExecutable
  BY <1>2, NoNewEdges
<1>7. ValuesGrow /\ InstsComputed /\ EdgesMarked /\ ValueHandled
  BY <1>1, ValuesUnchanged, EdgesUnchanged, SsaWlGrows DEF MarkBlockExec
<1> QED BY <1>4, <1>5, <1>6, <1>7 DEF Effects

LEMMA TakeEdgeEffects ==
  ASSUME IInv, NEW b \in Block, NEW k \in DOMAIN fn.succs[b], TakeEdge(b, k)
  PROVE  Effects
<1>1. /\ TypeOK /\ todo # <<>> /\ fn' = fn /\ edge_exec' = edge_exec \union {<<b, k>>}
  BY DEF IInv, TakeEdge
<1>2. PICK left \in SUBSET DOMAIN fn.succs[b] :
        /\ Head(todo) = EdgesCall(b, left)
        /\ k \in left
        /\ Elements(todo') =
             {ParamCall(b, k, i) : i \in DOMAIN fn.params[Target(b, k)]}
             \union {MarkCall(Target(b, k)), EdgesCall(b, left \ {k})}
             \union Elements(Tail(todo))
  BY <1>1, TakeEdgeTodo
<1>3. \A call : ToDo(call) => ToDo(call)' \/ call = Head(todo)
  BY <1>1, <1>2, OthersKept
<1>4. /\ ParamsCalled(b, k)
      /\ MarkCall(Target(b, k)) \in Elements(todo') /\ EdgesCall(b, left \ {k}) \in Elements(todo')
  BY <1>1, <1>2 DEF ParamsCalled, ToDo, Target
<1>5. b \in block_exec
  <2>1. ToDo(EdgesCall(b, left))
    BY <1>1, <1>2, HeadTodo DEF ToDo
  <2> QED BY <2>1 DEF IInv, WorklistInvariant, SourcesExecutable
<1>6. EdgeHandled
  <2> SUFFICES ASSUME NEW c \in Block, NEW j \in DOMAIN fn.succs[c], EdgePending(c, j)
               PROVE  EdgePending(c, j)' \/ (<<c, j>> \in edge_exec' /\ ParamsCalled(c, j))
    BY DEF EdgeHandled
  <2>1. PICK m \in SUBSET DOMAIN fn.succs[c] : j \in m /\ ToDo(EdgesCall(c, m))
    BY DEF EdgePending
  <2>2. CASE EdgesCall(c, m) # Head(todo)
    <3>1. ToDo(EdgesCall(c, m))'
      BY <1>3, <2>1, <2>2
    <3> QED BY <1>1, <2>1, <3>1 DEF EdgePending
  <2>3. CASE EdgesCall(c, m) = Head(todo)
    <3>1. c = b /\ m = left
      BY <1>2, <2>3, CallsDiffer
    <3>2. CASE j = k
      BY <1>1, <1>4, <3>1, <3>2
    <3>3. CASE j # k
      <4>1. j \in left \ {k} /\ left \ {k} \in SUBSET DOMAIN fn.succs[c]
        BY <2>1, <3>1, <3>3
      <4> QED BY <1>1, <1>4, <3>1, <4>1 DEF EdgePending, ToDo
    <3> QED BY <3>2, <3>3
  <2> QED BY <2>2, <2>3
<1>7. InstHandled /\ TermHandled /\ ParamHandled /\ MarkHandled
  BY <1>1, <1>2, <1>3, CallsDiffer DEF InstHandled, TermHandled, ParamHandled, MarkHandled
<1>8. EdgesFromExecutable
  <2> SUFFICES ASSUME NEW c \in Block, NEW m \in SUBSET DOMAIN fn.succs[c], ToDo(EdgesCall(c, m))'
               PROVE  c \in block_exec
    BY DEF EdgesFromExecutable
  <2>1. c = b \/ ToDo(EdgesCall(c, m))
    BY <1>1, <1>2, HeadTodo, CallsDiffer DEF ToDo
  <2> QED BY <1>5, <2>1 DEF IInv, WorklistInvariant, SourcesExecutable
<1>9. EdgesMarked
  BY <1>1, <1>4, <1>5 DEF EdgesMarked, ToDo, Target
<1>10. ValuesGrow /\ InstsComputed /\ BlocksMarked /\ ValueHandled /\ BlockHandled
  BY <1>1, ValuesUnchanged, ExecUnchanged, SsaWlGrows, BlockWlUnchanged DEF TakeEdge
<1> QED BY <1>6, <1>7, <1>8, <1>9, <1>10 DEF Effects

LEMMA StepEffects == IInv /\ Step => Effects
BY PopBlockEffects, PopSsaEffects, SkipUseEffects, VisitInstEffects, VisitTerminatorEffects,
   EdgesTakenEffects, MarkBlockExecEffects, TakeEdgeEffects, UpdateParamEffects DEF Step

-----------------------------------------------------------------------------
(* What rising values do to the equations: a side that changed has a        *)
(* pending value.                                                           *)

LEMMA ResultRises ==
  ASSUME TypeOK, ValuesGrow, NEW v \in Value, fn.def[v] = "inst"
  PROVE  /\ Result(v) \in Elem /\ Result(v)' \in Elem /\ Leq(Result(v), Result(v)')
         /\ \/ Result(v)' = Result(v)
            \/ \E j \in DOMAIN fn.ops[v] : Pending(fn.ops[v][j])'
<1>1. WellFormed(fn) /\ vals \in [Value -> Elem] /\ fn' = fn /\ vals' \in [Value -> Elem]
  BY DEF TypeOK, ValuesGrow
<1> DEFINE new == [j \in DOMAIN fn.ops[v] |-> vals'[fn.ops[v][j]]]
<1>2. /\ fn.op[v] \in Opcode /\ fn.ops[v] \in Seq(Value)
      /\ DOMAIN fn.ops[v] = 1..Arity[fn.op[v]]
      /\ Operands(v) \in OperandLists(fn.op[v], Elem) /\ Result(v) \in Elem
  BY <1>1, OperandsType
<1>3. \A j \in DOMAIN fn.ops[v] : fn.ops[v][j] \in Value
  <2>1. fn.ops[v] \in Seq(Value)
    BY <1>2
  <2> QED BY <2>1
<1>4. new \in OperandLists(fn.op[v], Elem)
  BY <1>1, <1>2, <1>3 DEF OperandLists
<1>5. Result(v)' = Transfer(fn.op[v], new)
  BY <1>1 DEF Result, Operands
<1>6. Leq(Result(v), Result(v)')
  <2>1. \A j \in DOMAIN Operands(v) : Leq(Operands(v)[j], new[j])
    BY <1>3 DEF ValuesGrow, Operands
  <2> HIDE DEF new
  <2> QED BY <1>2, <1>4, <1>5, <2>1, MonotoneAssumption DEF Result
<1>7. CASE \E j \in DOMAIN fn.ops[v] : vals'[fn.ops[v][j]] # vals[fn.ops[v][j]]
  <2>1. PICK j \in DOMAIN fn.ops[v] : vals'[fn.ops[v][j]] # vals[fn.ops[v][j]]
    BY <1>7
  <2>2. Pending(fn.ops[v][j])'
    BY <1>1, <1>3, <2>1 DEF ValuesGrow, Pending
  <2> QED BY <1>2, <1>4, <1>5, <1>6, <2>2, ElementAssumption
<1>8. CASE \A j \in DOMAIN fn.ops[v] : vals'[fn.ops[v][j]] = vals[fn.ops[v][j]]
  <2>1. new = Operands(v)
    BY <1>8 DEF Operands
  <2> QED BY <1>2, <1>5, <1>6, <2>1 DEF Result
<1> QED BY <1>7, <1>8

LEMMA FeasibleStable ==
  ASSUME TypeOK, ValuesGrow, NEW b \in Block, NEW k \in DOMAIN fn.succs[b], EdgeFeasible(b, k)'
  PROVE  EdgeFeasible(b, k) \/ CondPending(b, k)'
<1>1. fn' = fn /\ fn.cond[b] \in Value
  BY FunctionShape DEF TypeOK, ValuesGrow
<1> QED BY <1>1 DEF EdgeFeasible, CondPending, ValuesGrow, Pending

LEMMA OfferedStable ==
  ASSUME TypeOK, ValuesGrow, NEW b \in Block, NEW k \in DOMAIN fn.succs[b], NEW i
  PROVE  Offered(b, k, i)' = Offered(b, k, i) \/ ArgPending(b, k, i)'
<1>1. fn' = fn /\ fn.succs[b][k].args \in Seq(Value)
  BY EdgeType DEF TypeOK, ValuesGrow
<1>2. i \in DOMAIN fn.succs[b][k].args => fn.succs[b][k].args[i] \in Value
  BY <1>1
<1> QED BY <1>1, <1>2 DEF Offered, ArgPending, ValuesGrow, Pending

(* An operand, condition or argument is read by the instruction or the      *)
(* terminator the engine revisits when it changes.                          *)
LEMMA UsesRevisited ==
  ASSUME TypeOK, ValuesGrow, ValueHandled
  PROVE  /\ \A v \in Value : \A j \in DOMAIN fn.ops[v] : Pending(fn.ops[v][j]) =>
              Pending(fn.ops[v][j])' \/ ToDo(InstCall(v))'
         /\ \A b \in Block : \A k \in DOMAIN fn.succs[b] :
              /\ CondPending(b, k) => CondPending(b, k)' \/ ToDo(TermCall(b))'
              /\ \A i : ArgPending(b, k, i) => ArgPending(b, k, i)' \/ ToDo(TermCall(b))'
<1>1. WellFormed(fn) /\ fn' = fn
  BY DEF TypeOK, ValuesGrow
<1>2. ASSUME NEW v \in Value, NEW j \in DOMAIN fn.ops[v], Pending(fn.ops[v][j])
      PROVE  Pending(fn.ops[v][j])' \/ ToDo(InstCall(v))'
  <2>1. fn.ops[v][j] \in Value
    BY <1>1, FunctionShape
  <2>2. InstCall(v) \in Elements(fn.uses[fn.ops[v][j]])
    BY <1>1 DEF WellFormed, UseLists
  <2> QED BY <1>1, <1>2, <2>1, <2>2 DEF ValueHandled, Pending
<1>3. ASSUME NEW b \in Block, NEW k \in DOMAIN fn.succs[b], CondPending(b, k)
      PROVE  CondPending(b, k)' \/ ToDo(TermCall(b))'
  <2>1. fn.cond[b] \in Value /\ TermCall(b) \in Elements(fn.uses[fn.cond[b]])
    BY <1>1, <1>3, FunctionShape DEF WellFormed, UseLists, CondPending
  <2> QED BY <1>1, <1>3, <2>1 DEF ValueHandled, CondPending, Pending
<1>4. ASSUME NEW b \in Block, NEW k \in DOMAIN fn.succs[b], NEW i, ArgPending(b, k, i)
      PROVE  ArgPending(b, k, i)' \/ ToDo(TermCall(b))'
  <2>1. i \in DOMAIN fn.succs[b][k].args /\ Pending(fn.succs[b][k].args[i])
    BY <1>4 DEF ArgPending
  <2>2. fn.succs[b][k].args[i] \in Value
    BY <1>1, <2>1, EdgeType
  <2>3. TermCall(b) \in Elements(fn.uses[fn.succs[b][k].args[i]])
    BY <1>1, <2>1 DEF WellFormed, UseLists
  <2> QED BY <1>1, <2>1, <2>2, <2>3 DEF ValueHandled, ArgPending, Pending
<1> QED BY <1>2, <1>3, <1>4

-----------------------------------------------------------------------------
(* Each part of the invariant, from the effects of a step.                  *)

LEMMA InstsBelowStep ==
  ASSUME IInv, Effects
  PROVE  InstsBelow'
<1>1. TypeOK /\ InstsBelow /\ ValuesGrow /\ InstsComputed /\ fn' = fn
  BY DEF IInv, WorklistInvariant, Effects, ValuesGrow
<1> SUFFICES ASSUME NEW v \in Value, fn.def[v] = "inst"
             PROVE  Leq(vals'[v], Result(v)')
  BY <1>1 DEF InstsBelow
<1>2. Result(v) \in Elem /\ Result(v)' \in Elem /\ Leq(Result(v), Result(v)')
  BY <1>1, ResultRises
<1>3. vals[v] \in Elem /\ Leq(vals[v], Result(v))
  BY <1>1 DEF InstsBelow, TypeOK
<1>4. CASE vals'[v] = vals[v]
  BY <1>2, <1>3, <1>4, OrderAssumption
<1>5. CASE vals'[v] = Result(v)
  BY <1>2, <1>5
<1> QED BY <1>1, <1>4, <1>5 DEF InstsComputed

LEMMA InstsCurrentStep ==
  ASSUME IInv, Effects
  PROVE  InstsCurrent'
<1>1. /\ TypeOK /\ InstsCurrent /\ ValuesGrow /\ InstsComputed /\ BlockHandled /\ ValueHandled
      /\ InstHandled /\ BlocksMarked /\ fn' = fn /\ WellFormed(fn)
  BY DEF IInv, WorklistInvariant, Effects, ValuesGrow, TypeOK
<1> SUFFICES ASSUME NEW b \in block_exec', NEW i \in DOMAIN fn.insts[b],
                    NEW v, v = fn.insts[b][i],
                    ~Scheduled(b)', ~ToDo(InstCall(v))',
                    \A j \in DOMAIN fn.ops[v] : ~Pending(fn.ops[v][j])'
             PROVE  vals'[v] = Result(v)'
  BY <1>1 DEF InstsCurrent
<1>2. b \in block_exec /\ b \in Block
  BY <1>1 DEF BlocksMarked
<1>3. v \in Value /\ fn.def[v] = "inst"
  BY <1>1, <1>2, InstType
<1>4. Result(v)' = Result(v)
  BY <1>1, <1>3, ResultRises
<1>5. InstExecutable(v)
  BY <1>2 DEF InstExecutable, Elements
<1>6. \/ Scheduled(b)
      \/ ToDo(InstCall(v))
      \/ \E j \in DOMAIN fn.ops[v] : Pending(fn.ops[v][j])
      \/ vals[v] = Result(v)
  BY <1>1, <1>2 DEF InstsCurrent
<1>7. CASE Scheduled(b)
  BY <1>1, <1>2, <1>7 DEF BlockHandled
<1>8. CASE ToDo(InstCall(v))
  BY <1>1, <1>3, <1>4, <1>5, <1>8 DEF InstHandled
<1>9. CASE \E j \in DOMAIN fn.ops[v] : Pending(fn.ops[v][j])
  BY <1>1, <1>3, <1>9, UsesRevisited
<1>10. CASE vals[v] = Result(v)
  BY <1>1, <1>3, <1>4, <1>10 DEF InstsComputed
<1> QED BY <1>6, <1>7, <1>8, <1>9, <1>10

(* An edge that is feasible after a step, with nothing left that would      *)
(* re-evaluate it, was so before.                                           *)
LEMMA EdgeWasFeasible ==
  ASSUME IInv, Effects, NEW b \in Block, NEW k \in DOMAIN fn.succs[b],
         EdgeFeasible(b, k)', ~TermPending(b)', ~CondPending(b, k)', ~EdgePending(b, k)',
         b \in block_exec
  PROVE  /\ EdgeFeasible(b, k) /\ ~TermPending(b) /\ ~CondPending(b, k)
         /\ EdgePending(b, k) => <<b, k>> \in edge_exec' /\ ParamsCalled(b, k)
<1>1. /\ TypeOK /\ ValuesGrow /\ ValueHandled /\ BlockHandled /\ TermHandled /\ EdgeHandled
      /\ fn' = fn
  BY DEF IInv, Effects, ValuesGrow
<1>2. EdgeFeasible(b, k)
  BY <1>1, FeasibleStable
<1>3. ~CondPending(b, k)
  BY <1>1, UsesRevisited DEF TermPending
<1>4. ~TermPending(b)
  <2>1. ~Scheduled(b)
    BY <1>1 DEF BlockHandled, TermPending
  <2>2. ~ToDo(TermCall(b))
    <3>1. EdgesCall(b, {j \in DOMAIN fn.succs[b] : EdgeFeasible(b, j)}) \notin Elements(todo')
      <4> DEFINE feasible == {j \in DOMAIN fn.succs[b] : EdgeFeasible(b, j)}
      <4>1. k \in feasible /\ feasible \in SUBSET DOMAIN fn.succs[b]
        BY <1>2
      <4> HIDE DEF feasible
      <4>2. EdgesCall(b, feasible) \in Elements(todo') => EdgePending(b, k)'
        BY <1>1, <4>1 DEF EdgePending, ToDo
      <4> QED BY <4>2 DEF feasible
    <3> QED BY <1>1, <3>1 DEF TermHandled, TermPending
  <2> QED BY <2>1, <2>2 DEF TermPending
<1>5. EdgePending(b, k) => <<b, k>> \in edge_exec' /\ ParamsCalled(b, k)
  BY <1>1 DEF EdgeHandled
<1> QED BY <1>2, <1>3, <1>4, <1>5

LEMMA EdgesCurrentStep ==
  ASSUME IInv, Effects
  PROVE  EdgesCurrent'
<1>1. EdgesCurrent /\ BlocksMarked /\ EdgesMarked /\ fn' = fn
  BY DEF IInv, WorklistInvariant, Effects, ValuesGrow
<1> SUFFICES ASSUME NEW b \in block_exec', NEW k \in DOMAIN fn.succs[b], EdgeFeasible(b, k)',
                    ~TermPending(b)', ~CondPending(b, k)', ~EdgePending(b, k)'
             PROVE  <<b, k>> \in edge_exec'
  BY <1>1 DEF EdgesCurrent
<1>2. b \in Block /\ b \in block_exec
  BY <1>1 DEF BlocksMarked, TermPending
<1>3. /\ EdgeFeasible(b, k) /\ ~TermPending(b) /\ ~CondPending(b, k)
      /\ EdgePending(b, k) => <<b, k>> \in edge_exec'
  BY <1>2, EdgeWasFeasible
<1> QED BY <1>1, <1>2, <1>3 DEF EdgesCurrent, EdgesMarked

LEMMA ParamsCurrentStep ==
  ASSUME IInv, Effects
  PROVE  ParamsCurrent'
<1>1. /\ TypeOK /\ ParamsCurrent /\ SourcesExecutable /\ ValuesGrow /\ ValueHandled
      /\ ParamHandled /\ BlocksMarked /\ EdgesMarked
      /\ fn' = fn /\ WellFormed(fn) /\ vals \in [Value -> Elem] /\ vals' \in [Value -> Elem]
      /\ \A e \in edge_exec : \E b \in Block : \E k \in DOMAIN fn.succs[b] : e = <<b, k>>
  BY DEF IInv, WorklistInvariant, Effects, ValuesGrow, TypeOK
<1> SUFFICES ASSUME NEW b \in Block, NEW k \in DOMAIN fn.succs[b], <<b, k>> \in edge_exec',
                    EdgeFeasible(b, k)',
                    NEW i \in DOMAIN fn.params[Target(b, k)],
                    ~TermPending(b)', ~CondPending(b, k)', ~EdgePending(b, k)',
                    ~ArgPending(b, k, i)', ~ToDo(ParamCall(b, k, i))'
             PROVE  Leq(Offered(b, k, i)', vals'[fn.params[Target(b, k)][i]])
  <2>1. \A e \in edge_exec' : \E b \in Block : \E k \in DOMAIN fn.succs[b] : e = <<b, k>>
    BY <1>1 DEF EdgesMarked
  <2> SUFFICES ASSUME NEW b \in Block, NEW k \in DOMAIN fn.succs[b], <<b, k>> \in edge_exec',
                      EdgeFeasible(b, k)', NEW i \in DOMAIN fn.params[Target(b, k)]
               PROVE  \/ TermPending(b)' \/ CondPending(b, k)' \/ EdgePending(b, k)'
                      \/ ArgPending(b, k, i)'
                      \/ ToDo(ParamCall(b, k, i))'
                      \/ Leq(Offered(b, k, i)', vals'[fn.params[Target(b, k)][i]])
    <3>1. \A b, k : Target(b, k)' = Target(b, k)
      BY <1>1 DEF Target
    <3> QED BY <1>1, <2>1, <3>1 DEF ParamsCurrent
  <2> QED OBVIOUS
<1> DEFINE param == fn.params[Target(b, k)][i]
<1>2. <<b, k>> \in edge_exec /\ b \in block_exec
  BY <1>1 DEF EdgesMarked, ParamsCalled, SourcesExecutable
<1>3. /\ EdgeFeasible(b, k) /\ ~TermPending(b) /\ ~CondPending(b, k)
      /\ EdgePending(b, k) => ParamsCalled(b, k)
  BY <1>2, EdgeWasFeasible
<1>4. ~EdgePending(b, k)
  BY <1>3 DEF ParamsCalled
<1>5. Offered(b, k, i)' = Offered(b, k, i)
  BY <1>1, OfferedStable
<1>6. ~ArgPending(b, k, i)
  BY <1>1, UsesRevisited DEF TermPending
<1>7. param \in Value
  BY <1>1, EdgeType, ParamType
<1>8. CASE ToDo(ParamCall(b, k, i))
  BY <1>1, <1>5, <1>8 DEF ParamHandled
<1>9. CASE ~ToDo(ParamCall(b, k, i))
  <2>1. Leq(Offered(b, k, i), vals[param])
    BY <1>1, <1>2, <1>3, <1>4, <1>6, <1>9 DEF ParamsCurrent
  <2>2. Leq(vals[param], vals'[param]) /\ vals[param] \in Elem /\ vals'[param] \in Elem
    BY <1>1, <1>7 DEF ValuesGrow
  <2>3. Offered(b, k, i) \in Elem
    BY <1>1, OfferedType
  <2> QED BY <1>5, <2>1, <2>2, <2>3, OrderAssumption
<1> QED BY <1>8, <1>9

LEMMA TargetsMarkedStep ==
  ASSUME IInv, Effects
  PROVE  TargetsMarked'
<1>1. /\ TargetsMarked /\ MarkHandled /\ BlocksMarked /\ EdgesMarked /\ fn' = fn /\ WellFormed(fn)
      /\ \A e \in edge_exec : \E b \in Block : \E k \in DOMAIN fn.succs[b] : e = <<b, k>>
  BY DEF IInv, WorklistInvariant, Effects, ValuesGrow, TypeOK
<1> SUFFICES ASSUME NEW b \in Block, NEW k \in DOMAIN fn.succs[b], <<b, k>> \in edge_exec'
             PROVE  Target(b, k) \in block_exec' \/ ToDo(MarkCall(Target(b, k)))'
  BY <1>1 DEF TargetsMarked, EdgesMarked, Target
<1>2. Target(b, k) \in Block /\ Target(b, k)' = Target(b, k)
  BY <1>1, EdgeType DEF Target
<1>3. CASE <<b, k>> \in edge_exec
  <2>1. Target(b, k) \in block_exec \/ ToDo(MarkCall(Target(b, k)))
    BY <1>1, <1>3 DEF TargetsMarked
  <2> QED BY <1>1, <1>2, <2>1 DEF MarkHandled, BlocksMarked, ToDo
<1>4. CASE <<b, k>> \notin edge_exec
  BY <1>1, <1>4 DEF EdgesMarked
<1> QED BY <1>3, <1>4

LEMMA SourcesExecutableStep ==
  ASSUME IInv, Effects
  PROVE  SourcesExecutable'
<1>1. /\ SourcesExecutable /\ BlocksMarked /\ EdgesMarked /\ EdgesFromExecutable /\ fn' = fn
  BY DEF IInv, WorklistInvariant, Effects, ValuesGrow
<1>2. \A e \in edge_exec' : e[1] \in block_exec'
  BY <1>1 DEF SourcesExecutable, BlocksMarked, EdgesMarked
<1>3. \A b \in Block : \A left \in SUBSET DOMAIN fn.succs[b] :
        ToDo(EdgesCall(b, left))' => b \in block_exec'
  BY <1>1 DEF EdgesFromExecutable, BlocksMarked
<1> QED BY <1>1, <1>2, <1>3 DEF SourcesExecutable

-----------------------------------------------------------------------------
(* The theorems.                                                            *)

LEMMA InitInvariant == Init => IInv
<1> SUFFICES ASSUME Init PROVE IInv
  OBVIOUS
<1>1. TypeOK /\ WellFormed(fn)
  BY InitType DEF TypeOK
<1>2. InstsCurrent /\ EdgesCurrent
  <2>1. Elements(block_wl) = {fn.entry}
    BY DEF Init, Elements
  <2> QED BY <2>1 DEF Init, InstsCurrent, EdgesCurrent, TermPending, Scheduled
<1>3. ParamsCurrent /\ TargetsMarked
  BY DEF Init, ParamsCurrent, TargetsMarked
<1>4. SourcesExecutable
  BY NothingToDo DEF Init, SourcesExecutable
<1>5. InstsBelow
  <2> SUFFICES ASSUME NEW v \in Value, fn.def[v] = "inst" PROVE Leq(vals[v], Result(v))
    BY DEF InstsBelow
  <2>1. vals[v] = Bottom
    BY DEF Init, Seed, Computed
  <2>2. Result(v) \in Elem
    BY <1>1, OperandsType DEF TypeOK
  <2> QED BY <2>1, <2>2, OrderAssumption
<1> QED BY <1>1, <1>2, <1>3, <1>4, <1>5 DEF IInv, WorklistInvariant

LEMMA StepInvariant == IInv /\ [Next]_vars => IInv'
<1> SUFFICES ASSUME IInv, [Next]_vars PROVE IInv'
  OBVIOUS
<1>1. CASE Step
  <2>1. Effects
    BY <1>1, StepEffects
  <2>2. TypeOK'
    BY <1>1, StepType DEF IInv
  <2> QED BY <2>1, <2>2, InstsCurrentStep, EdgesCurrentStep, ParamsCurrentStep, TargetsMarkedStep,
             SourcesExecutableStep, InstsBelowStep DEF IInv, WorklistInvariant
<1>2. CASE UNCHANGED vars
  <2> USE <1>2 DEF vars
  <2>1. TypeOK'
    <3>1. Call' = Call
      BY CallConstant
    <3> QED BY <3>1 DEF IInv, TypeOK
  <2>2. /\ \A v : Pending(v)' = Pending(v) /\ Result(v)' = Result(v)
        /\ \A c : ToDo(c)' = ToDo(c)
        /\ \A b : Scheduled(b)' = Scheduled(b) /\ TermPending(b)' = TermPending(b)
        /\ \A b, k : EdgeFeasible(b, k)' = EdgeFeasible(b, k) /\ Target(b, k)' = Target(b, k)
        /\ \A b, k : CondPending(b, k)' = CondPending(b, k) /\ EdgePending(b, k)' = EdgePending(b, k)
        /\ \A b, k, i : ArgPending(b, k, i)' = ArgPending(b, k, i) /\ Offered(b, k, i)' = Offered(b, k, i)
    BY DEF Pending, Result, Operands, ToDo, Scheduled, TermPending, EdgeFeasible, Target,
           CondPending, EdgePending, ArgPending, Offered
  <2>3. InstsCurrent' /\ InstsBelow' /\ EdgesCurrent'
    BY <2>2 DEF IInv, WorklistInvariant, InstsCurrent, InstsBelow, EdgesCurrent
  <2>4. ParamsCurrent'
    BY <2>2 DEF IInv, WorklistInvariant, ParamsCurrent
  <2>5. TargetsMarked' /\ SourcesExecutable'
    BY <2>2 DEF IInv, WorklistInvariant, TargetsMarked, SourcesExecutable
  <2> QED BY <2>1, <2>3, <2>4, <2>5 DEF IInv, WorklistInvariant
<1> QED BY <1>1, <1>2 DEF Next, Return

LEMMA Invariant == Spec => []IInv
BY InitInvariant, StepInvariant, PTL DEF Spec

(* At every moment of a run, whatever is out of date is scheduled.          *)
THEOREM WorklistCorrect == Spec => []WorklistInvariant
<1>1. IInv => WorklistInvariant
  BY DEF IInv
<1> QED BY <1>1, Invariant, PTL

LEMMA PostFixpointHolds == IInv => PostFixpoint
<1> SUFFICES ASSUME IInv, Done, NEW b \in block_exec
             PROVE  /\ \A i \in DOMAIN fn.insts[b] : vals[fn.insts[b][i]] = Result(fn.insts[b][i])
                    /\ \A k \in DOMAIN fn.succs[b] : EdgeFeasible(b, k) =>
                         /\ <<b, k>> \in edge_exec
                         /\ Target(b, k) \in block_exec
                         /\ \A i \in DOMAIN fn.params[Target(b, k)] :
                              Leq(Offered(b, k, i), vals[fn.params[Target(b, k)][i]])
  BY DEF PostFixpoint
<1>1. /\ InstsCurrent /\ EdgesCurrent /\ ParamsCurrent /\ TargetsMarked
  BY DEF IInv, WorklistInvariant
<1>2. /\ \A call : ~ToDo(call)
      /\ \A v : ~Pending(v)
      /\ \A c : ~Scheduled(c)
  BY DEF Done, ToDo, Pending, Scheduled, Elements
<1>3. \A i \in DOMAIN fn.insts[b] : vals[fn.insts[b][i]] = Result(fn.insts[b][i])
  BY <1>1, <1>2 DEF InstsCurrent
<1>4. ASSUME NEW k \in DOMAIN fn.succs[b], EdgeFeasible(b, k)
      PROVE  /\ <<b, k>> \in edge_exec
             /\ Target(b, k) \in block_exec
             /\ \A i \in DOMAIN fn.params[Target(b, k)] :
                  Leq(Offered(b, k, i), vals[fn.params[Target(b, k)][i]])
  <2>1. ~TermPending(b) /\ ~CondPending(b, k) /\ ~EdgePending(b, k)
    BY <1>2 DEF TermPending, CondPending, EdgePending
  <2>2. <<b, k>> \in edge_exec
    BY <1>1, <1>4, <2>1 DEF EdgesCurrent
  <2>3. Target(b, k) \in block_exec
    BY <1>1, <1>2, <2>2 DEF TargetsMarked
  <2>4. \A i \in DOMAIN fn.params[Target(b, k)] :
          Leq(Offered(b, k, i), vals[fn.params[Target(b, k)][i]])
    BY <1>1, <1>2, <1>4, <2>1, <2>2 DEF ParamsCurrent, ArgPending
  <2> QED BY <2>2, <2>3, <2>4
<1> QED BY <1>3, <1>4

(* The engine returns a post-fixpoint, whatever order it worked in and      *)
(* whether or not widening was used: with empty worklists nothing is out of *)
(* date.                                                                    *)
THEOREM ReturnsPostFixpoint == Spec => []PostFixpoint
BY PostFixpointHolds, Invariant, PTL

(* No step lowers a value or takes back that a block or an edge is          *)
(* executable, although visit_inst overwrites the old value.                *)
THEOREM FactsOnlyRise == Spec => RaisesOnly
<1>1. IInv /\ [Next]_vars => [Raises]_vars
  <2> SUFFICES ASSUME IInv, Step PROVE Raises
    BY DEF Next, Return
  <2>1. ValuesGrow /\ BlocksMarked /\ EdgesMarked
    BY StepEffects DEF Effects
  <2> QED BY <2>1 DEF Raises, ValuesGrow, BlocksMarked, EdgesMarked
<1> QED BY <1>1, Invariant, PTL DEF Spec, RaisesOnly

-----------------------------------------------------------------------------
(* The analysed function is executed *)

(* An execution step leaves the analysis alone.                             *)
LEMMA StepRefines == [SoundNext]_allVars => [Next]_vars
BY DEF SoundNext, Analyse, Start, Execute, ExecInst, ExecTerminator, allVars, vars, Next

(* The values the execution starts from are covered.                        *)
SeedsBelow == \A v \in Value : Leq(Seed(v), vals[v])

EntryReady == fn.entry \in block_exec /\ (~running => at = fn.entry)

SoundIInv ==
  /\ IInv /\ SeedsBelow /\ EntryReady
  /\ SoundTypeOK /\ ReachSound /\ ValuesSound

LEMMA SeedsStay ==
  ASSUME IInv, SeedsBelow, Step
  PROVE  SeedsBelow'
<1>1. TypeOK /\ WellFormed(fn) /\ vals \in [Value -> Elem]
  BY DEF IInv, TypeOK
<1>2. ValuesGrow /\ fn' = fn
  BY StepEffects DEF Effects, ValuesGrow
<1>3. ASSUME NEW v \in Value PROVE Leq(Seed(v)', vals'[v])
  <2>1. Seed(v)' = Seed(v) /\ Seed(v) \in Elem
    BY <1>1, <1>2, SeedType DEF Seed, Computed, EntryParams
  <2> QED BY <1>1, <1>2, <2>1, OrderAssumption DEF SeedsBelow, ValuesGrow
<1> QED BY <1>3 DEF SeedsBelow

LEMMA DoneStops == Step => ~Done
BY DEF Step, Done, PopBlock, PopSsa, SkipUse, VisitInst, VisitTerminator, EdgesTaken,
       MarkBlockExec, TakeEdge, UpdateParam

(* Leq carries over to what the elements stand for.                         *)
LEMMA GammaMonotone ==
  ASSUME NEW x \in Elem, NEW y \in Elem, Leq(x, y), NEW c \in Gamma(x)
  PROVE  c \in Gamma(y)
BY SoundnessAssumption

LEMMA GivenSound ==
  ASSUME WellFormed(fn), NEW v \in Value, ~Computed(v), NEW c \in Given(v)
  PROVE  c \in Gamma(Seed(v))
<1>1. c \in Concrete \/ v \in DOMAIN fn.hook \/ fn.def[v] = "const"
  BY DEF Given
<1>2. fn.lit[v] \in Literal
  BY DEF WellFormed, Shape
<1> QED BY <1>2, SoundnessAssumption DEF Given, Seed

LEMMA InitSound == SoundInit => SoundIInv
<1> SUFFICES ASSUME SoundInit PROVE SoundIInv
  OBVIOUS
<1>1. IInv /\ TypeOK /\ WellFormed(fn)
  BY InitInvariant DEF SoundInit, IInv, TypeOK
<1>2. SeedsBelow
  <2> SUFFICES ASSUME NEW v \in Value PROVE Leq(Seed(v), vals[v])
    BY DEF SeedsBelow
  <2>1. vals[v] = Seed(v) /\ Seed(v) \in Elem
    BY <1>1, SeedType DEF SoundInit, Init
  <2> QED BY <2>1, OrderAssumption
<1>3. 0 \in 0..Len(fn.insts[fn.entry]) /\ fn.entry \in Block
  <2>1. fn.entry \in Block
    BY <1>1, FunctionShape
  <2>2. fn.insts[fn.entry] \in Seq(Value)
    BY <1>1, <2>1, FunctionShape
  <2> QED BY <2>1, <2>2
<1>4. SoundTypeOK /\ ReachSound /\ ValuesSound
  BY <1>1, <1>3 DEF SoundInit, SoundTypeOK, ReachSound, ValuesSound
<1>5. EntryReady
  BY DEF SoundInit, Init, EntryReady
<1> QED BY <1>1, <1>2, <1>4, <1>5 DEF SoundIInv

(* A step of the engine happens before the execution starts.                *)
LEMMA AnalyseSound == SoundIInv /\ Analyse => SoundIInv'
<1> SUFFICES ASSUME SoundIInv, Analyse PROVE SoundIInv'
  OBVIOUS
<1>1. Step /\ IInv /\ SeedsBelow /\ SoundTypeOK /\ execVars' = execVars
  BY DEF SoundIInv, Analyse
<1>2. IInv' /\ SeedsBelow' /\ fn' = fn /\ block_exec \subseteq block_exec'
  BY <1>1, StepInvariant, SeedsStay, StepEffects DEF Next, Effects, ValuesGrow, BlocksMarked
<1>3. ~running
  <2>1. ~Done
    BY <1>1, DoneStops
  <2> QED BY <1>1, <2>1 DEF SoundTypeOK
<1>4. SoundTypeOK' /\ ReachSound' /\ ValuesSound'
  BY <1>1, <1>2, <1>3 DEF SoundTypeOK, ReachSound, ValuesSound, execVars, IInv
<1>5. EntryReady'
  BY <1>1, <1>2 DEF SoundIInv, EntryReady, execVars
<1> QED BY <1>2, <1>4, <1>5 DEF SoundIInv

(* Steps that leave the analysis as it is.                                  *)
LEMMA AnalysisKept ==
  ASSUME SoundIInv, vars' = vars
  PROVE  /\ IInv' /\ SeedsBelow' /\ TypeOK' /\ Done' = Done
         /\ fn' = fn /\ vals' = vals /\ block_exec' = block_exec
<1>1. IInv /\ SeedsBelow
  BY DEF SoundIInv
<1>2. IInv' /\ TypeOK'
  BY <1>1, StepInvariant DEF IInv
<1>3. SeedsBelow'
  BY <1>1 DEF SeedsBelow, Seed, Computed, EntryParams, vars
<1> QED BY <1>2, <1>3 DEF vars, Done

LEMMA StartSound == SoundIInv /\ Start => SoundIInv'
<1> SUFFICES ASSUME SoundIInv, Start PROVE SoundIInv'
  OBVIOUS
<1>1. WellFormed(fn) /\ vals \in [Value -> Elem] /\ SeedsBelow /\ SoundTypeOK /\ ~running
  BY DEF SoundIInv, IInv, TypeOK, Start
<1>2. PICK given \in [{v \in Value : ~Computed(v)} -> Concrete] :
        /\ \A v \in DOMAIN given : given[v] \in Given(v)
        /\ env' = [v \in Value |-> IF Computed(v) THEN Undef ELSE given[v]]
  BY DEF Start
<1>3. vars' = vars /\ at' = at /\ pos' = pos /\ running' = TRUE /\ Done
  BY DEF Start
<1>4. /\ IInv' /\ SeedsBelow' /\ TypeOK' /\ Done'
      /\ fn' = fn /\ vals' = vals /\ block_exec' = block_exec
  BY <1>3, AnalysisKept
<1>5. env' \in [Value -> Concrete \union {Undef}]
  BY <1>2
<1>6. SoundTypeOK'
  BY <1>1, <1>3, <1>4, <1>5 DEF SoundTypeOK
<1>7. ReachSound'
  BY <1>1, <1>3, <1>4 DEF SoundIInv, EntryReady, ReachSound
<1>8. EntryReady'
  BY <1>3, <1>4 DEF SoundIInv, EntryReady
<1>9. ValuesSound'
  <2> SUFFICES ASSUME NEW v \in Value, env'[v] # Undef PROVE env'[v] \in Gamma(vals[v])
    BY <1>4 DEF ValuesSound
  <2>1. ~Computed(v) /\ env'[v] \in Given(v)
    BY <1>2
  <2>2. env'[v] \in Gamma(Seed(v))
    BY <1>1, <2>1, GivenSound
  <2>3. Seed(v) \in Elem /\ vals[v] \in Elem /\ Leq(Seed(v), vals[v])
    BY <1>1, SeedType DEF SeedsBelow
  <2> QED BY <2>2, <2>3, GammaMonotone
<1> QED BY <1>4, <1>6, <1>7, <1>8, <1>9 DEF SoundIInv

(* One instruction: the abstract transfer covers its result.                *)
LEMMA ExecInstSound == SoundIInv /\ ExecInst => SoundIInv'
<1> SUFFICES ASSUME SoundIInv, ExecInst PROVE SoundIInv'
  OBVIOUS
<1> DEFINE v == fn.insts[at][pos + 1]
<1>1. /\ WellFormed(fn) /\ vals \in [Value -> Elem] /\ IInv /\ PostFixpoint
      /\ SoundTypeOK /\ ReachSound /\ ValuesSound /\ EntryReady
  BY PostFixpointHolds DEF SoundIInv, IInv, TypeOK
<1>2. /\ vars' = vars /\ at' = at /\ pos' = pos + 1 /\ running' = running /\ running
      /\ pos < Len(fn.insts[at]) /\ Done /\ at \in block_exec /\ at \in Block
      /\ pos \in 0..Len(fn.insts[at])
      /\ env \in [Value -> Concrete \union {Undef}]
  BY <1>1 DEF ExecInst, SoundTypeOK, ReachSound
<1>3. /\ IInv' /\ SeedsBelow' /\ TypeOK' /\ Done'
      /\ fn' = fn /\ vals' = vals /\ block_exec' = block_exec
  BY <1>2, AnalysisKept
<1>4. fn.insts[at] \in Seq(Value)
  BY <1>1, <1>2, FunctionShape
<1>5. pos + 1 \in DOMAIN fn.insts[at] /\ pos + 1 \in 0..Len(fn.insts[at])
  BY <1>2, <1>4
<1>6. v \in Value /\ fn.def[v] = "inst" /\ vals[v] = Result(v)
  BY <1>1, <1>2, <1>5, InstType DEF PostFixpoint
<1>7. /\ fn.op[v] \in Opcode /\ fn.ops[v] \in Seq(Value)
      /\ DOMAIN fn.ops[v] = 1..Arity[fn.op[v]]
      /\ Operands(v) \in OperandLists(fn.op[v], Elem)
  BY <1>1, <1>6, OperandsType
<1>8. PICK r \in Eval(fn.op[v], ConcreteOperands(v)) : env' = [env EXCEPT ![v] = r]
  BY DEF ExecInst
<1>9. \A i \in DOMAIN fn.ops[v] : env[fn.ops[v][i]] # Undef
  BY DEF ExecInst
<1> HIDE DEF v
<1>10. \A i \in DOMAIN fn.ops[v] :
         /\ ConcreteOperands(v)[i] \in Concrete
         /\ ConcreteOperands(v)[i] \in Gamma(Operands(v)[i])
  <2> SUFFICES ASSUME NEW i \in DOMAIN fn.ops[v]
               PROVE  env[fn.ops[v][i]] \in Concrete /\ env[fn.ops[v][i]] \in Gamma(vals[fn.ops[v][i]])
    BY DEF ConcreteOperands, Operands
  <2>1. fn.ops[v] \in Seq(Value)
    BY <1>7
  <2>2. fn.ops[v][i] \in Value
    BY <2>1
  <2> QED BY <1>1, <1>2, <1>9, <2>2 DEF ValuesSound
<1>11. ConcreteOperands(v) \in OperandLists(fn.op[v], Concrete)
  BY <1>7, <1>10 DEF OperandLists, ConcreteOperands
<1>12. r \in Gamma(vals[v]) /\ r \in Concrete
  <2>1. Eval(fn.op[v], ConcreteOperands(v)) \subseteq Concrete
    BY <1>7, <1>11, ConcreteAssumption
  <2>2. DOMAIN Operands(v) = DOMAIN fn.ops[v]
    BY DEF Operands
  <2>3. Eval(fn.op[v], ConcreteOperands(v)) \subseteq Gamma(Transfer(fn.op[v], Operands(v)))
    BY <1>7, <1>10, <1>11, <2>2, SoundnessAssumption
  <2> QED BY <1>6, <2>1, <2>3 DEF Result
<1>13. SoundTypeOK'
  BY <1>2, <1>3, <1>5, <1>8, <1>12 DEF SoundTypeOK
<1>14. ValuesSound'
  BY <1>1, <1>2, <1>3, <1>6, <1>8, <1>12 DEF ValuesSound
<1>15. ReachSound' /\ EntryReady'
  BY <1>1, <1>2, <1>3 DEF ReachSound, EntryReady
<1> QED BY <1>3, <1>13, <1>14, <1>15 DEF SoundIInv

(* A taken edge is one the engine found feasible.                           *)
LEMMA TakenFeasible ==
  ASSUME SoundIInv, running, NEW k \in DOMAIN fn.succs[at], Takes(k)
  PROVE  EdgeFeasible(at, k)
<1>1. /\ WellFormed(fn) /\ vals \in [Value -> Elem] /\ ValuesSound /\ at \in Block
      /\ env \in [Value -> Concrete \union {Undef}]
  BY DEF SoundIInv, IInv, TypeOK, SoundTypeOK
<1>2. /\ fn.succs[at][k].guard \in Guard \union {Always}
      /\ fn.cond[at] \in Value
  BY <1>1, EdgeType, FunctionShape
<1>3. CASE fn.succs[at][k].guard = Always
  BY <1>3 DEF EdgeFeasible
<1>4. CASE fn.succs[at][k].guard # Always
  <2>1. env[fn.cond[at]] # Undef /\ Satisfies(env[fn.cond[at]], fn.succs[at][k].guard)
    BY <1>4 DEF Takes
  <2>2. env[fn.cond[at]] \in Gamma(vals[fn.cond[at]]) /\ vals[fn.cond[at]] \in Elem
    BY <1>1, <1>2, <2>1 DEF ValuesSound
  <2> QED BY <1>2, <1>4, <2>1, <2>2, SoundnessAssumption DEF EdgeFeasible
<1> QED BY <1>3, <1>4

(* One transfer of control: the parameters absorbed the arguments.          *)
LEMMA ExecTerminatorSound ==
  ASSUME SoundIInv, NEW k \in DOMAIN fn.succs[at], ExecTerminator(k)
  PROVE  SoundIInv' /\ <<at, k>> \in edge_exec
<1> DEFINE target == Target(at, k)
           params == fn.params[target]
           args == fn.succs[at][k].args
<1>1. /\ WellFormed(fn) /\ vals \in [Value -> Elem] /\ IInv /\ PostFixpoint
      /\ SoundTypeOK /\ ReachSound /\ ValuesSound /\ EntryReady
  BY PostFixpointHolds DEF SoundIInv, IInv, TypeOK
<1>2. /\ vars' = vars /\ at' = target /\ pos' = 0 /\ running' = running /\ running
      /\ Done /\ at \in block_exec /\ at \in Block /\ Takes(k)
      /\ env \in [Value -> Concrete \union {Undef}]
  BY <1>1 DEF ExecTerminator, SoundTypeOK, ReachSound
<1>3. /\ IInv' /\ SeedsBelow' /\ TypeOK' /\ Done'
      /\ fn' = fn /\ vals' = vals /\ block_exec' = block_exec
  BY <1>2, AnalysisKept
<1>4. /\ <<at, k>> \in edge_exec /\ target \in block_exec
      /\ \A i \in DOMAIN params : Leq(Offered(at, k, i), vals[params[i]])
  BY <1>1, <1>2, TakenFeasible DEF PostFixpoint
<1>5. target \in Block /\ args \in Seq(Value) /\ params \in Seq(Value)
  BY <1>1, <1>2, EdgeType, FunctionShape
<1>6. \A v \in Value :
        \/ v \notin Elements(params) /\ env'[v] = env[v]
        \/ \E i \in DOMAIN params :
             /\ params[i] = v
             /\ env'[v] = IF i \in DOMAIN args THEN env[args[i]] ELSE Undef
  <2> SUFFICES ASSUME NEW v \in Value, v \in Elements(params)
               PROVE  \E i \in DOMAIN params :
                        /\ params[i] = v
                        /\ env'[v] = IF i \in DOMAIN args THEN env[args[i]] ELSE Undef
    BY DEF ExecTerminator, Passed
  <2> DEFINE i == CHOOSE n \in DOMAIN params : params[n] = v
  <2>1. i \in DOMAIN params /\ params[i] = v
    BY DEF Elements
  <2>2. env'[v] = IF i \in DOMAIN args THEN env[args[i]] ELSE Undef
    BY DEF ExecTerminator, Passed
  <2> HIDE DEF i
  <2> QED BY <2>1, <2>2
<1> HIDE DEF target, params, args
<1>7. \A i \in DOMAIN args : args[i] \in Value
  BY <1>5
<1>8. env' \in [Value -> Concrete \union {Undef}]
  <2>1. \A v \in Value : env'[v] \in Concrete \union {Undef}
    BY <1>2, <1>6, <1>7
  <2>2. env' = [v \in Value |-> env'[v]]
    BY DEF ExecTerminator
  <2> QED BY <2>1, <2>2
<1>9. ValuesSound'
  <2> SUFFICES ASSUME NEW v \in Value, env'[v] # Undef PROVE env'[v] \in Gamma(vals[v])
    BY <1>3 DEF ValuesSound
  <2>1. CASE env'[v] = env[v]
    BY <1>1, <1>2, <2>1 DEF ValuesSound
  <2>2. ASSUME NEW i \in DOMAIN params, params[i] = v, i \in DOMAIN args, env'[v] = env[args[i]]
        PROVE  env'[v] \in Gamma(vals[v])
    <3>1. env[args[i]] \in Gamma(vals[args[i]]) /\ vals[args[i]] \in Elem /\ vals[v] \in Elem
      BY <1>1, <1>2, <1>7, <2>2 DEF ValuesSound
    <3>2. Offered(at, k, i) = vals[args[i]]
      BY <2>2 DEF Offered, args
    <3>3. Leq(vals[args[i]], vals[v])
      BY <1>4, <2>2, <3>2
    <3> QED BY <2>2, <3>1, <3>3, GammaMonotone
  <2> QED BY <1>6, <2>1, <2>2
<1>10. SoundTypeOK'
  <2>1. fn.insts[target] \in Seq(Value)
    BY <1>1, <1>5, FunctionShape
  <2>2. 0 \in 0..Len(fn.insts[target])
    BY <2>1
  <2> QED BY <1>2, <1>3, <1>5, <1>8, <2>2, <1>1 DEF SoundTypeOK
<1>11. ReachSound' /\ EntryReady'
  BY <1>1, <1>2, <1>3, <1>4 DEF ReachSound, EntryReady
<1> QED BY <1>3, <1>4, <1>9, <1>10, <1>11 DEF SoundIInv

LEMMA SoundStep == SoundIInv /\ [SoundNext]_allVars => SoundIInv'
<1> SUFFICES ASSUME SoundIInv, [SoundNext]_allVars PROVE SoundIInv'
  OBVIOUS
<1>1. CASE UNCHANGED allVars
  <2>1. vars' = vars /\ env' = env /\ at' = at /\ pos' = pos /\ running' = running
    BY <1>1 DEF allVars, execVars
  <2>2. /\ IInv' /\ SeedsBelow' /\ TypeOK' /\ Done' = Done
        /\ fn' = fn /\ vals' = vals /\ block_exec' = block_exec
    BY <2>1, AnalysisKept
  <2> QED BY <2>1, <2>2 DEF SoundIInv, EntryReady, SoundTypeOK, ReachSound, ValuesSound
<1> QED BY <1>1, AnalyseSound, StartSound, ExecInstSound, ExecTerminatorSound DEF SoundNext, Execute

LEMMA SoundInvariant == SoundSpec => []SoundIInv
BY InitSound, SoundStep, PTL DEF SoundSpec

(* Beside an engine that is done, an execution is always at an instruction  *)
(* of the function or at the terminator of its block, and holds bit         *)
(* patterns and poison only.                                                *)
THEOREM SoundTypesCorrect == SoundSpec => []SoundTypeOK
<1>1. SoundIInv => SoundTypeOK
  BY DEF SoundIInv
<1> QED BY <1>1, SoundInvariant, PTL

(* No value computed at run time is outside what its abstract value stands  *)
(* for.                                                                     *)
THEOREM ValuesAreSound == SoundSpec => []ValuesSound
<1>1. SoundIInv => ValuesSound
  BY DEF SoundIInv
<1> QED BY <1>1, SoundInvariant, PTL

(* Control is only ever in a block the engine proved executable.            *)
THEOREM ReachabilityIsSound == SoundSpec => []ReachSound
<1>1. SoundIInv => ReachSound
  BY DEF SoundIInv
<1> QED BY <1>1, SoundInvariant, PTL

(* Control never takes an edge the engine left out.                         *)
THEOREM EdgesAreSound == SoundSpec => EdgesSound
<1>1. SoundIInv /\ [SoundNext]_allVars =>
        [\A k \in DOMAIN fn.succs[at] : ExecTerminator(k) => <<at, k>> \in edge_exec]_allVars
  BY ExecTerminatorSound
<1> QED BY <1>1, SoundInvariant, PTL DEF SoundSpec, EdgesSound

-----------------------------------------------------------------------------
(* The result is the least one: at no moment does the engine claim what     *)
(* some solution of the equations does not.                                 *)

ResultBelow(s) ==
  /\ block_exec \subseteq s.exec
  /\ \A v \in Value : Leq(vals[v], s.vals[v])

(* The work that is left is about edges and blocks the solution has too.    *)
CallsBelow(s) ==
  /\ \A b \in Block : \A left \in SUBSET DOMAIN fn.succs[b] : ToDo(EdgesCall(b, left)) =>
       b \in s.exec /\ \A k \in left : Admits(s, b, k)
  /\ \A b \in Block : \A k \in DOMAIN fn.succs[b] : \A i \in DOMAIN fn.params[Target(b, k)] :
       ToDo(ParamCall(b, k, i)) => b \in s.exec /\ Admits(s, b, k)
  /\ \A b \in Block : ToDo(MarkCall(b)) => b \in s.exec

LeastInv == WidensExactly => \A s : Solves(s) => ResultBelow(s) /\ CallsBelow(s)

LEMMA SolutionTypes ==
  ASSUME NEW s, Solves(s)
  PROVE  s.vals \in [Value -> Elem] /\ s.exec \subseteq Block
BY DEF Solves

(* What a solution is does not change.                                      *)
LEMMA SolvesKept ==
  ASSUME fn' = fn, NEW s
  PROVE  /\ Solves(s)' = Solves(s) /\ WidensExactly' = WidensExactly
         /\ \A b, k : Admits(s, b, k)' = Admits(s, b, k) /\ Target(b, k)' = Target(b, k)
BY DEF Solves, WidensExactly, Seeds, Seed, Computed, EntryParams, Computes, Admits, Offers, Target

(* An edge feasible for the engine is one for the solution.                 *)
LEMMA FeasibleBelow ==
  ASSUME TypeOK, NEW s, Solves(s), ResultBelow(s),
         NEW b \in Block, NEW k \in DOMAIN fn.succs[b], EdgeFeasible(b, k)
  PROVE  Admits(s, b, k)
<1>1. /\ vals \in [Value -> Elem] /\ s.vals \in [Value -> Elem] /\ fn.cond[b] \in Value
      /\ fn.succs[b][k].guard \in Guard \union {Always}
  BY SolutionTypes, FunctionShape, EdgeType DEF TypeOK
<1>2. /\ vals[fn.cond[b]] \in Elem /\ s.vals[fn.cond[b]] \in Elem
      /\ Leq(vals[fn.cond[b]], s.vals[fn.cond[b]])
  BY <1>1 DEF ResultBelow
<1>3. CASE fn.succs[b][k].guard = Always
  BY <1>3 DEF Admits
<1>4. CASE fn.succs[b][k].guard \in Guard /\ Feasible(vals[fn.cond[b]], fn.succs[b][k].guard)
  BY <1>2, <1>4, PrecisionAssumption DEF Admits
<1> QED BY <1>1, <1>3, <1>4 DEF EdgeFeasible

(* The new value of an instruction is below the solution's.                 *)
LEMMA InstBelow ==
  ASSUME TypeOK, NEW s, Solves(s), ResultBelow(s), NEW v \in Value, InstExecutable(v)
  PROVE  Result(v) \in Elem /\ Leq(Result(v), s.vals[v])
<1> DEFINE new == [j \in DOMAIN fn.ops[v] |-> s.vals[fn.ops[v][j]]]
<1>1. PICK b \in block_exec : v \in Elements(fn.insts[b])
  BY DEF InstExecutable
<1>2. /\ b \in Block /\ WellFormed(fn) /\ vals \in [Value -> Elem]
      /\ s.vals \in [Value -> Elem] /\ b \in s.exec
  BY <1>1, SolutionTypes DEF TypeOK, ResultBelow
<1>3. PICK i \in DOMAIN fn.insts[b] : v = fn.insts[b][i]
  BY <1>1 DEF Elements
<1>4. fn.def[v] = "inst"
  BY <1>2, <1>3, InstType
<1>5. /\ fn.op[v] \in Opcode /\ fn.ops[v] \in Seq(Value)
      /\ DOMAIN fn.ops[v] = 1..Arity[fn.op[v]]
      /\ Operands(v) \in OperandLists(fn.op[v], Elem) /\ Result(v) \in Elem
  BY <1>2, <1>4, OperandsType
<1>6. \A j \in DOMAIN fn.ops[v] : fn.ops[v][j] \in Value
  <2>1. fn.ops[v] \in Seq(Value)
    BY <1>5
  <2> QED BY <2>1
<1>7. new \in OperandLists(fn.op[v], Elem)
  BY <1>2, <1>5, <1>6 DEF OperandLists
<1>8. \A j \in DOMAIN Operands(v) : Leq(Operands(v)[j], new[j])
  BY <1>6 DEF ResultBelow, Operands
<1>9. Computes(s, v) = Transfer(fn.op[v], new)
  BY DEF Computes
<1> HIDE DEF new
<1>10. Leq(Result(v), Computes(s, v)) /\ Computes(s, v) \in Elem
  BY <1>5, <1>7, <1>8, <1>9, MonotoneAssumption, ElementAssumption DEF Result
<1>11. Leq(Computes(s, v), s.vals[v])
  BY <1>2, <1>3 DEF Solves
<1>12. s.vals[v] \in Elem
  BY <1>2
<1> QED BY <1>5, <1>10, <1>11, <1>12, OrderAssumption

(* And so is the new value of a parameter, when widening is exact.          *)
LEMMA ParamBelow ==
  ASSUME TypeOK, WidensExactly, NEW s, Solves(s), ResultBelow(s),
         NEW b \in Block, NEW k \in DOMAIN fn.succs[b],
         NEW i \in DOMAIN fn.params[Target(b, k)], b \in s.exec, Admits(s, b, k),
         UpdateParam(b, k, i)
  PROVE  LET param == fn.params[Target(b, k)][i]
         IN  /\ param \in Value
             /\ \E new \in Elem : Update(param, new) /\ Leq(new, s.vals[param])
<1> DEFINE param == fn.params[Target(b, k)][i]
           offered == Offered(b, k, i)
           joined == Join(vals[param], offered)
           new == IF Target(b, k) \in fn.header THEN Widen(vals[param], joined) ELSE joined
<1>1. WellFormed(fn) /\ vals \in [Value -> Elem] /\ s.vals \in [Value -> Elem]
  BY SolutionTypes DEF TypeOK
<1>2. Target(b, k) \in Block /\ fn.succs[b][k].args \in Seq(Value)
  BY <1>1, EdgeType
<1>3. param \in Value
  BY <1>1, <1>2, ParamType
<1>4. vals[param] \in Elem /\ offered \in Elem /\ s.vals[param] \in Elem
  BY <1>1, <1>3, OfferedType
<1>5. Leq(vals[param], s.vals[param])
  BY <1>3 DEF ResultBelow
<1>6. Leq(offered, s.vals[param])
  <2>1. Leq(Offers(s, b, k, i), s.vals[param])
    BY DEF Solves
  <2>2. CASE i \in DOMAIN fn.succs[b][k].args
    <3>1. fn.succs[b][k].args[i] \in Value
      BY <1>2, <2>2
    <3>2. /\ offered = vals[fn.succs[b][k].args[i]]
          /\ Offers(s, b, k, i) = s.vals[fn.succs[b][k].args[i]]
      BY <2>2 DEF Offered, Offers
    <3>3. Leq(offered, Offers(s, b, k, i)) /\ Offers(s, b, k, i) \in Elem
      BY <1>1, <3>1, <3>2 DEF ResultBelow
    <3> HIDE DEF param, offered
    <3> QED BY <1>4, <2>1, <3>3, OrderAssumption
  <2>3. CASE i \notin DOMAIN fn.succs[b][k].args
    <3>1. offered = Top /\ Offers(s, b, k, i) = Top
      BY <2>3 DEF Offered, Offers
    <3> QED BY <2>1, <3>1
  <2> QED BY <2>2, <2>3
<1>7. Update(param, new)
  BY DEF UpdateParam
<1> HIDE DEF param, offered
<1>8. joined \in Elem /\ Leq(joined, s.vals[param])
  BY <1>4, <1>5, <1>6, ElementAssumption, PrecisionAssumption
<1> HIDE DEF joined
<1>9. new \in Elem /\ Leq(new, s.vals[param])
  <2>1. CASE Target(b, k) \in fn.header
    <3>1. new = Widen(vals[param], joined) /\ WidenIsLeast
      BY <2>1 DEF WidensExactly
    <3> QED BY <1>4, <1>5, <1>8, <3>1, ElementAssumption DEF WidenIsLeast
  <2>2. CASE Target(b, k) \notin fn.header
    BY <1>8, <2>2
  <2> QED BY <2>1, <2>2
<1> HIDE DEF new
<1>10. param \in Value /\ \E n \in Elem : Update(param, n) /\ Leq(n, s.vals[param])
  BY <1>3, <1>7, <1>9
<1> QED BY <1>10 DEF param

(* A value that is updated to one below the solution's.                     *)
LEMMA UpdateBelow ==
  ASSUME TypeOK, NEW s, ResultBelow(s), NEW v \in Value, NEW new \in Elem,
         Update(v, new), Leq(new, s.vals[v]), block_exec' = block_exec
  PROVE  ResultBelow(s)'
<1>1. vals \in [Value -> Elem] /\ vals' = [vals EXCEPT ![v] = new]
  BY UpdateEffect DEF TypeOK
<1> QED BY <1>1 DEF ResultBelow

(* A handler that makes no call.                                            *)
LEMMA CallsBelowKept ==
  ASSUME NEW s, CallsBelow(s), fn' = fn, \A call : ToDo(call)' => ToDo(call)
  PROVE  CallsBelow(s)'
<1>1. \A b, k : Admits(s, b, k)' = Admits(s, b, k) /\ Target(b, k)' = Target(b, k)
  BY SolvesKept
<1> QED BY <1>1 DEF CallsBelow

(* A handler whose calls are visits to instructions and terminators.        *)
LEMMA UsesBelow ==
  ASSUME NEW s, \A call : ToDo(call)' => \/ \E v : call = InstCall(v)
                                         \/ \E b : call = TermCall(b)
  PROVE  CallsBelow(s)'
BY CallsDiffer DEF CallsBelow

LEMMA StepBelow ==
  ASSUME IInv, Step, WidensExactly, NEW s, Solves(s), ResultBelow(s), CallsBelow(s)
  PROVE  ResultBelow(s)' /\ CallsBelow(s)'
<1>1. TypeOK /\ WellFormed(fn) /\ fn' = fn /\ s.exec \subseteq Block /\ block_exec \subseteq Block
  BY StepEffects, SolutionTypes DEF IInv, TypeOK, Effects, ValuesGrow
<1>2. \A b, k : Admits(s, b, k)' = Admits(s, b, k) /\ Target(b, k)' = Target(b, k)
  BY <1>1, SolvesKept
<1>3. ASSUME vals' = vals, block_exec' = block_exec PROVE ResultBelow(s)'
  BY <1>3 DEF ResultBelow
<1>4. CASE PopBlock
  <2>1. ResultBelow(s)'
    BY <1>3, <1>4 DEF PopBlock
  <2>2. CallsBelow(s)'
    BY <1>1, <1>4, PopBlockTodo, UsesBelow DEF ToDo
  <2> QED BY <2>1, <2>2
<1>5. CASE PopSsa
  <2>1. ResultBelow(s)'
    BY <1>3, <1>5 DEF PopSsa
  <2>2. Head(ssa_wl) \in Value /\ todo' = fn.uses[Head(ssa_wl)]
    BY <1>1, <1>5 DEF PopSsa, TypeOK
  <2>3. Elements(todo') \subseteq Use
    BY <1>1, <2>2, FunctionShape, ElementsMember
  <2>4. CallsBelow(s)'
    BY <2>3, UsesBelow DEF Use, ToDo
  <2> QED BY <2>1, <2>4
<1>6. CASE SkipUse
  <2>1. ResultBelow(s)'
    BY <1>3, <1>6 DEF SkipUse
  <2>2. CallsBelow(s)'
    BY <1>1, <1>6, PoppedOnly, CallsBelowKept DEF SkipUse
  <2> QED BY <2>1, <2>2
<1>7. ASSUME NEW v \in Value, VisitInst(v) PROVE ResultBelow(s)' /\ CallsBelow(s)'
  <2>1. Update(v, Result(v)) /\ InstExecutable(v) /\ block_exec' = block_exec
    BY <1>7 DEF VisitInst
  <2>2. ResultBelow(s)'
    BY <1>1, <2>1, InstBelow, UpdateBelow
  <2>3. CallsBelow(s)'
    BY <1>1, <1>7, PoppedOnly, CallsBelowKept DEF VisitInst
  <2> QED BY <2>2, <2>3
<1>8. ASSUME NEW b \in Block, VisitTerminator(b) PROVE ResultBelow(s)' /\ CallsBelow(s)'
  <2> DEFINE feasible == {k \in DOMAIN fn.succs[b] : EdgeFeasible(b, k)}
  <2>1. ResultBelow(s)'
    BY <1>3, <1>8 DEF VisitTerminator
  <2>2. b \in s.exec /\ \A k \in feasible : Admits(s, b, k)
    BY <1>1, <1>8, FeasibleBelow DEF VisitTerminator, ResultBelow
  <2>3. \A call : ToDo(call)' => ToDo(call) \/ call = EdgesCall(b, feasible)
    BY <1>1, <1>8, VisitTerminatorTodo, HeadTodo DEF ToDo, VisitTerminator
  <2> HIDE DEF feasible
  <2>4. ASSUME NEW c \in Block, NEW left \in SUBSET DOMAIN fn.succs[c], ToDo(EdgesCall(c, left))'
        PROVE  c \in s.exec /\ \A k \in left : Admits(s, c, k)
    <3>1. CASE ToDo(EdgesCall(c, left))
      BY <3>1 DEF CallsBelow
    <3>2. CASE c = b /\ left = feasible
      BY <2>2, <3>2
    <3> QED BY <2>3, <2>4, <3>1, <3>2, CallsDiffer
  <2>5. CallsBelow(s)'
    BY <1>1, <1>2, <2>3, <2>4, CallsDiffer DEF CallsBelow
  <2> QED BY <2>1, <2>5
<1>9. ASSUME NEW b \in Block, EdgesTaken(b) PROVE ResultBelow(s)' /\ CallsBelow(s)'
  <2>1. ResultBelow(s)'
    BY <1>3, <1>9 DEF EdgesTaken
  <2>2. CallsBelow(s)'
    BY <1>1, <1>9, PoppedOnly, CallsBelowKept DEF EdgesTaken
  <2> QED BY <2>1, <2>2
<1>10. ASSUME NEW b \in Block, MarkBlockExec(b) PROVE ResultBelow(s)' /\ CallsBelow(s)'
  <2>1. ToDo(MarkCall(b))
    BY <1>1, <1>10, HeadTodo DEF MarkBlockExec, ToDo
  <2>2. b \in s.exec
    BY <2>1 DEF CallsBelow
  <2>3. ResultBelow(s)'
    BY <1>10, <2>2 DEF MarkBlockExec, ResultBelow
  <2>4. CallsBelow(s)'
    BY <1>1, <1>10, PoppedOnly, CallsBelowKept DEF MarkBlockExec
  <2> QED BY <2>3, <2>4
<1>11. ASSUME NEW b \in Block, NEW k \in DOMAIN fn.succs[b], TakeEdge(b, k)
       PROVE  ResultBelow(s)' /\ CallsBelow(s)'
  <2>1. ResultBelow(s)'
    BY <1>3, <1>11 DEF TakeEdge
  <2>2. PICK left \in SUBSET DOMAIN fn.succs[b] :
          /\ Head(todo) = EdgesCall(b, left)
          /\ k \in left
          /\ Elements(todo') =
               {ParamCall(b, k, i) : i \in DOMAIN fn.params[Target(b, k)]}
               \union {MarkCall(Target(b, k)), EdgesCall(b, left \ {k})}
               \union Elements(Tail(todo))
    BY <1>1, <1>11, TakeEdgeTodo
  <2>3. ToDo(EdgesCall(b, left)) /\ Elements(Tail(todo)) \subseteq Elements(todo)
    BY <1>1, <1>11, <2>2, HeadTodo DEF TakeEdge, ToDo
  <2>4. b \in s.exec /\ \A j \in left : Admits(s, b, j)
    BY <2>3 DEF CallsBelow
  <2>5. Target(b, k) \in s.exec
    BY <2>2, <2>4 DEF Solves
  <2>6. \A call : ToDo(call)' => \/ ToDo(call) \/ call = MarkCall(Target(b, k))
                                 \/ call = EdgesCall(b, left \ {k})
                                 \/ \E i : call = ParamCall(b, k, i)
    BY <2>2, <2>3 DEF ToDo
  <2>7. ASSUME NEW c \in Block, NEW m \in SUBSET DOMAIN fn.succs[c], ToDo(EdgesCall(c, m))'
        PROVE  c \in s.exec /\ \A j \in m : Admits(s, c, j)
    <3>1. CASE ToDo(EdgesCall(c, m))
      BY <3>1 DEF CallsBelow
    <3>2. CASE c = b /\ m = left \ {k}
      BY <2>4, <3>2
    <3> QED BY <2>6, <2>7, <3>1, <3>2, CallsDiffer
  <2>8. ASSUME NEW c \in Block, NEW j \in DOMAIN fn.succs[c],
               NEW i \in DOMAIN fn.params[Target(c, j)], ToDo(ParamCall(c, j, i))'
        PROVE  c \in s.exec /\ Admits(s, c, j)
    <3>1. CASE ToDo(ParamCall(c, j, i))
      BY <3>1 DEF CallsBelow
    <3>2. CASE c = b /\ j = k
      BY <2>2, <2>4, <3>2
    <3> QED BY <2>6, <2>8, <3>1, <3>2, CallsDiffer
  <2>9. ASSUME NEW c \in Block, ToDo(MarkCall(c))' PROVE c \in s.exec
    <3>1. CASE ToDo(MarkCall(c))
      BY <3>1 DEF CallsBelow
    <3>2. CASE c = Target(b, k)
      BY <2>5, <3>2
    <3> QED BY <2>6, <2>9, <3>1, <3>2, CallsDiffer
  <2>10. CallsBelow(s)'
    BY <1>1, <1>2, <2>7, <2>8, <2>9 DEF CallsBelow
  <2> QED BY <2>1, <2>10
<1>12. ASSUME NEW b \in Block, NEW k \in DOMAIN fn.succs[b],
              NEW i \in DOMAIN fn.params[Target(b, k)], UpdateParam(b, k, i)
       PROVE  ResultBelow(s)' /\ CallsBelow(s)'
  <2>1. ToDo(ParamCall(b, k, i)) /\ block_exec' = block_exec
    BY <1>1, <1>12, HeadTodo DEF UpdateParam, ToDo
  <2>2. b \in s.exec /\ Admits(s, b, k)
    BY <2>1 DEF CallsBelow
  <2>3. PICK v \in Value : \E new \in Elem : Update(v, new) /\ Leq(new, s.vals[v])
    BY <1>1, <1>12, <2>2, ParamBelow
  <2>4. ResultBelow(s)'
    BY <1>1, <2>1, <2>3, UpdateBelow
  <2>5. CallsBelow(s)'
    BY <1>1, <1>12, PoppedOnly, CallsBelowKept DEF UpdateParam
  <2> QED BY <2>4, <2>5
<1> QED BY <1>4, <1>5, <1>6, <1>7, <1>8, <1>9, <1>10, <1>11, <1>12 DEF Step

LEMMA InitBelow == SoundInit => LeastInv
<1> SUFFICES ASSUME SoundInit, NEW s, Solves(s) PROVE ResultBelow(s) /\ CallsBelow(s)
  BY DEF LeastInv
<1>1. CallsBelow(s)
  BY NothingToDo DEF SoundInit, Init, CallsBelow
<1>2. ResultBelow(s)
  BY DEF SoundInit, Init, Solves, Seeds, ResultBelow
<1> QED BY <1>1, <1>2

LEMMA LeastStep == SoundIInv /\ LeastInv /\ [SoundNext]_allVars => LeastInv'
<1> SUFFICES ASSUME SoundIInv, LeastInv, [SoundNext]_allVars, WidensExactly', NEW s, Solves(s)'
             PROVE  ResultBelow(s)' /\ CallsBelow(s)'
  BY DEF LeastInv
<1>1. CASE Step
  <2>1. IInv /\ fn' = fn
    BY <1>1, StepEffects DEF SoundIInv, Effects, ValuesGrow
  <2>2. WidensExactly /\ Solves(s)
    BY <2>1, SolvesKept
  <2> QED BY <1>1, <2>1, <2>2, StepBelow DEF LeastInv
<1>2. CASE vars' = vars
  <2>1. fn' = fn /\ vals' = vals /\ block_exec' = block_exec /\ todo' = todo
    BY <1>2 DEF vars
  <2>2. WidensExactly /\ Solves(s)
    BY <2>1, SolvesKept
  <2>3. ResultBelow(s) /\ CallsBelow(s)
    BY <2>2 DEF LeastInv
  <2>4. ResultBelow(s)'
    BY <2>1, <2>3 DEF ResultBelow
  <2>5. CallsBelow(s)'
    BY <2>1, <2>3, CallsBelowKept DEF ToDo
  <2> QED BY <2>4, <2>5
<1> QED BY <1>1, <1>2 DEF SoundNext, Analyse, Start, Execute, ExecInst, ExecTerminator, allVars

(* When it is done, its own result is a solution.                           *)
LEMMA ResultSolves ==
  ASSUME SoundIInv, Done
  PROVE  Solves([vals |-> vals, exec |-> block_exec])
<1> DEFINE r == [vals |-> vals, exec |-> block_exec]
<1>1. /\ TypeOK /\ WellFormed(fn) /\ vals \in [Value -> Elem] /\ block_exec \subseteq Block
      /\ SeedsBelow /\ fn.entry \in block_exec
  BY DEF SoundIInv, IInv, TypeOK, EntryReady
<1>2. PostFixpoint
  BY PostFixpointHolds DEF SoundIInv
<1>3. \A v : Computes(r, v) = Result(v)
  BY DEF Computes, Result, Operands
<1>4. \A b, k : Admits(r, b, k) = EdgeFeasible(b, k)
  BY DEF Admits, EdgeFeasible
<1>5. \A b, k, i : Offers(r, b, k, i) = Offered(b, k, i)
  BY DEF Offers, Offered
<1>6. r \in [vals : [Value -> Elem], exec : SUBSET Block]
  BY <1>1
<1>7. \A v \in Value : Leq(Seeds[v], vals[v])
  BY <1>1 DEF Seeds, SeedsBelow
<1>8. ASSUME NEW b \in block_exec, NEW i \in DOMAIN fn.insts[b]
      PROVE  Leq(Computes(r, fn.insts[b][i]), vals[fn.insts[b][i]])
  <2>1. fn.insts[b][i] \in Value
    BY <1>1, InstType
  <2>2. vals[fn.insts[b][i]] = Result(fn.insts[b][i]) /\ vals[fn.insts[b][i]] \in Elem
    BY <1>1, <1>2, <2>1 DEF PostFixpoint
  <2> QED BY <1>3, <2>2, OrderAssumption
<1>9. ASSUME NEW b \in block_exec, NEW k \in DOMAIN fn.succs[b], Admits(r, b, k)
      PROVE  /\ Target(b, k) \in block_exec
             /\ \A i \in DOMAIN fn.params[Target(b, k)] :
                  Leq(Offers(r, b, k, i), vals[fn.params[Target(b, k)][i]])
  <2> HIDE DEF r
  <2>1. EdgeFeasible(b, k)
    BY <1>4, <1>9
  <2>2. /\ Target(b, k) \in block_exec
        /\ \A i \in DOMAIN fn.params[Target(b, k)] :
             Leq(Offered(b, k, i), vals[fn.params[Target(b, k)][i]])
    BY <1>2, <2>1 DEF PostFixpoint
  <2> QED BY <1>5, <2>2
<1>10. r.vals = vals /\ r.exec = block_exec
  OBVIOUS
<1> HIDE DEF r
<1>11. Solves(r)
  BY <1>1, <1>6, <1>7, <1>8, <1>9, <1>10 DEF Solves
<1> QED BY <1>11 DEF r

(* Where widening loses nothing, the engine returns the least solution of   *)
(* the dataflow equations: it solves them, and it is below everything that  *)
(* does, in values and in what is executable.                               *)
THEOREM ReturnsLeast == SoundSpec => []LeastFixpoint
<1>1. SoundIInv /\ LeastInv => LeastFixpoint
  <2> SUFFICES ASSUME SoundIInv, LeastInv, Done PROVE LeastFixpoint
    BY DEF LeastFixpoint
  <2>1. Solves([vals |-> vals, exec |-> block_exec])
    BY ResultSolves
  <2>2. WidensExactly => \A s : Solves(s) => ResultBelow(s)
    BY DEF LeastInv
  <2> QED BY <2>1, <2>2 DEF LeastFixpoint, ResultBelow
<1>2. SoundSpec => []LeastInv
  BY InitBelow, LeastStep, SoundInvariant, PTL DEF SoundSpec
<1> QED BY <1>1, <1>2, SoundInvariant, PTL
===============================================================================
