------------------------------- MODULE RegAlloc -------------------------------
(***************************************************************************)
(* From a function with block arguments to code without virtual registers,  *)
(* and that code running.  Selection lowers the bodies and splits the edges *)
(* that carry arguments (ParallelCopy, src/src/codegen/isel.rs and the fixed- *)
(* register sequences of src/src/target/x86_64/isel.rs), the linear scan places *)
(* every virtual register (LinearScan), the rewriting puts reloads and       *)
(* spills around the operands that got a stack slot (regalloc.rs), and then  *)
(* the result is executed.                                                   *)
(*                                                                         *)
(* Running code computes with names instead of numbers: a place (register    *)
(* or stack slot) contains the names whose current value it holds.  The      *)
(* selected code names virtual and physical registers; it runs correctly on  *)
(* the allocated places iff every operand it reads is found where the        *)
(* allocation put it.                                                         *)
(***************************************************************************)
EXTENDS LinearScan, ParallelCopy

CONSTANTS
  Functions,      \* the functions to compile, see Lowered for their form
  Modes,          \* the subset of {TRUE, FALSE} of AllocOptions::precise to try
  Scratch,        \* the registers kept for reloads and spills, in order
  ArgRegs, RetReg, CountReg,  \* call arguments, results, shift counts
  SyscallRegs,    \* the number and argument registers of a system call
  SyscallClobbers, \* what the kernel overwrites besides the result
  CallerSaved     \* what a call overwrites, in order

VARIABLES
  fn,       \* the function being compiled
  code,     \* its machine blocks, [insts, succ]
  edges,    \* the edges with arguments not split yet, <<block, slot>>
  phase,
  pc,       \* the point the compiled code is about to run
  contents  \* the names whose current value each place holds

vars == <<copyVars, scanVars, fn, code, edges, phase, pc, contents>>

-----------------------------------------------------------------------------
(* Instruction selection *)

Move(d, s) == Inst(<<Def(d), Use(s)>>, TRUE, IF {d, s} \cap PReg = {} THEN {2} ELSE {}, {})
Plain(ops) == Inst(ops, FALSE, {}, {})
Jump == Plain(<<>>)
Clobbers == FlattenSeq([k \in DOMAIN CallerSaved |->
              IF CallerSaved[k] = RetReg THEN <<>> ELSE <<Def(CallerSaved[k])>>])

\* The moves of a system call's operands: r10 is also a scratch register, so
\* it is written last, when no reload can follow.
SyscallMoves(args) ==
  LET Moves(borrowed) == FlattenSeq([k \in DOMAIN args |->
                           IF (SyscallRegs[k] \in ToSet(Scratch)) = borrowed
                           THEN <<Move(SyscallRegs[k], args[k])>> ELSE <<>>])
  IN  Moves(FALSE) \o Moves(TRUE)

\* One operation of the function: [op, d, args].
Lower(o) ==
  CASE o.op = "const"  -> <<Plain(<<Def(o.d)>>)>>
    [] o.op = "bin"    -> <<Inst(<<Def(o.d), Use(o.args[1]), Use(o.args[2])>>, FALSE, {2, 3}, {})>>
    [] o.op = "select" -> <<Move(o.d, o.args[3]), Plain(<<Use(o.args[1])>>),
                            Inst(<<Def(o.d), Use(o.d), Use(o.args[2])>>, FALSE, {}, {3})>>
    [] o.op = "shift"  -> <<Move(CountReg, o.args[2]),
                            Inst(<<Def(o.d), Use(o.args[1]), Use(CountReg)>>, FALSE, {2}, {3})>>
    [] o.op = "xadd"   -> <<Inst(<<Def(o.d), Use(o.args[1]), Use(o.args[2])>>, FALSE, {}, {2})>>
    [] o.op = "cmpxchg" -> <<Move(RetReg, o.args[2]),
                             Plain(<<Def(RetReg), Use(RetReg), Use(o.args[1]), Use(o.args[3])>>),
                             Move(o.d, RetReg)>>
    [] o.op = "call"   -> [k \in DOMAIN o.args |-> Move(ArgRegs[k], o.args[k])]
                            \o <<Plain(<<Def(RetReg)>> \o Clobbers
                                        \o [k \in DOMAIN o.args |-> Use(ArgRegs[k])]),
                                 Move(o.d, RetReg)>>
    [] o.op = "syscall" -> SyscallMoves(o.args)
                             \o <<Plain(<<Def(RetReg)>>
                                         \o [k \in DOMAIN SyscallClobbers |-> Def(SyscallClobbers[k])]
                                         \o [k \in DOMAIN o.args |-> Use(SyscallRegs[k])]),
                                  Move(o.d, RetReg)>>
    \* an operation that encodes all its operands itself, as the compare-
    \* exchange of AArch64 and RISC-V and the fused multiply do
    [] o.op = "wide"   -> <<Plain(<<Def(o.d)>> \o [k \in DOMAIN o.args |-> Use(o.args[k])])>>

\* The parameters leave the argument registers at the entry.
Prologue(params) == [k \in DOMAIN params |-> Move(params[k], ArgRegs[k])]

\* A return moves its value into the result register; a branch reads its
\* condition.
Terminator(b) ==
  IF b.edges = <<>>
  THEN [k \in DOMAIN b.uses |-> Move(RetReg, b.uses[k])] \o <<Plain([k \in DOMAIN b.uses |-> Use(RetReg)])>>
  ELSE <<Plain([k \in DOMAIN b.uses |-> Use(b.uses[k])])>>

\* A function is a sequence of blocks [params, body, uses, edges], block 1 its
\* entry; `edges` leads to other blocks with one argument per parameter.
Lowered(f) ==
  [b \in DOMAIN f.blocks |->
     [insts |-> (IF b = 1 THEN Prologue(f.blocks[1].params) ELSE <<>>)
                  \o FlattenSeq([k \in DOMAIN f.blocks[b].body |-> Lower(f.blocks[b].body[k])])
                  \o Terminator(f.blocks[b]),
      succ |-> [e \in DOMAIN f.blocks[b].edges |-> f.blocks[b].edges[e].to]]]

\* The edges that carry arguments.
Splits(f) ==
  UNION {{<<b, e>> : e \in {e \in DOMAIN f.blocks[b].edges : f.blocks[b].edges[e].args # <<>>}} :
           b \in DOMAIN f.blocks}

\* They are lowered block by block, an edge at a time.
NextEdge ==
  CHOOSE e \in edges : \A d \in edges : e[1] < d[1] \/ (e[1] = d[1] /\ e[2] <= d[2])
EdgeOf(e) == fn.blocks[e[1]].edges[e[2]]

\* The form of a function's blocks and operations.
Operation == [op : {"const", "bin", "select", "shift", "xadd", "cmpxchg", "call", "syscall", "wide"},
              d : Nat, args : Seq(Nat)]
SourceEdge == [to : Nat, args : Seq(Nat \union {Imm})]
SourceBlock == [params : Seq(Nat), body : Seq(Operation), uses : Seq(Nat), edges : Seq(SourceEdge)]

\* As many operands as the operation has, and no more than registers to pass
\* them in.
Takes(o) ==
  /\ o.op \in {"bin", "shift", "xadd"} => Len(o.args) = 2
  /\ o.op \in {"select", "cmpxchg"} => Len(o.args) = 3
  /\ o.op = "call" => Len(o.args) <= Len(ArgRegs)
  /\ o.op = "syscall" => Len(o.args) <= Len(SyscallRegs)

\* Block b assigns v, or reads v when it has not.
Assigns(f, b, v) ==
  \/ \E o \in ToSet(f.blocks[b].body) : o.d = v
  \/ b = 1 /\ v \in ToSet(f.blocks[1].params)
ReadsFirst(f, b, v) ==
  LET block == f.blocks[b]
  IN  \/ \E k \in DOMAIN block.body :
            /\ v \in ToSet(block.body[k].args) /\ ~(b = 1 /\ v \in ToSet(block.params))
            /\ \A j \in 1..(k - 1) : block.body[j].d # v
      \/ /\ ~Assigns(f, b, v)
         /\ v \in ToSet(block.uses) \/ \E e \in ToSet(block.edges) : v \in ToSet(e.args)

\* A definition dominates its uses.  The blocks that may be entered before v
\* has a value, `without`, do not read it first; and in the blocks that may be
\* entered at all, no operation reads what it defines.
DefinedFirst(f) ==
  /\ \A v \in 1..f.vregs : \E without \in SUBSET DOMAIN f.blocks :
       /\ 1 \in without
       /\ \A b \in without :
            /\ ~ReadsFirst(f, b, v)
            /\ ~Assigns(f, b, v) =>
                 \A e \in ToSet(f.blocks[b].edges) : e.to \in without \/ v \in ToSet(f.blocks[e.to].params)
  /\ \E entered \in SUBSET DOMAIN f.blocks :
       /\ 1 \in entered
       /\ \A b \in entered : /\ \A e \in ToSet(f.blocks[b].edges) : e.to \in entered
                            /\ \A o \in ToSet(f.blocks[b].body) : o.d \notin ToSet(o.args)

\* What the verifier and the numbering of values promise: a register is one of
\* 1..vregs; an edge leads to a block other than the entry and passes one
\* argument per parameter; the parameters of a block are registers of their
\* own; and no register is read without a value.
WellFormed(f) ==
  /\ f.vregs \in Nat
  /\ f.blocks \in Seq(SourceBlock) /\ f.blocks # <<>>
  /\ Len(f.blocks[1].params) <= Len(ArgRegs)
  /\ \A b \in DOMAIN f.blocks :
       /\ \A o \in ToSet(f.blocks[b].body) :
            Takes(o) /\ o.d \in 1..f.vregs /\ o.args \in Seq(1..f.vregs)
       /\ f.blocks[b].params \in Seq(1..f.vregs) /\ f.blocks[b].uses \in Seq(1..f.vregs)
       /\ \A e \in DOMAIN f.blocks[b].edges :
            LET edge == f.blocks[b].edges[e]
                params == f.blocks[edge.to].params
            IN  /\ edge.to \in DOMAIN f.blocks \ {1}
                /\ edge.args \in Seq(1..f.vregs \union {Imm})
                /\ params \in Seq(1..f.vregs) /\ Len(params) = Len(edge.args)
                /\ \A i, j \in DOMAIN params : params[i] = params[j] => i = j
  /\ DefinedFirst(f)

ASSUME RegistersAssumption ==
  /\ {ArgRegs, SyscallRegs, SyscallClobbers, CallerSaved, Scratch} \subseteq Seq(PReg)
  /\ {RetReg, CountReg} \subseteq PReg
  /\ Modes \subseteq BOOLEAN

\* The scratch registers are distinct, are never handed out and pass nothing,
\* except for one operand of a system call (src/src/target/x86_64/regs.rs:92-100).
ASSUME ScratchAssumption ==
  /\ \A j, k \in DOMAIN Scratch : Scratch[j] = Scratch[k] => j = k
  /\ ToSet(Scratch) \cap (ToSet(Allocatable) \union ToSet(ArgRegs) \union {RetReg, CountReg}) = {}
  /\ \A j, k \in DOMAIN SyscallRegs : {SyscallRegs[j], SyscallRegs[k]} \subseteq ToSet(Scratch) => j = k
ASSUME FunctionsAssumption == \A f \in Functions : WellFormed(f)

Select(f) ==
  /\ fn = f
  /\ code = Lowered(f)
  /\ edges = Splits(f)
  /\ vregs = f.vregs
  /\ copies = <<>> /\ moves = <<>> /\ holds = <<>> /\ wanted = <<>>

SplitEdge ==
  /\ phase = "select"
  /\ edges # {}
  /\ LET e == EdgeOf(NextEdge) IN Begin(vregs, fn.blocks[e.to].params, e.args)
  /\ phase' = "copy"
  /\ UNCHANGED <<scanVars, fn, code, edges, pc, contents>>

CopyStep ==
  /\ phase = "copy"
  /\ EmitReady \/ BreakCycle
  /\ UNCHANGED <<scanVars, fn, code, edges, phase, pc, contents>>

\* The edge block: the moves (a constant is loaded) and a jump to the target.
EdgeBlock(to) ==
  [insts |-> [k \in DOMAIN moves |-> IF moves[k].src = Imm THEN Plain(<<Def(moves[k].dst)>>)
                                      ELSE Move(moves[k].dst, moves[k].src)] \o <<Jump>>,
   succ |-> <<to>>]

FinishEdge ==
  /\ phase = "copy"
  /\ NoneLeft
  /\ LET e == NextEdge
     IN  /\ code' = Append([code EXCEPT ![e[1]].succ[e[2]] = Len(code) + 1],
                           EdgeBlock(EdgeOf(e).to))
         /\ edges' = edges \ {e}
  /\ phase' = "select"
  /\ UNCHANGED <<copyVars, scanVars, fn, pc, contents>>

-----------------------------------------------------------------------------
(* Layout *)

Reached(blocks) ==
  FoldLeft(LAMBDA S, k : S \union UNION {ToSet(blocks[b].succ) : b \in S}, {1}, [k \in DOMAIN blocks |-> k])

\* A block is followed by its fall-through successor if that is not placed
\* yet, else by the first block that is reachable and not placed.
Follower(blocks, placed, last) ==
  LET rest == Reached(blocks) \ placed
      near == SelectSeq(Reverse(blocks[last].succ), LAMBDA s : s \in rest)
  IN  IF near # <<>> THEN near[1]
      ELSE Min(IF rest # {} THEN rest ELSE DOMAIN blocks \ placed)

\* The entry comes first; blocks left out of the layout follow in the order
\* they were made.
BlockOrder(blocks, order) ==
  /\ order[1] = 1
  /\ \A k \in 2..Len(blocks) :
       order[k] = Follower(blocks, {order[j] : j \in 1..(k - 1)}, order[k - 1])

\* The order in which the points of the blocks are numbered.
Orders(blocks, precise) ==
  {order \in [DOMAIN blocks -> DOMAIN blocks] :
     /\ IF precise THEN BlockOrder(blocks, order) ELSE \A k \in DOMAIN order : order[k] = k
     /\ \A b \in DOMAIN blocks : \E k \in DOMAIN order : order[k] = b}

\* The code in that order.
Laid(blocks, order, precise) ==
  LET Upto(n) == FlattenSeq([k \in 1..n |-> blocks[order[k]].insts])
      Offset(b) == Len(Upto((CHOOSE k \in DOMAIN order : order[k] = b) - 1))
  IN  [insts |-> Upto(Len(blocks)),
       blocks |-> [b \in DOMAIN blocks |->
                     [first |-> Offset(b) + 1,
                      last |-> Offset(b) + Len(blocks[b].insts),
                      succ |-> ToSet(blocks[b].succ)]],
       precise |-> precise]

StartScan ==
  /\ phase = "select"
  /\ edges = {}
  /\ \E precise \in Modes : \E order \in Orders(code, precise) :
       BeginScan(Laid(code, order, precise), vregs)
  /\ phase' = "scan"
  /\ UNCHANGED <<copyVars, fn, code, edges, pc, contents>>

Scan ==
  /\ phase = "scan"
  /\ ScanStep
  /\ UNCHANGED <<copyVars, fn, code, edges, phase, pc, contents>>

-----------------------------------------------------------------------------
(* Rewriting *)

Spilled(o) == o.reg \notin PReg /\ assign[o.reg] \notin PReg
SameUse(i, k) == {j \in DOMAIN i.ops : i.ops[j] = i.ops[k]}

\* The operands that take a scratch register: every spilled definition, and
\* every spilled register when it is first read.
Borrows(i) == {k \in DOMAIN i.ops : /\ Spilled(i.ops[k])
                                    /\ i.ops[k].kind = "use" => k = Min(SameUse(i, k))}
ScratchIndex(i, k) ==
  LET first == IF i.ops[k].kind = "use" THEN Min(SameUse(i, k)) ELSE k
  IN  Cardinality({j \in Borrows(i) : j <= first})

\* The physical register that stands for operand k.
Place(i, k) ==
  LET r == i.ops[k].reg
  IN  IF r \in PReg THEN r
      ELSE IF assign[r] \in PReg THEN assign[r] ELSE Scratch[ScratchIndex(i, k)]

\* The target reserves enough scratch registers for the instruction.
EnoughScratch(i) == Cardinality(Borrows(i)) <= Len(Scratch)

\* Every operand is rewritten, and the code can run: the machine registers
\* hold what the caller left in them.
Rewrite ==
  /\ phase = "scan"
  /\ queue = {}
  /\ \A p \in Points(mf) : EnoughScratch(mf.insts[p])
  /\ phase' = "run"
  /\ pc' = mf.blocks[1].first
  /\ contents' = [l \in PReg \union 1..slots |-> IF l \in PReg THEN {l} ELSE {}]
  /\ UNCHANGED <<copyVars, scanVars, fn, code, edges>>

\* An instruction with more spilled operands than scratch registers: the
\* index runs past the target's list, and the compiler stops.
RewritePanics ==
  /\ phase = "scan"
  /\ queue = {}
  /\ \E p \in Points(mf) : ~EnoughScratch(mf.insts[p])
  /\ phase' = "panic"
  /\ UNCHANGED <<copyVars, scanVars, fn, code, edges, pc, contents>>

-----------------------------------------------------------------------------
(* The rewritten code runs *)

Operands(i, kind) == {k \in DOMAIN i.ops : i.ops[k].kind = kind}

\* The reloads ahead of the instruction.
Reloaded(i) ==
  LET loads == Operands(i, "use") \cap Borrows(i)
  IN  [l \in DOMAIN contents |->
         IF \E k \in loads : Place(i, k) = l
         THEN contents[assign[i.ops[CHOOSE k \in loads : Place(i, k) = l].reg]]
         ELSE contents[l]]

\* What the instruction writes: a copy leaves its destination with everything
\* its source held, any other definition is a new value.
Computed(i, held) ==
  LET defs == Operands(i, "def")
      stale == Defs(i)
      At(l) == {k \in defs : Place(i, k) = l}
      Value(k) == IF i.move THEN {i.ops[k].reg} \union (held[Place(i, 2)] \ stale) ELSE {i.ops[k].reg}
  IN  [l \in DOMAIN held |-> IF At(l) # {} THEN Value(Max(At(l))) ELSE held[l] \ stale]

\* The spills behind it.
Stored(i, held) ==
  LET stores == Operands(i, "def") \cap Borrows(i)
  IN  [l \in DOMAIN held |->
         IF \E k \in stores : assign[i.ops[k].reg] = l
         THEN held[Place(i, CHOOSE k \in stores : assign[i.ops[k].reg] = l)]
         ELSE held[l]]

Runs(i) == contents' = Stored(i, Computed(i, Reloaded(i)))
Ending == {b \in DOMAIN mf.blocks : mf.blocks[b].last = pc}

Execute ==
  /\ phase = "run"
  /\ Runs(mf.insts[pc])
  /\ IF Ending = {} THEN pc' = pc + 1
     ELSE \E b \in Ending : \E s \in mf.blocks[b].succ : pc' = mf.blocks[s].first
  /\ UNCHANGED <<copyVars, scanVars, fn, code, edges, phase>>

Return ==
  /\ phase = "run"
  /\ \E b \in Ending : mf.blocks[b].succ = {}
  /\ Runs(mf.insts[pc])
  /\ phase' = "done"
  /\ UNCHANGED <<copyVars, scanVars, fn, code, edges, pc>>

Over == phase \in {"done", "panic"} /\ UNCHANGED vars

-----------------------------------------------------------------------------
Init ==
  /\ \E f \in Functions : Select(f)
  /\ mf = None /\ live = None /\ queue = {} /\ assign = <<>> /\ active = {} /\ slots = 0
  /\ phase = "select"
  /\ pc = 0
  /\ contents = <<>>

Next ==
  \/ SplitEdge \/ CopyStep \/ FinishEdge \/ StartScan \/ Scan \/ Rewrite \/ RewritePanics
  \/ Execute \/ Return \/ Over

Spec == Init /\ [][Next]_vars

-----------------------------------------------------------------------------
TypeOK ==
  /\ phase \in {"select", "copy", "scan", "run", "done", "panic"}
  /\ vregs \in Nat /\ slots \in Nat
  /\ assign \in Seq(PReg \union Nat \union {None})
  /\ \A a \in active : a.vreg \in DOMAIN assign /\ a.preg \in ToSet(Allocatable)
  /\ \A v \in VRegs : assign[v] \in Nat => assign[v] \in 1..slots
  /\ phase = "run" => /\ pc \in Points(mf)
                      /\ DOMAIN contents = PReg \union 1..slots

\* Every operand the running code reads holds the value of the register the
\* selected code names there: none was overwritten by a register that shares
\* its place, by a fixed-register sequence, by a reload or by the first half
\* of the instruction itself (regalloc.rs:672-704, 735-768, 775-831).
ReadsIntact ==
  phase = "run" =>
    LET i == mf.insts[pc]
        held == Reloaded(i)
    IN  \A k \in Operands(i, "use") :
          /\ i.ops[k].reg \in held[Place(i, k)]
          /\ k \in i.late => \A d \in Operands(i, "def") : Place(i, d) # Place(i, k)

\* Whatever the pressure, the spilled operands of one instruction have a
\* scratch register each (src/src/codegen/target.rs:66-68).
ScratchCovers == phase # "panic"
=============================================================================
