# LatticeFoundry: TLA+ models, checks and proofs

LatticeFoundry is a compiler back end in Rust: a typed SSA intermediate
representation, a verifier, analyses over abstract domains, optimization passes,
code generation, an emitter with branch relaxation, object formats, a linker, a
JIT, a runtime for green threads, and a C front end. This directory models the
parts of it whose correctness rests on the order in which things happen, or on
many values at once, and says what is checked and what is proved about them.

Paths are given from the repository's root, which is checked out as `src/`: the
file `src/analysis/solver.rs` of the crate is `src/src/analysis/solver.rs` in
`PROJECT.json` and in the comments of the modules.

## 1. Inventory

Most of the system is sequential and pure: a pass takes a module and returns
one. The state machines worth the name are the worklist engine of the analyses,
the emitter, the register allocator, the pass manager's cache, the merge of
modules, and the runtime that compiled programs are linked with, which is the
only part that meets real concurrency (signals that arrive between any two
instructions). What a pass makes of a function is observed by executing the
function before and after it.

| Component | State | Operations | What is hard | What makes it correct |
|---|---|---|---|---|
| Fixpoint engine (`analysis/solver.rs`) | abstract value per SSA value, executable blocks and edges, two LIFO worklists | `run`, `visit_block`, `visit_inst`, `visit_terminator`, `update_target_params`, `mark_block_exec`, `process_ssa` | values change while their readers are half visited; uses in blocks not executable yet are dropped; results are overwritten, not joined; termination rests on widening | nothing that is out of date is left unscheduled; the result is a fixpoint, is the least one, and covers every execution; it stops |
| Domains (`analysis/domain.rs`, `analysis/domains/`) | none | `join`, `le`, `widen`, `abstract_const`, `transfer`, `edge_feasible` | wrap-around, `nsw`/`nuw`/`exact`, poison, `i1` read as signed, shift amounts past the width | soundness, monotonicity, an order that is containment of the meanings |
| Soundness harness (`analysis/soundness.rs`) | a generator | random operands and abstractions, one opcode at a time | what it does not generate | every transfer it tries is sound |
| Control-flow graph (`analysis/cfg.rs`) | successors, predecessors, dominator tree | dominance, loop headers | irreducible loops have no header | headers cut every cycle that must be widened |
| Reference semantics, reference executor (`ir/semantics.rs`, `ir/refexec.rs`) | environment, memory, current block | `eval`, `Exec::call` | undefined behaviour, poison | the definition the rest is compared with |
| Green-thread runtime (`target/x86_64/runtime.rs`; shorter ones for AArch64 and RISC-V) | contexts of the threads, the processor's registers, signal frames | `lf_ctx_init`, `save`, `save_full`, `restore`, `switch`, `switch_full`, `from_ucontext`, `to_ucontext`, `preempt`, `uc_in_runtime`, `lf_sig_restorer` | signals between any two instructions, contexts of two kinds in one field layout, XSAVE frames that leave components out | a resumed thread finds what it is owed; none is lost or runs twice |
| Analysis cache, pass manager (`analysis/manager.rs`, `pass/`) | cached results per function id | `get`, `invalidate`, run a pass | a pass that changes a function and reports no change, ids that are reused | a cached result is that of the function as it is |
| Emitter (`mc/emit.rs`) | bytes, labels, branches, fixups | `bind_label`, `branch`, `reference`, `finish_with_labels`, `relax` | growing one branch moves another out of reach; every offset is remapped | every branch and fixup lands on its label; a branch is long only if it must be |
| Selection of edges and fixed registers (`codegen/isel.rs`, `target/x86_64/isel.rs`) | machine blocks, virtual registers | split an edge, order its moves, copy operands into the registers an instruction demands | cycles of moves, a parameter read by two of them, a fixed register that is also a scratch register | all arguments arrive as if moved at once |
| Register allocator (`codegen/regalloc.rs`) | live segments, active intervals, spills | liveness, linear scan with ties and fixed ranges, rewriting | spilling a victim frees a register the other intervals were not compared with; a list of scratch registers that runs out | every operand is read from a place that holds its value |
| Yield points (`transform/yield_points.rs`) | loops of a function | proof of a trip bound, cost of a loop, insertion of checks | cycles that are not natural loops, wrap-around in the bound | every loop of unbounded cost passes a check |
| Merge (`ir/merge.rs`) | symbol table of the target module | adopt or replace a symbol, intern types and constants, re-attribute | weak, strong and detached definitions in any order, an error half way | the merged program does what the separately linked one does |
| Inlining, dead functions (`transform/inline.rs`, `transform/dead_functions.rs`) | a module | splice a body, remove functions and renumber the rest | a weak body is not final, a function reached through data or a name | no call or address dangles or changes its meaning |
| Linker (`link/image.rs`) | global symbols, sections | `resolve_globals`, `symbol_address`, layout | strong, weak and local symbols of one name | the definition a linker would choose |
| Rewriting passes (`transform/`: mem2reg, sccp, simplify_cfg, dce, licm, ...) | a function, the new function being emitted | plan on the old function, emit the new one in some order of its blocks | an operand that is emitted too late becomes poison without a word; a fold that depends on a path | the new function does what the old one did |
| Verifier (`verify/`) | a function, SMT terms | structural rules, refinement, certificates, constant time | the solver (`z3rs`) is external | a "verified" answer is true |
| Code generation (`codegen/`), targets (`target/`) | machine IR | selection, legalization, frames, unwinding, encoding | breadth | encodings and translations, case by case |
| `ir/`, `support/` | arenas, interning tables, use lists | builder, text and binary formats | round trips | parse after print is the identity |
| `mc/` (objects, assembler, disassembler, DWARF), `link/`, `jit/` | bytes, sections, symbols | byte formats, relocation, executable memory | byte-level detail | the format's own specification |
| Drivers (`bin/`), C front end (`lf-cc/`) | per translation unit | lexing, preprocessing, parsing, checking, lowering | the C standard | batch translation |

How they interact: the engine is a function the passes (`sccp`, `yield_points`,
`memopt`, the constant-time check) call with a domain and, optionally, hooks
that seed values; it reads the function and its use lists, the graph and its
dominators, and calls the domain back for every operation. The analysis manager
stores results of such calls by function. The linker and the merge read the
same linkages and must agree on them. `lf` merges modules, runs the pass manager
over the result and links what comes out with other objects. Selection hands the
allocator a function with virtual and physical registers in it; the allocator
hands the rewritten one to the emitter. The domains are specified against the
reference semantics, which the executor runs and the soundness harness samples.
Compiled programs call the runtime's symbols; a signal handler calls
`lf_ctx_uc_in_runtime` and `lf_ctx_preempt`, and the kernel resumes whatever the
frame then says.

The hazards found on the way, each at its line and with the properties that
would catch it, are listed in `PROJECT.json` under `hazards`.

## 2. What is modelled, and where

| Module | Models | |
|---|---|---|
| `Solver` | `analysis/solver.rs` | The engine, for any function and any domain. |
| `SolverSound` | `ir/refexec.rs` | `Solver`, followed by executions of the function it analysed. |
| `FunctionShapes` | `analysis/cfg.rs`, use lists | What is derived from a function: readers of a value, dominators, loop headers. |
| `Semantics` | `ir/semantics.rs` | The integer instructions, with poison and undefined behaviour. |
| `ConstDomain`, `RangeDomain`, `KnownBits` | `analysis/domains/` | The three domains, as operators. |
| `DomainWalk` | `analysis/soundness.rs` | Chains of instructions and merges, followed by two analyses. |
| `YieldPoints` | `transform/yield_points.rs` | `SolverSound` with the pass between analysis and execution: trip bounds, costs, checks. |
| `Rebuild` | `transform/mod.rs`, `builder` | How a pass emits a new function from a plan. |
| `Sccp`, `SimplifyCfg`, `Dce`, `Licm` | `transform/sccp.rs`, `simplify_cfg.rs`, `dce.rs`, `licm.rs` | The plans of four passes. |
| `Mem2Reg` | `transform/mem2reg.rs`, `analysis/domfrontier.rs` | Promotion of stack slots: where parameters go, what reaches each load. |
| `Rewrite` | `transform/pipeline.rs` | `SolverSound`, the passes, and the old and new function side by side. |
| `ParallelCopy` | `codegen/isel.rs` | The moves of an edge, one by one, and what they should amount to. |
| `MachineCode` | `codegen/mir.rs`, `regalloc.rs` | Liveness, live segments, fixed ranges. |
| `LinearScan` | `codegen/regalloc.rs` | The scan: expiry, free registers, ties, victims, spills. |
| `RegAlloc` | `codegen/isel.rs`, `target/x86_64/isel.rs`, `codegen/regalloc.rs` | Selection, allocation and rewriting of a function, and the code that results, running. |
| `Linker` | `link/image.rs`, `codegen/linkage.rs`, `codegen/data.rs` | Symbol resolution, and what a linked program does. |
| `ModuleMerge` | `ir/merge.rs` | `merge_modules`, one step at a time. |
| `Lto` | `pass/mod.rs`, `analysis/manager.rs`, `transform/inline.rs`, `transform/dead_functions.rs` | Merge, passes, cache, and the final link. |
| `ContextSwitch` | `target/x86_64/runtime.rs` | Threads, contexts, signals. |
| `PrefixSums` | `mc/emit.rs` | The sums of the first numbers of a row, by which offsets and savings are counted. |
| `BranchLayout` | `mc/emit.rs` | What the emitter promises: the layout a program must get. |
| `Emitter` | `mc/emit.rs`, `splice` of `target/x86_64/isel/inline_asm.rs` | Emission, relaxation, patching; implements `BranchLayout`. |
| `MCSolver`, `MCWiden`, `MCDomains`, `MCRegAlloc`, `MCLto`, `MCContext`, `MCEmitter` | | Instances for TLC. |
| `SolverProofs`, `RegAllocProofs`, `SelectionProofs`, `LtoProofs`, `ContextSwitchProofs`, `DomainProofs`, `EmitterProofs` | | Theorems and proofs (section 4). |
| `InductionLemmas` | | Induction over naturals and sequences, for the proofs. |

Composition: `Rewrite` and `YieldPoints` extend `SolverSound`, which extends
`Solver`, so one run goes from the worklists to an execution of what a pass made
of their result. `RegAlloc` extends `LinearScan` and `ParallelCopy`; `Lto`
extends `ModuleMerge`, which extends `Linker`.

### Solver

`vals`, `block_exec`, `edge_exec`, `block_wl` and `ssa_wl` are the fields of
`Engine`; the worklists are sequences whose head was pushed last. `fn` is the
function under analysis. A handler of the code is a call tree (visit a block:
visit its instructions, then its terminator; visit a terminator: compute the
feasible edges, then for each one update the parameters and mark the target).
`todo` is the sequence of the calls still to be made, so that each action is one
call and its effect: `PopBlock`, `PopSsa`, `VisitInst`, `VisitTerminator`,
`TakeEdge`, `UpdateParam`, `MarkBlockExec`, `EdgesTaken` (the loop over the edges
ends) and `SkipUse` (`process_ssa` passes over a use in a block that is not
executable). That granularity matters: the feasible edges are computed before
the first of them is taken, and taking it can change the condition.

Left out, as data: instructions without a result, which `visit_inst` returns
from at once; the operand number of a use, so an instruction that reads a value
twice is revisited once, and the second visit, which finds nothing changed, is
not modelled; the types of values, which matter to the domain only.
`SolveHooks::seed` is `fn.hook`. `SolveHooks::transfer` replaces the domain's
transfer at single instructions; since `Transfer` is any monotone operator of an
opcode, a hooked instruction is one with an opcode of its own, which the proofs
cover and the runs do not exercise.

### SolverSound

When the engine is `Done`, an execution starts: constants, addresses and
arguments get any value they may have, a hooked value any value the hook's
element stands for, and `ExecInst` and `ExecTerminator` run the function as
`Exec::call` does. Undefined behaviour has no result, which ends the execution.
Memory, calls and the step limit are left out; a load or a call is an opcode
whose result may be anything ("load").

`Solves` states the dataflow equations as inequalities about any result, and
`LeastFixpoint` says that the engine's is the least of them, where widening loses
nothing: in a function without loop headers, or in a domain that leaves `widen` at
its default (`WidensExactly`). `Rivals` is the results a run compares with.

### Semantics and the domains

Values are poison or a bit pattern with its width. Constants keep the
representative they were interned with, so that -1 and 2^w - 1 of one width are
two constants of one meaning, as in the pool. Vectors, floats and pointers are
⊤ in all three domains and are left out.

### DomainWalk

The harness draws operands, abstracts them, and checks one transfer. The walk
starts from what it draws and goes on: the result is the operand of the next
instruction, or is merged with a literal at a join or at a loop header. Two
analyses follow the value, `coarse` knowing less than `fine` of some operands,
so that one state shows soundness and monotonicity at once. `domain` says which
of the three domains a walk is in; `Top`, `Join`, `Transfer` and the rest stand for
the methods of the trait `AbstractDomain`, and choose by it.

### YieldPoints

`InsertChecks` is the pass, and `plan` what it finds: for each header, its natural loop, its trip bound and its
cost, as `find_loops`, `trip_bound` and the cost analysis compute them from the
engine's result. A check is an edge on which `polled` becomes true. `heads` counts how often
each header ran since its loop was entered and `spent` the cost units of that
time, so that the two numbers the pass proves, the trip bound and the cost of a
loop, are compared with what happens.

### Rebuild, Sccp, SimplifyCfg, Dce, Licm, Mem2Reg, Rewrite

Every pass of the repository that changes a function emits a fresh one, block by
block, and maps each operand through the values emitted so far; an operand that
is not there yet becomes poison. `Rebuild` is that, for a plan: which blocks
survive, of which instructions they are made, where their edges lead, which
values are folded to literals or stand for others, and the order of emission.
`Remapped` decides from the order alone whether an operand is there, which is
what makes the order a hazard. `Sccp`, `SimplifyCfg`, `Dce`, `Licm` and `Mem2Reg`
compute the plans.
`simplify_cfg` plans everything on the old function (folded conditions, blocks
that only forward, chains to be spliced), and `sccp` reads the values, blocks and
edges the engine left. `licm` hoists what is invariant in a loop to the outermost
loop it is invariant in. The preheader it makes is no block of its own here but
the first `ahead[h]` instructions of the header `h`, which run only on an edge
from outside the loop, and before that edge passes its arguments. `mem2reg` adds
to every block of the iterated dominance frontier of a slot's stores a parameter,
`Phi(slot, block)`, and replaces each load by what reaches it.

`Rewrite` lets the engine finish, chooses what the passes make of the function,
and executes both functions on the same arguments. The choice is `sccp`,
`simplify_cfg` or `licm` alone, or `sccp`, `simplify_cfg` and `dce` in turn, with
or without `licm` after them: the clean-up of `-O2` without its e-graph. The same
without `sccp` is done after `mem2reg`, of whose outcome the engine knows nothing. The old one leads: the new one executes an
instruction when the old one does and has it, and leaves a block when the old one
leaves the block whose terminator it ends with (`tail`). An instruction whose
result may be anything (a call, a volatile load) gives the same in both when it
can. What the new function hoisted runs before the old one gets there: its values
are compared when the old one computes them, and nothing hoisted may be undefined
where the old function might not have executed it. `memory` is what the slots hold
that `mem2reg` may promote, for the old function; where its value is poison,
because the slot was allocated again, the function without the slot may have any
other value (`Agrees`), but no undefined behaviour. `NoBody` is the value of `out` before the passes ran.

Left out: constant offsets of `ptr_add`, source lines, and functions with hooks
or missing arguments, which these passes never see (`Verified`).

### ParallelCopy, MachineCode, LinearScan, RegAlloc

A function has blocks with parameters. Selection lowers each operation to machine
instructions, among them the copies into and out of fixed registers that calls,
system calls, shifts and compare-exchange need, and splits every edge with
arguments; `ParallelCopy` orders the moves of one edge, one action per move, and
keeps what every destination should hold (`wanted`). `copies` holds the copies
still to be made under the position each came at, so the first one that is ready
is the least position; `edges` is the set of edges still to be lowered, of which
`NextEdge` is taken next. `StartScan` lays the blocks out, in an order that
`Orders` determines, and `MachineCode` derives
liveness, live segments (with holes if `precise`), the hull of a register's
segments and the ranges of fixed registers. The blocks a register is live into are
the least solution of the equations the code iterates (`Solves`, `LiveInto`).
`LinearScan` takes one
virtual register per action: expire, find a free register (a hint, a tie, the
preference order), or spill it, or a victim. `Rewrite` puts reloads and spills
around the instructions. Then the code runs: a place `contains` the names whose
current value it holds, so that the path through the loop need not be computed
with numbers, and an operand is intact if its place contains its name.

Left out: classes of registers other than the general ones (classes share
nothing), the scores of hints and loop depths, of which any hint may win,
`remove_dead_defs`, `remove_nop_moves`, and the lowering of division, of
read-modify-write loops and of bulk memory operations.

### Linker, ModuleMerge, Lto

A unit is a list of functions and globals with linkage, body or initializer;
bodies are sequences of effects, calls and uses of data by number. `Behaviour` is
what a program of linked units does from `main`, up to `MaxEvents` effects; it is
the meaning both sides are compared by. `ModuleMerge` has an action for each part
of `link_module`: layouts, globals, functions, the installs that are postponed,
the bodies, and both errors. What is postponed is a set of pairs
(`globalInstalls`, `bodyInstalls`): the code's lists have no order that matters,
since a module names each symbol once and no two install into one. `Lto` adds the pass manager: inlining,
removal of dead functions with the renumbering of what is left, and analyses that
read and fill the cache. `Live`, what a removal keeps, is the least set that holds
the roots and is closed under references, which the code computes with a worklist. Types and constants are interned without loss and appear through
the references they carry; visibility, secrecy and thread-locality are joined
alike and are one level.

### ContextSwitch

Registers are grouped by how the routines treat them: the callee-saved general
registers, the caller-saved ones, `rax`, `rflags`, `rip`, the x87 control word, the rest of the
x87 state, MXCSR, and the SSE registers. A context holds all of them and a kind;
a cooperative save writes only what the ABI preserves and leaves the other
fields as they were. While a switch is between its save and its restore, `rip`
is `Restoring(t)`: an address in the runtime's text, together with `rdi`, the
context to restore. `Signal` may come at any moment; the handler then either
returns (`LeaveAlone`) or calls `lf_ctx_preempt` (`Preempt`), unless
`lf_ctx_uc_in_runtime` says no. `frame.bv` is XSTATE_BV: a component that is
still initial may be left out of the frame, and its bytes are then old (`Junk`).
`owed` records, for a parked thread, what it must find when it is resumed.

Assumptions about what is outside the code: a thread overwrites any of its
registers between calls; x87 registers are empty at a call, as the ABI says;
after `lf_ctx_save` the scheduler runs with preemption off until it restores
something; the kernel always supplies a floating-point area; `rflags` is not
preserved across a cooperative switch, which the ABI does not ask. AVX state is
outside a context by design (the module's documentation says so) and outside the
model. `lf_sig_install` only registers a handler.

### BranchLayout and Emitter

`buf`, `labels`, `fixups` and `relaxes` are fields of the code's `Emitter`, except
that `buf` is a sequence of pieces (code of some length, a branch, a field)
instead of bytes: the offset of a piece is the length of what precedes it, a prefix
sum (`Ends`), and so is what `relax` saves before a branch (`Shrink`).
`finish_with_labels` is a loop, and its phases are `phase`: `Finish` decides
whether there is anything to relax, `Grow` is one pass that grows branches,
`Rebuild` is the pass that grows none together with the copying and remapping
that follow it, `PatchFixups` resolves the fixups; `UndefinedTarget` and
`UndefinedLabel` are the two places that return an error. `long` is the local
array of `relax`, `out` the buffer it builds, `relocs` the relocations handed to
the linker. `Splice` appends an assembled fragment of inline assembly with a
field that refers to a place in the fragment: a PC-relative field through a fresh
label, an absolute one through an addend to the function's symbol. `marks` is a
history variable, the piece each label was bound at; no action reads it.

`BranchLayout` says what must come out without saying how: of all sets of long
branches under which every short branch reaches its label, the least; all
positions are those of the layout with that set. `Emitter` implements it with
`pieces` mapped to `buf` and `result` to `Result`, which reads the finished
buffer, the patched fields and the labels. Relaxation steps are stutters.

Left out: fields wider or narrower than four bytes, fields that overflow, and
symbols of other functions, which are copied to relocations with their offset
moved as any fixup is; `align_to`, which only the module's own tests call.

## 3. The runs

| Run | Instance | States | Shows |
|---|---|---|---|
| `MCSolver` | 1,189 functions of four blocks and ten values, constants of widths 1 and 2 | 365,885 | The invariant of the worklists, the least fixpoint, soundness of values, blocks and edges, and that no fact is withdrawn. Then: a function rewritten by the passes computes the same values, shows the same effects, never reads a poison operand that a pass put in, and gives a second `sccp` nothing to do. |
| `MCWiden` | 68 functions with two loops, intervals of width 3 | 9,167 | A parameter changes at most four times whatever the width; the engine stops; executions stay within the intervals; trip bounds and costs hold; a loop that does not end passes checks for ever. |
| `MCYieldWrap` | the same loops, counting from the signed maximum | (violation) | The first step wraps and the trip bound of 1 is exceeded. |
| `MCDomains` | constants, intervals and known bits, all integer opcodes, widths 1 to 3 | 1,389 | Soundness, monotonicity, feasibility of the edge taken, order = containment. |
| `MCRegAlloc` | 119 functions, precise and not | 23,360 | Moves of an edge amount to a parallel copy with one temporary per cycle; the live stretches of a register lie within the interval the scan goes by; registers that share never interfere; no operand is read from the wrong place. |
| `MCScratch` | one instruction of four register operands | (violation) | Three scratch registers are not enough. |
| `MCLto` | three modules in every order, beside up to one object compiled elsewhere | 107,088 | The merged, inlined and stripped program does what the separately linked one does; two strong definitions of a name, a weak definition of a function beside another, and differing layouts are refused, and nothing else is (finding 6); joined attributes only grow; no cached result outlives its function. |
| `MCLtoInternal` | a private function beside an exported one of its name | (violation) | The merge unifies them. |
| `MCContext` | two threads, two values each | 4,227,662 | A resumed thread is intact, and no thread is lost or runs twice. |
| `MCContextSaved` | the same, with a signal that resumes a thread parked by `lf_ctx_save` | (violation) | The second return is not 1. |
| `MCEmitter` | programs of up to five pieces, two labels and one field | 2,115,717 | The emitter implements the least layout, and nothing is remapped to the wrong place. |
| `MCEmitterAbsolute` | the same, up to four pieces | (violation) | An absolute reference into a fragment points past its place once a branch shrinks. |

Why the bounds are enough.

`MCSolver`: the family has a block that branches to itself on its own
parameters, a merge of three edges, a branch whose two edges reach one block, a
switch with a default, missing arguments, an argument that is undetermined when
its edge is first taken, a hooked argument, poison and division by a value that
may be zero. For the passes it adds the address of a symbol that goes round a
loop, a switch decided by a constant, a loop that nothing enters, conditions that
are literals (also poison, and a switch's default), blocks that forward their
parameters while others read them, chains of such blocks, cycles of them, and
blocks to splice; and two nested loops in which an
instruction is invariant in both, in one, or because of another that is hoisted,
or may be undefined, or has an effect. For `mem2reg` it has slots stored to in the
arms of a branch and before one, two or three merges, counted in a loop, allocated
in a loop, exchanged in a loop, and slots that have to stay: returned, stored,
passed on, accessed as another type or by a volatile load. Each of the properties fails under the fault planted for it, at
this size (section 6). Width 2 with two constants has the whole lattice of the
constant domain: bottom, constants, top. `LeastFixpoint` compares the engine's
result with two that a naive iteration of the dataflow equations over the whole
function gives (`MCRivals`): the least solution, and the least one in which every
block is executable.

`MCWiden`: width 3 has eight values, so a bound that climbs one step at a time
passes the limit of four changes, which two bounds that jump cannot. The loops
are nested, follow one another, share a header or share values; they are counted
upwards and downwards, in steps of one and of three, and left by tests of the value before
and after the step, for equality and by signed and unsigned order. `MaxCost` is
10, between the costs of the short and of the long loops. Four functions enter a
loop in the middle; the properties about headers except those. Nothing makes
poison here.

`MCRegAlloc`: four allocatable registers with two parameters and a counter live
around the loop leave one or two registers for the operation, so that victims,
spills, ties and fixed registers meet. Each of the modelled operations
of the selection that puts a constraint of its own on registers is the body of the
loop once (division, read-modify-write loops and bulk memory are not modelled), under
back edges that swap,
rotate, duplicate and drop the parameters or pass a constant. Two more functions
have what loops do not: four operands spilled at once, and a register dead across
a call whose range continues in a later block.

`MCLto`: two modules that refer to each other and a third that makes further
claims on the same names is the least with an order to get wrong; the third may
also have another layout, a clash behind one that was resolved, or a weak
definition: of the datum, which yields or stays, or of the function, which meets a
weak or a strong one and is refused. Elsewhere, an object may replace a weak function or a weak datum.
Three runs of passes with one cached result at a time reach every order of
computing, removing and reusing a number.

`MCDomains`: widths 1 to 3 contain the boundary cases of the transfer functions:
`i1`, shift amounts equal to and beyond the width, all signs, carries through an
unknown bit, truncation and extension. Every abstract element reachable in any
number of instructions and merges is visited, not only abstractions of
constants.

`MCContext`: two threads are enough for a thread to meet its own stale fields
and those of another; two values tell a stale register from a current one. The
state space is explored in full, with no bound on the number of switches.

`MCEmitter`: plain code of 1, 3 and 124 bytes puts a label at every distance near
the limits of a short branch, on both sides (127 and 128 forwards, 128 and 129
backwards), and one branch out of reach with another long one in between but
within reach with a short one, so that growing one makes the next grow. A label
may be bound again, or never. Branches have the lengths of `jmp` and `jcc`. One
field is enough because fields do not influence each other.

Deadlock is checked in `MCDomains`, `MCRegAlloc`, `MCLto`, `MCContext` and
`MCEmitter`; in `MCRegAlloc` it shows that selection, the scan and the rewriting
always come to an end of their work. An execution ends at `ret` or at undefined
behaviour, so it is not checked in the runs of `SolverSound`.

Fairness: `MCWiden` assumes weak fairness of its next-state relation, and no
other run assumes any. The engine, the pass and then the compiled function are
one thread of control: `run` pops until both worklists are empty, and a running
program executes its next instruction. `Terminates` is about the first of them
and `Preemptible` about the last: a program that goes on for ever passes checks
for ever. Which edge a condition takes is fixed by its value, so no fairness of
choices is involved.

## 4. What is proved

All theorems hold for every value of the constants that satisfies the assumptions
named with them. TLC evaluates each of these assumptions on its instances.

### The engine

`SolverProofs` proves, for every set of functions and every domain:

- `TypeCorrect`: `Spec => []TypeOK`. Every scheduled call names an instruction,
  an edge and a parameter that exist.
- `WorklistCorrect`: `Spec => []WorklistInvariant`. Whatever is out of date is
  scheduled.
- `ReturnsPostFixpoint`: `Spec => []PostFixpoint`. With empty worklists, nothing
  is out of date.
- `FactsOnlyRise`: `Spec => RaisesOnly`.
- `ReturnsLeast`: `SoundSpec => []LeastFixpoint`. The engine returns the least
  solution of the dataflow equations, where widening loses nothing.
- `ValuesAreSound`, `ReachabilityIsSound`, `EdgesAreSound`: no execution leaves
  what the engine returned; `SoundTypesCorrect`: an execution is always at an
  instruction or a terminator of its function.

The argument. `WorklistInvariant` is the inductive invariant, together with
`TypeOK` (`IInv` in `SolverProofs`); the fixpoint alone is no invariant, for it
holds only at the end. Its six parts are: an instruction of an executable block
has the value of its operands or is to be visited (`InstsCurrent`); a feasible
edge is executable or is to be looked at (`EdgesCurrent`); a parameter is above
its arguments or they are to be passed (`ParamsCurrent`); targets are marked;
sources are executable; and no instruction is above the value its operands give
it now (`InstsBelow`), which is what makes overwriting a result safe. The proof
does not look at nine actions six times: `Effects` says once what a step does to
scheduled work (it stays, is done, or is replaced by the work it stands for), a
lemma per action establishes it, and each part of the invariant follows from
`Effects` alone. `ResultRises` uses that transfer functions are monotone; that
edge feasibility is monotone is not needed, because an edge that ceases to be
feasible owes nothing, and one whose condition changed is revisited.
That the result is the least is one more invariant (`LeastInv`): values and executable
blocks never exceed those of any solution (`ResultBelow`), and neither does the work
that is scheduled, which matters because the feasible edges are computed before the
first of them is taken (`CallsBelow`). It speaks of every solution, not only of
`Rivals`; that a solution is returned at all is `PostFixpointHolds`.
For executions the invariant adds that seeds stay covered (`SeedsBelow`), that the entry
is executable, and that the environment of an execution is covered
(`SoundIInv`); an execution step then follows from the post-fixpoint.

The assumptions:

- `FunctionAssumption` (`WellFormed`): what the builder guarantees. Operand and
  edge arguments are values; a value is a parameter, a result or neither; the use
  list of a value holds every reader.
- `ArityAssumption`, `ElementAssumption`: operands have an arity and operations
  return elements.
- `OrderAssumption`, `MonotoneAssumption`: the laws `AbstractDomain` asks of its
  implementors. For soundness `join` and `widen` need only be upper bounds.
- `PrecisionAssumption`, for `ReturnsLeast`: `join` is the least upper bound, as
  `domain.rs:27` has it, and edge feasibility is monotone. `DomainsPrecise` below
  proves both of the three domains.
- `ConcreteAssumption`, `SoundnessAssumption`: the concretization is monotone and
  the abstract operations cover the concrete ones. `MCDomains` checks exactly
  these for intervals and known bits.

### Register allocation

`RegAllocProofs` and `SelectionProofs` prove, for every set of functions and every
set of registers:

- `MovesAreParallel`, `OneTemporaryPerCycle`: the moves of an edge amount to one
  parallel assignment, and no more temporaries are made than there are cycles.
- `HullsCover`: the live stretches of a register lie within the interval by which
  the scan orders, expires and evicts.
- `SharersApart`: registers that share a physical one never interfere, and none
  overlaps a range in which the code itself uses that register.
- `PlacesAndPointsTyped`: every place handed out is an allocatable register or a
  slot that exists, and running code is always inside a block.
- `ReadsAreIntact`: the allocated code, running, never reads an operand whose place
  holds anything but the value of the register that the selected code names there.
  This is the correctness of selection, edge splitting, layout, scan and rewriting
  together (`Spec => []ReadsIntact`).

The arguments. `Parallel` holds at the end only. `CopyInv` says what holds on the
way: a copy still to be made finds in its source, as it is now, what its
destination is to hold, and a destination without a copy has it already
(`CopyValues`). That a move destroys no value somebody waits for is exactly the
condition under which a copy is `Ready`. `OneTempPerCycle` is proved with a budget
(`MovesBudgeted`): a move costs two, a copy still to be made three, and breaking a
cycle draws on an allowance of at most two, which depends on the copies that read
what no copy writes any more (`Stray`). When a cycle has to be broken there is none,
and breaking it makes one.

Of the scan, `SharersNeverInterfere` is not inductive: it says nothing of a register
that left `active` and of one that comes later. `ActiveCovers` adds that a register
with a physical one is active, or ended before everything in the queue begins; as the
queue is taken by where registers begin, expiry keeps it. `Ends` and `Begins` are
those of the hull, so the argument rests on `SegmentsInHull`. That in turn is proved
from the code: `CodeInv`, that every block made by selection and by splitting edges
ends with an instruction of its own and leads to blocks; `LaidNumbered`, that in any
layout the points of the blocks follow each other and cover all instructions; and
`SegmentsCovered`, that the segments computed block by block, and merged, stay within
the hull computed from definitions, uses and block boundaries. The case that matters
is a stretch that begins at the entry of a block without a definition there: the
register is then live into the block because `LiveInto` solves the dataflow equations
(`LeastSolves`), and the entry is in the hull.
`TypeInv` adds to these what the run itself keeps.

`ReadsIntact` speaks of one step of the running code and is far from inductive.
`RunInv` is: besides `TypeInv` and what the scan keeps it has four parts, one for
each stage of the compiler.

- `SelectedInv`, while code is selected: every block is lowered, an edge with
  arguments leads to a block of its own once it is split off, and for the edge in
  hand `CopiesFed` says that the moves made and the copies left together read
  nothing but the arguments and assign every parameter.
- `FitInv`, from the start of the scan on: the code laid out is `MachineFit`. No
  virtual register is read before it is written on any way from the entry; physical
  registers carry values only from the caller, or within a block; a scratch register
  is read only by the instruction behind the one that wrote it; and an instruction
  that reads late writes something else. `Selected` blocks are `CodeFit`
  (`SelectedCode`), block by block; any layout of fit blocks is fit (`LaidFit`).
- `PlacedInv`: a register that was scanned has an allocatable register or a slot of
  its own, unless it is never live.
- `HeldInv`, while the code runs: at the point reached, which is in a block that can
  be entered, every name that some way from there reads before it writes (`LiveAt`)
  is in its place (`Home`).

The step of `HeldInv` is the heart. What is live after an instruction was live before
it or is written by it (`LiveBefore`, `LiveAcross`), and wherever a register is live a
segment of it is (`SegmentsCover`, the other half of `SegmentsInHull`). What is
written arrives in its place (`DefinedHome`). What was there stays (`OthersStay`),
because an instruction that wrote to the same place would overlap a live segment,
which `SharersApart` excludes for two virtual registers (`DefinedApart`) and for a
virtual and a physical one (`DefinedOffFixed`, `FixedOffLive`); the exceptions are a
tie, where the source dies, and a move between two names of one register, where both
hold the same value afterwards (`CopiedStays`). Reloads and spills go through scratch
registers, in which nothing lives (`ScratchApart`, `ScratchShortLived`).

Assumptions: `FunctionsAssumption` says that functions are what the IR's verifier lets
through: as many arguments as parameters, no parameter twice, no more parameters of
the entry than argument registers, no edge to the entry, and `DefinedFirst`, that
definitions dominate their uses (`Ctx::check_edges` and `Ctx::check_dominance` of
`verify/structural.rs`). Dominance is stated as the existence of a set of blocks that
holds the entry, is closed under edges as long as a register has no value, and reads
it nowhere. Code that cannot be entered may read what it likes, as in the verifier, so
the proof follows reachable blocks only.
`ScratchAssumption` says that scratch registers are distinct, not allocatable
and not ABI operands, but for one operand of a system call (`regs.rs:92-100`,
`isel.rs:1648-1664`). `RegistersAssumption`, `AllocatableAssumption`, `PRegAssumption`
and `ImmAssumption` say that registers are registers, and told apart from slots,
constants and virtual registers. Nothing is assumed of hints, of the preference order,
of the order of blocks, or of how many registers there are. Where scratch registers
do not suffice the code panics and there is no run to speak of; that they may not is
finding 3 (section 5).

### Merging modules

`LtoProofs` proves, for every set of modules and every order of them:

- `NothingDangles`: every reference of the merged module names a function or global
  it has, at every step of merging, inlining and removal. The proof goes through the
  renumbering: what is live keeps its order, closes ranks, and is referred to by its
  new number in bodies and initializers.
- `CachedIsCurrent`: a cached result is of the function that has its number now.
- `ClashesAreRefused`: merging fails for two strong definitions of a name
  (`StrongClash`), for two definitions of one function of which one is weak
  (`WeakFunctionClash`) and for differing layouts (`Disagree`), and for nothing else;
  and no such pair is ever merged. Strong is what `merge.rs:311` calls so, external or
  internal (of internal ones see finding 4). The second case is not among those that
  the documents make an error: they let a weak function yield, as a weak global does
  (finding 6).
- `LevelsAreJoined`: a symbol of the merged module has the highest level any module
  gave it, and no higher.

`LtoInv` is inductive for the first two: the maps from incoming numbers lead to
symbols, and everything waiting to be installed has a target (`MapsShape`).
`MergeInv` is for the others. It is about what was seen so far, which in the
middle of `link_module` is the modules merged and those items of the next one whose
names are resolved (`Seen`). Names are apart and at the highest level seen
(`LevelsKept`); the definitions nobody else may bring are those of exactly one merged
module (`ClaimsKept`); and a claim that is resolved but not yet installed waits for a
symbol without one (`InstallsFit`), which is why checking when a name is resolved is
enough although the body is copied later.

Assumptions: `ProgramsAssumption` (the references of each module are its own handles,
and its functions and globals each have different names, as the symbol table of a
module ensures), `NoneAssumption`, `BoundsAssumption`, `MaxEventsAssumption`.

### Context switches

`ContextSwitchProofs` proves, for every set of threads and versions of registers,
and wherever signals arrive:

- `ContextsTyped`: a parked context always says where to resume, never an address
  within a switch.
- `ResumedIntact`: a thread that gets the processor finds every register it was owed,
  whichever routine parked it and whichever resumes it. Finding 1 is the exception,
  so the theorem assumes `~SignalResumesSaved`, the constant that excludes it.
- `ResumedOnce`: no thread is lost or runs twice. No exception is needed.

The inductive invariant `IInv` relates four places a register may be: the context of
a parked thread keeps what is owed, in the fields its kind says are valid
(`ContextsKeep`); while the handler runs, the processor's registers are those that
returning would load, also for components XSTATE_BV leaves out (`FrameDescribes`);
between a save and the jump, the target is parked and the x87 stack is empty
(`RipKnown`); each created thread is parked or current, and the current one is both
just while a switch is under way or the scheduler runs (`OneCurrent`).

Assumptions: `MainAssumption`; `RipAssumption`, that the code of threads and the
text of the runtime are different addresses.

### The domains

`DomainProofs` proves of all three domains and of the walk, for every set of widths,
instructions and constants, and so for integers far wider than any run
can enumerate:

- `DomainsSound`: after any instructions and merges the value lies in the meaning of
  what each of the two analyses claims of it.
- `DomainsMonotone`: the analysis that knows less of the operands claims no more of
  the result, in the order of the domain and in meaning.
- `TakenEdgeKept`: the edge a condition takes is never pruned.
- `DomainsPrecise`: a join is the least upper bound, an element above another prunes
  no more edges, and where `widen` is the default it is as precise: what
  `ReturnsLeast` asks of a domain.
- `OrderExact`: the order of intervals and of known bits is containment of meanings,
  and a merge changes an element exactly when it brings something new.

The argument goes bottom-up. Patterns and signed integers of a width are in
one-to-one correspondence (`SignedSem`, `SemSigned`), so an interval within the
signed range means what it says (`IntervalMeaning`) and intervals are a lattice
(`RangeContainment`, `RangeJoinLeast`). Arithmetic is covered by the four corners of
a box (`ExactCovers`), where a product needs `Extremes`, that a function linear in
each argument is extreme at a corner; an unflagged result outside the range gives up
(`ArithCovers`). Comparisons answer at most what some pair of members answers
(`MayCover`, `AnswersCover`), casts follow the pattern (`CastCovers`). Each of these
has a counterpart for larger operands (`ArithMonotone`, `IcmpMonotone`,
`CastMonotone`). The constant domain folds by the semantics itself, so its proof is
about the way back from a result to a constant (`FromSemBack`), and about the results
being values at all (`ResultsTyped`): for and, or and xor that takes an induction,
that every set of positions is the ones of some pattern (`PatternsOfAll`).

Known bits are proved on masks as sets of positions. Every set of ones between what
is known to be one and what is not known to be zero is the ones of some value
(`MaskedWitness`), so the order is containment of meanings (`BitsContainment`), and a
result that holds a value never has contradictory masks (`MakeMeaning`). Two facts
carry the arithmetic: the bits below `n` determine the remainder by `2^n`
(`LowAgree`), and the bits of a result's pattern are those of the integer before it
is cut to its width (`BitsOfSem`). The carry into bit `i` of `u + v + c` is then
`((u % 2^i) + (v % 2^i) + c) \div 2^i`, the majority of the two bits and the carry
below (`CarryStep`), and what `add_with_carry` knows of each carry holds it
(`CarriesHold`), so every sum bit it states is right (`AddFollows`); subtraction adds
the complement and one. The low zeros of two factors add up in the product
(`ProductLow`). A shift moves the bits and fills with zeros or with the sign
(`BitShifted`, `HighBits`, `ShiftedBits`). A comparison is decided by masks that know
every bit, or by one bit in which they conflict (`ComparisonFollows`). Each of these
lemmas shows soundness and monotonicity together (`Follow`).

Together
these say what the walk needs of a domain: `DomainLattice`, `DomainTransfer` and
`DomainFeasible`. The invariant `Follows` is inductive from them: the value is in the
meaning of `fine`, and `fine` is below `coarse`.

The theorems about the walk assume that operands of intervals and known bits are not
poison
(`PoisonOperands => Domain \subseteq {"const"}`), which is the hazard at
`ranges.rs:376` (section 5) and not a convenience: with poison operands TLC refutes
`Sound` for both. The constant domain is proved with poison.

Assumptions: `WidthAssumption` (widths are positive, and powers of two are twice the
one before; the provers have no theory of exponents, and TLC evaluates it for the
widths of the run), `DomainAssumption`, `LiteralAssumption` and `OpcodeAssumption`
(the walk draws constants and integer instructions of these widths),
`PoisonAssumption`, `ConstAssumption`, `RangeAssumption` and `BitsAssumption`
(poison, bottom and top are told apart from everything else).

### The emitter

`EmitterProofs` proves, for every set of labels, every length of code and of
branches, and programs of any size:

- `EmitterTyped`: the types, and that branches are recorded in order at the offsets
  of their pieces.
- `EmitterImplements`: `Emitter` implements `BranchLayout`. What is returned is the
  layout with the least set of long branches, with every displacement, field and
  label at its place in it; the error is returned just when a branch or a field
  refers to a label that was never bound.

The invariant `Inv` has one part for each phase. While code is emitted
(`EmitInv`), every branch and every field is recorded once, in the order and at the
offset of its piece, and every label is bound to the offset of the piece it marks
(`Fit`). While branches grow, only those are long that every layout in reach has
long (`Needed`). Afterwards buffer and labels are those of the layout (`LaidInv`),
with the fixups at the fields (`AtFields`) and, in the end, the values in them
(`AtValues`).

What relaxation computes is tied to the layout in two steps. The savings before a
position, counted over the recorded branches, are the difference between the emitted
offset and the offset in the layout with the grown branches long (`ShrinkIs`,
`MovedIs`): both are prefix sums, over the branches and over the pieces, and
`EarlierBranches` matches the one index with the other. So `relax` tests each branch
against the layout it has reached so far. And a layout with fewer long branches only
brings a branch and its label nearer, on the same side (`ReachShrinks`). A branch out
of reach now is out of reach in every layout with more long branches, so what grows
belongs to all of them (`GrowNeeded`); when nothing grows any more, the grown set is
itself in reach and below all others, which is the least (`GrownLeast`, `LeastIs`).
That growing one branch never undoes the need of another is what a greedy loop could
get wrong, and here it is shown of any program. `RebuildLaid` and `NothingToRelax`
give the layout in the two ways out of relaxation, `PatchedValues` the fields.

Assumptions: `LabelAssumption`; `UnboundAssumption`, that an unbound label is told
apart from offsets and places; `LengthAssumption`, that lengths are naturals and the
long form of a branch is longer than the short one, as `long_len` and `short_len`
are.

### Induction

The library's induction theorems take a predicate as a parameter, which the
installed provers cannot instantiate. `InductionLemmas` proves, from the fact that `<` is
well-founded, what can be
stated for a set instead: every non-empty set of naturals has a least element and
every bounded one a greatest, a set that holds 0 and the successor of each member
holds every natural, and flattening a sequence of sequences appends the last to what
flattening the others gives, and leaves every piece at its offset (`FlattenPieces`). The proofs above use these where they would use
induction.

### Only model-checked

- Liveness and `ENABLED`, which are out of the prover's reach: `Terminates`,
  `Preemptible`, and the absence of deadlock.
- `LinksAlike`: a simulation of a whole program, which the invariants above prepare
  (section 8).
- `TripBoundHolds` and `CostHolds`, and `ClimbsInJumps`.
- `ValuesKept`, `ObservablesKept`, `NoStrays` and `SecondRunIdle`: `SimplifyCfg`
  walks graphs with recursive operators, which the prover does not accept.

## 5. Findings

The first five are runs that end in a counterexample; the sixth is a part of what a
passing run, and a theorem, say of the code.

1. `lf_ctx_to_ucontext` copies `rax` from a context saved by `lf_ctx_save`, which
   does not write it, so a thread parked that way and resumed by a signal sees a
   stale value as the second return of `lf_ctx_save`, not 1
   (`MCContextSaved`). `MCContext` excludes that one combination.
2. `splice` gives an absolute reference within a fragment the addend
   `base + offset`, an offset of the long form; relaxation moves the field but not
   the addend, so after a shrunk branch the address is too high
   (`MCEmitterAbsolute`).
3. The rewriting of spilled operands takes one scratch register per operand from
   a list of three on AArch64 and RISC-V, which select instructions with four
   register operands; the fourth index is out of range (`MCScratch`).
4. `link_module` unifies symbols by name whatever their linkage, so a reference
   to an external symbol can be bound to another module's private definition
   (`MCLtoInternal`).
5. The trip bound assumes that the tested value does not wrap; a counter that
   starts at the signed maximum wraps in its first step, and the bound is 1
   (`MCYieldWrap`). `MCWiden` starts its counters elsewhere.
6. `link_module` asks for the strength of a global (`def_rank`) but of a function
   only whether it has a body, so a weak function beside a strong one, or beside
   another weak one, is refused as a duplicate (`merge.rs:203`). `ir-design.md:269-271`
   and 319 give functions the linkages of globals and let strong beat weak,
   `ir/mod.rs:114` says that a weak symbol yields to a strong definition elsewhere,
   and `merge.rs:22-24` makes only two strong definitions an error; the linker does
   link such modules when they are compiled one by one. `RefusesClashes` names this
   case apart from the others, `WeakFunctionClash`, and `MCLto` meets it in both orders
   and with two weak ones. Without that disjunct the property is the documented one,
   and TLC finds it violated: the third module's `f` is merged, and the second's weak
   `f` makes the merge fail.

Further observations, which no run is kept for:

- A loop entered at two places has no header. Nothing in it is widened, so the
  interval analysis climbs one step per turn there, and no check is put on it.
  (`ClimbsInJumps` without `~Reducible` fails.)
- Intervals and known bits answer an operation on an unknown operand with a
  bounded element, but the operand may be poison, and then so is the result.
  (`Sound` fails in `DomainWalk` with `PoisonOperands = TRUE`.)
- The constant domain compares interned constants, so two constants of one bit
  pattern are unequal and join to ⊤: precision, not soundness.
  (`OrderIsContainment` fails for that domain.)
- `simplify_cfg.rs:3-5` says that a second run reports no change. A block that
  branches to an empty block which is entered from nowhere else absorbs that block in the first
  run and becomes a forwarding block itself, which only the second run bypasses.
- `mem2reg.rs:35-37` says that the result refines the input. A slot that is
  allocated in a loop and read before it is written holds poison again in every
  turn, and dividing by poison is poison in `ir/semantics.rs:340`, not undefined.
  Without the slot the divisor is what the turn before stored, and if that is zero
  the division is undefined. Likewise `freeze` of the load, which `eval_freeze`
  makes zero, becomes the stored value. (`ValuesKept` fails on such a function,
  and `MCSolver` has none.)
- The nullness domain keeps `ptr_add inbounds` of a pointer that is not null
  apart from null, while `eval` in `ir/semantics.rs:364` ignores `inbounds` and
  lets the sum wrap to zero. Read, not modelled.

## 6. Faults

A definition whose comment begins with "Fault:" is a variant of the definition
that follows it, changed the way a plausible bug would change the code: an update
that does not push, an edge that is not marked, a frame copied as it is. No
specification uses them. Substituting one for the definition it varies makes TLC
find the property violated that `PROJECT.json` lists beside it under `mutants`;
that is how the properties are known to depend on the code they are about. One
fault is listed per property; the other definitions marked so are caught as well,
`DomPreorderBackwards`, `AvailableSomewhere` and `AccessesAnyOperand` by `NoStrays`,
`HoistsDivision`, `OneSymbolOfAny` and `StrictFrontier` by `ValuesKept`, `FrontierOnce`
by `ObservablesKept`, and `ResolveUnsubstituted` by both, for example.

## 7. Not modelled

See `components` in `PROJECT.json` for the list with reasons. In short: encoders,
selectors and byte formats, which have no behaviour over time and are tables to
be checked case by case; the front end and the drivers, which are batch
translators; passes over memory and expressions (sroa, memopt, e-graph,
superoptimizer, sanitizers); and everything that lives in another crate (`z3rs`,
`puremp`, `rsasm`, `qld`). Most of the repository's lines are of the first two
kinds, which is why the models cover a small share of them.

In the parts that are modelled: the intersection of intervals with known bits in
trip bounds, `has_check` and the saturation of costs (`YieldPoints`); repeated
rounds of the pipeline (`Rewrite`). That only weak globals are ever overridden in a
merge, and weak functions are not, is the code's doing (finding 6).

## 8. Plan

To be proved next, most important first:

1. `LinksAlike`, that the merged program behaves as the separately linked one: a
   simulation between the frames of the two, along the maps of `MergeInv`.
2. `YieldPoints`: `TripBoundHolds`, from `ValuesAreSound` and the arithmetic of a
   counter that does not wrap.

And to be modelled: memory by address in `Rewrite`, and with it `sroa` and `memopt`;
equality saturation; the nullness and secrecy analyses; the runtimes of AArch64
and RISC-V.
