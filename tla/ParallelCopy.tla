----------------------------- MODULE ParallelCopy -----------------------------
(***************************************************************************)
(* The block arguments of an edge become register moves: every parameter of *)
(* the successor receives its argument at once, but the moves run one after *)
(* the other.  Lower::parallel_copy (src/src/codegen/isel.rs) orders them and *)
(* breaks cycles with a temporary.                                           *)
(*                                                                         *)
(* Virtual registers are the numbers 1..vregs; the source of a copy is one  *)
(* of them or Imm, a constant.                                              *)
(***************************************************************************)
EXTENDS Integers, Sequences, FiniteSets, SequencesExt

CONSTANT Imm        \* a constant as the source of a copy
ASSUME ImmAssumption == Imm \notin Nat

VARIABLES
  copies,   \* the copies still to be made, [dst, src] by position
  moves,    \* the moves emitted so far
  vregs,    \* how many virtual registers the function has
  holds,    \* history: what each register holds once `moves` have run
  wanted    \* history: what each destination is to hold

copyVars == <<copies, moves, vregs, holds, wanted>>

ValueOf(src) == IF src = Imm THEN Imm ELSE holds[src]
Reads(c, r) == c.src = r
NoneLeft == DOMAIN copies = {}

\* A parallel copy starts: a copy of a register to itself is dropped.  Each
\* register's value on entry is named after the register.
Begin(n, dsts, srcs) ==
  /\ vregs' = n
  /\ copies' = [i \in {i \in DOMAIN dsts : srcs[i] # dsts[i]} |->
                  [dst |-> dsts[i], src |-> srcs[i]]]
  /\ moves' = <<>>
  /\ holds' = [r \in 1..n |-> r]
  /\ wanted' = [d \in ToSet(dsts) |-> srcs[CHOOSE i \in DOMAIN dsts : dsts[i] = d]]

\* Fault: the copies are emitted in the order they come.
InOrder == DOMAIN copies

\* The copies whose destination no remaining copy reads.
Ready == {i \in DOMAIN copies : \A j \in DOMAIN copies : ~Reads(copies[j], copies[i].dst)}
First(is) == CHOOSE i \in is : \A j \in is : i <= j

\* Emit the first ready copy.
EmitReady ==
  /\ Ready # {}
  /\ LET i == First(Ready)
     IN  /\ moves' = Append(moves, copies[i])
         /\ holds' = [holds EXCEPT ![copies[i].dst] = ValueOf(copies[i].src)]
         /\ copies' = Restrict(copies, DOMAIN copies \ {i})
  /\ UNCHANGED <<vregs, wanted>>

\* Fault: the temporary is written, but the copy still reads its old source.
BreakWithoutRedirect ==
  /\ ~NoneLeft
  /\ Ready = {}
  /\ LET s == copies[First(DOMAIN copies)].src
     IN  /\ moves' = Append(moves, [dst |-> vregs + 1, src |-> s])
         /\ holds' = Append(holds, holds[s])
  /\ vregs' = vregs + 1
  /\ UNCHANGED <<copies, wanted>>

\* Every remaining destination is read by another copy: save the first
\* register source in a new register, and read it from there.
BreakCycle ==
  /\ ~NoneLeft
  /\ Ready = {}
  /\ LET i == First({i \in DOMAIN copies : copies[i].src # Imm})
         s == copies[i].src
         t == vregs + 1
     IN  /\ vregs' = t
         /\ moves' = Append(moves, [dst |-> t, src |-> s])
         /\ holds' = Append(holds, holds[s])
         /\ copies' = [k \in DOMAIN copies |->
                         IF Reads(copies[k], s) THEN [copies[k] EXCEPT !.src = t] ELSE copies[k]]
  /\ UNCHANGED wanted

\* Once no copy is left, every destination holds what its argument held when
\* the edge was taken: no move overwrote a value another one still needed.
Parallel == NoneLeft => \A d \in DOMAIN wanted : holds[d] = wanted[d]

\* A temporary per cycle is all it takes, and a cycle has two copies at the
\* least: the moves never exceed the copies by more than half, so the loop
\* that emits them ends.
OneTempPerCycle ==
  LET n == Cardinality({d \in DOMAIN wanted : wanted[d] # d})
  IN  2 * (Len(moves) + Cardinality(DOMAIN copies)) <= 3 * n
=============================================================================
