------------------------------- MODULE DomainWalk -----------------------------
(***************************************************************************)
(* The soundness harness src/src/analysis/soundness.rs, continued: a value *)
(* is computed by one instruction after another, and merged with others at *)
(* joins and loop headers, while two analyses follow it, the second from   *)
(* operands of which it knows less.                                        *)
(***************************************************************************)
EXTENDS ConstDomain, RangeDomain, KnownBits

CONSTANTS
  Domain,                     \* the domains under test
  Literal, Opcode, Guard,     \* the constants, instructions and edges drawn from
  PoisonOperands              \* whether an operand may be poison

ASSUME DomainAssumption == Domain \subseteq {"const", "range", "bits"}

ASSUME LiteralAssumption == Literal \subseteq Consts

\* The integer instructions, and one whose result no analysis knows.
Integral == Binary \union Casts \union {"select", "freeze", "load"}
ASSUME OpcodeAssumption ==
  \A op \in Opcode : op.kind \in Integral /\ op.width \in Width

(* AbstractDomain (src/src/analysis/domain.rs), by domain.                    *)
Top(d) == CASE d = "const" -> ConstTop [] d = "range" -> RangeTop [] d = "bits" -> BitsTop
Join(d, x, y) == CASE d = "const" -> ConstJoin(x, y)
                   [] d = "range" -> RangeJoin(x, y)
                   [] d = "bits" -> BitsJoin(x, y)
Leq(d, x, y) == CASE d = "const" -> ConstLeq(x, y)
                  [] d = "range" -> RangeLeq(x, y)
                  [] d = "bits" -> BitsLeq(x, y)
Widen(d, x, y) == CASE d = "const" -> ConstWiden(x, y)
                    [] d = "range" -> RangeWiden(x, y)
                    [] d = "bits" -> BitsWiden(x, y)
Gamma(d, x) == CASE d = "const" -> ConstGamma(x)
                 [] d = "range" -> RangeGamma(x)
                 [] d = "bits" -> BitsGamma(x)
Abstract(d, l) == CASE d = "const" -> ConstAbstract(l)
                    [] d = "range" -> RangeAbstract(l)
                    [] d = "bits" -> BitsAbstract(l)
Transfer(d, op, s) == CASE d = "const" -> ConstTransfer(op, s)
                        [] d = "range" -> RangeTransfer(op, s)
                        [] d = "bits" -> BitsTransfer(op, s)
Feasible(d, x, guard) == CASE d = "const" -> ConstFeasible(x, guard)
                           [] d = "range" -> RangeFeasible(x, guard)
                           [] d = "bits" -> BitsFeasible(x, guard)

\* A literal that may stand next to the value.
Suits(l, v) == Poison \notin {l, v} => v.width = l.width

\* An opcode's operands: x is the value, y a literal.
OperandLists(op, x, y) ==
  CASE ArityOf(op) = 1 -> <<<<x>>>>
    [] ArityOf(op) = 2 -> <<<<x, y>>, <<y, x>>, <<x, x>>>>
    [] ArityOf(op) = 3 -> <<<<x, y, y>>>>

VARIABLES
  domain,                     \* the domain in use
  value,                      \* the concrete value
  fine, coarse                \* what the two analyses know of it

vars == <<domain, value, fine, coarse>>

(* abstract_ops: a literal is known exactly, or to the second analysis not  *)
(* at all.                                                                  *)
Known(l) == {Abstract(domain, l), Top(domain)}

Init ==
  /\ domain \in Domain
  /\ \E l \in Literal :
       /\ value = ToSem(l)
       /\ fine = Abstract(domain, l)
       /\ coarse \in Known(l)

(* One case of check_integer_transfer_sound; an undefined result is skipped. *)
Compute(op, l) ==
  /\ PoisonOperands \/ Poison \notin {value, ToSem(l)}
  /\ \E known \in Known(l) :
       \E place \in DOMAIN OperandLists(op, value, ToSem(l)) :
         LET Operands(x, y) == OperandLists(op, x, y)[place]
         IN  /\ value' \in EvalInst(op, Operands(value, ToSem(l)))
             /\ fine' = Transfer(domain, op, Operands(fine, Abstract(domain, l)))
             /\ coarse' = Transfer(domain, op, Operands(coarse, known))
  /\ UNCHANGED domain

(* A block parameter that either of two edges may have given its value.     *)
Merge(l) ==
  /\ Suits(l, value)
  /\ value' \in {value, ToSem(l)}
  /\ fine' = Join(domain, fine, Abstract(domain, l))
  /\ \E known \in Known(l) : coarse' = Join(domain, coarse, known)
  /\ UNCHANGED domain

(* The same at a loop header, where the second analysis widens.             *)
MergeAtHeader(l) ==
  /\ Suits(l, value)
  /\ value' \in {value, ToSem(l)}
  /\ fine' = Join(domain, fine, Abstract(domain, l))
  /\ coarse' = Widen(domain, coarse, Join(domain, coarse, Abstract(domain, l)))
  /\ UNCHANGED domain

Next ==
  \E l \in Literal : (\E op \in Opcode : Compute(op, l)) \/ Merge(l) \/ MergeAtHeader(l)

Spec == Init /\ [][Next]_vars

-----------------------------------------------------------------------------

(* gamma of what an analysis claims holds the value, whatever instructions  *)
(* and merges it came from (domain.rs: a transfer is sound).                *)
Sound == value \in Gamma(domain, fine) \intersect Gamma(domain, coarse)

(* Knowing less of the operands never yields more of the result: transfer,  *)
(* join and widen are monotone, and the order is containment of gamma.      *)
Monotone ==
  /\ Leq(domain, fine, coarse)
  /\ Gamma(domain, fine) \subseteq Gamma(domain, coarse)

(* The edge a condition takes is never pruned (edge_feasible).              *)
TakenEdgeFeasible ==
  \A g \in Guard : CondHolds(value, g) => Feasible(domain, fine, g)

(* The order is exactly containment of gamma (AbstractDomain::le and join): *)
(* a literal is below an element when the element already stands for its    *)
(* value, and merging it then changes nothing.  Constants are compared as    *)
(* they were interned, and several of them stand for one value.             *)
OrderIsContainment ==
  domain # "const" => \A l \in Literal :
    LET a == Abstract(domain, l)
        covered == Gamma(domain, a) \subseteq Gamma(domain, fine)
    IN  /\ Leq(domain, a, fine) <=> covered
        /\ (Join(domain, fine, a) = fine) <=> covered
===============================================================================
