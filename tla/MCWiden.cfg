SPECIFICATION WidenSpec
CONSTANTS
  Literal <- MCLiteral
  Opcode <- MCOpcode
  Guard <- MCGuard
  Join <- MCJoin
  Leq <- MCLeq
  Widen <- MCWiden
  Gamma <- MCGamma
  Abstract <- MCAbstract
  Transfer <- MCTransfer
  Feasible <- MCFeasible
  Eval <- MCEval
  Satisfies <- MCSatisfies
  Rivals <- MCRivals
  Value <- MCValue
  Block <- MCBlock
  Function <- MCFunction
  Arity <- MCArity
  Elem <- MCElem
  Concrete <- MCConcrete
  Denotes <- MCDenotes
  Starts <- Ordinary
  Width <- MCWidth
  MaxCost = 10
  Unbounded = Unbounded
  Unplanned = Unplanned
  Bottom <- RangeBottom
  Top <- RangeTop
  Poison = Poison
  RangeBottom = RangeBottom
  RangeTop = RangeTop
  Always = Always
  Undef = Undef
INVARIANTS ClimbsInJumps ValuesSound TripBoundHolds CostHolds
PROPERTIES Terminates Preemptible
CHECK_DEADLOCK FALSE
