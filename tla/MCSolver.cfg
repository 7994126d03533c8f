SPECIFICATION RewriteSpec
CONSTANTS
  Value <- MCValue
  Block <- MCBlock
  Function <- MCFunction
  Literal <- MCLiteral
  Opcode <- MCOpcode
  Arity <- MCArity
  Guard <- MCGuard
  Always = Always
  Elem <- MCElem
  Bottom <- ConstBottom
  Top <- ConstTop
  Join <- MCJoin
  Leq <- MCLeq
  Widen <- MCWiden
  Abstract <- MCAbstract
  Transfer <- MCTransfer
  Feasible <- MCFeasible
  Concrete <- MCConcrete
  Undef = Undef
  Gamma <- MCGamma
  Denotes <- MCDenotes
  Eval <- MCEval
  Satisfies <- MCSatisfies
  Rivals <- MCRivals
  Poison = Poison
  ConstBottom = ConstBottom
  ConstTop = ConstTop
  Stray = Stray
  Name <- MCName
  SideEffect <- MCSideEffect
  Divides <- MCDivides
  Loads <- MCLoads
  Allocates <- MCAllocates
  Stores <- MCStores
  SameType <- MCSameType
  Phi <- MCPhi
  Uninit = Uninit
  PoisonLiteral <- Poison
  AsConst <- MCAsConst
  Selects <- MCSelects
  IsExactly <- MCIsExactly
  NoBody = NoBody
  PoisonValue <- Poison
INVARIANTS SoundTypeOK WorklistInvariant PostFixpoint LeastFixpoint ReachSound ValuesSound
  ValuesKept ObservablesKept NoStrays SecondRunIdle
PROPERTIES RaisesOnly EdgesSound
CHECK_DEADLOCK FALSE
