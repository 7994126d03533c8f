SPECIFICATION Spec
CONSTANTS
  Width = {1, 2, 3}
  Literal <- MCLiteral
  Opcode <- MCOpcode
  Guard <- MCGuard
  Poison = Poison
  ConstBottom = ConstBottom
  ConstTop = ConstTop
  RangeBottom = RangeBottom
  RangeTop = RangeTop
  BitsBottom = BitsBottom
  BitsTop = BitsTop
  Domain = {"const", "range", "bits"}
  PoisonOperands = FALSE
INVARIANTS Sound Monotone TakenEdgeFeasible OrderIsContainment
