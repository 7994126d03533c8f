SPECIFICATION Spec
CONSTANTS
  l1 = l1
  l2 = l2
  l0 = l0
  Label = {l0, l1, l2}
  FragmentLabel = l0
  Unbound = Unbound
  Undefined = Undefined
  Unfinished = Unfinished
  CodeLen = {1, 3, 124}
  FragmentLen = {1}
  LongLen <- MCLongLen
  MaxPieces = 4
  MaxFields = 1
INVARIANT AbsoluteLands
