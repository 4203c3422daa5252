SPECIFICATION PoolSpec
CONSTANTS
  PageSize = 8
  Alignment = 2
  PoolSize = 1
  SmallNodeSize = 4
  LargeNodeSize = 3
  UIntMod = 5
  FailedLimit = 1
  WalkLimit = 1
  Leftover <- MCLeftover
  Sizes = {1, 4}
  Chunks = {c1, c2}
  None = None
  MaxPages = 4
SYMMETRY MCSymmetry
INVARIANTS
  NoOverlap
  LargeAccounted
  EmptyIsReused
CHECK_DEADLOCK FALSE
