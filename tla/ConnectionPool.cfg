SPECIFICATION FairSpec
CONSTANTS
  Users = {u1, u2, u3, u4, u5}
  MinSize = 1
  MaxSize = 5
  MaxIdle = 2
INVARIANTS
  OnePlace
  OldestFirst
  SizeInBounds
PROPERTIES
  PoolGrows
