SPECIFICATION ConnFairSpec
CONSTANTS
  Streams <- MCStreams
  kCheapPrepend = 1
  kInitialSize = 4
  kExtraSize = 16
INVARIANTS
  RequestsIntact
  RepliesFollowRequests
  BufferHolds
PROPERTIES
  WholeRequestServed
CHECK_DEADLOCK FALSE
