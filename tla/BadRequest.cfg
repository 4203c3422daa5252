SPECIFICATION ConnSpec
CONSTANTS
  Streams <- WellFormed
  kCheapPrepend = 1
  kInitialSize = 4
  kExtraSize = 16
INVARIANTS
  OnlyErrorsRejected
CHECK_DEADLOCK FALSE
