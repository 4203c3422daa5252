SPECIFICATION FairSpec
CONSTANTS
  Bytes <- MCBytes
  Msgs <- MCMsgs
  File <- MCFile
  MaxFiles = 1
  Threads = {t1}
INVARIANTS
  NothingLostOrReordered
  FinAfterData
PROPERTIES
  OutputDrains
  ShutdownCompletes
CHECK_DEADLOCK FALSE
