SPECIFICATION FairSpec
CONSTANTS
  Bytes <- MCBytes
  Msgs <- MCMsgs
  File <- MCFile
  MaxFiles = 1
  Threads = {t1}
PROPERTIES
  FileSent
CHECK_DEADLOCK FALSE
