SPECIFICATION LogFairSpec
CONSTANTS
  Cap = 2
  MaxLines = 3
  rollSize = 5
  flushInterval = 0
  checkEveryN = 2
  kRollPerSeconds = 2
  MaxTime = 3
  LocalTime <- MCLocalTime
INVARIANTS
  Inv
  NoLineLost
  LogOnDisk
  DayEnds
PROPERTIES
  LinesOnDisk
CHECK_DEADLOCK FALSE
