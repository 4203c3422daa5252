SPECIFICATION FairSpec
CONSTANTS
  once1 = once1
  once2 = once2
  often = often
  Timers <- MCTimers
  Interval <- MCInterval
  MaxDelay = 2
INVARIANTS
  NoStrandedTimer
  OnTime
PROPERTIES
  TimersRun
