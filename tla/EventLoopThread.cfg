SPECIFICATION ThreadFairSpec
CONSTANTS
  Functors = {f1, f2, f3}
  Posters = {p1, p2}
INVARIANTS
  NoLostWakeup
  NoDeadLoop
PROPERTIES
  ImplementsQueue
  QueuedRuns
  StartLoopReturns
CHECK_DEADLOCK FALSE
