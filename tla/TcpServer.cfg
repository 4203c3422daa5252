SPECIFICATION FairSpec
CONSTANTS
  NumConns = 2
  MaxThreads = 2
INVARIANTS
  PollersSound
  EventsFramed
PROPERTIES
  ImplementsLife
  ClosedIsFreed
  DestructorCleansUp
CHECK_DEADLOCK FALSE
