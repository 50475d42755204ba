SPECIFICATION Spec
CONSTANTS
  t1 = t1
  t2 = t2
  None = None
  Threads <- TwoThreads
  MaxSessions = 2
  MaxStops = 3
CHECK_DEADLOCK FALSE
INVARIANTS
  PaneOwnsTable
  CachesAreOfTheSession
  ShownStopHasItsRegisters
