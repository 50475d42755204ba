SPECIFICATION Spec
CONSTANTS
  c1 = c1
  c2 = c2
  p1 = p1
  p2 = p2
  None = None
  Callers <- TwoCallers
  Pids <- TwoPids
  Started <- FirstRuns
  MaxHandle = 3
  MaxToken = 3
CHECK_DEADLOCK FALSE
INVARIANTS
  SessionOwnsHandles
  SuspendedIsOwned
  DebugIsExclusive
  ReaderReadsItsTarget
  StoppedCopyHolds
