SPECIFICATION FairSpec
CONSTANTS
  t1 = t1
  t2 = t2
  sys = sys
  None = None
  Threads <- OneThread
  SysThread <- sys
  CodeLen = 1
  BpAddrs <- OneAddr
  Ops <- TimeOps
  MaxBp = 1
  MaxAbandoned = 1
  DrainMax = 2
  ReportAfter = FALSE
  ShadowedClears = FALSE
INVARIANT
  StoppedIsHeld
PROPERTIES
  CommandsReturn
  ThreadsAreServed
