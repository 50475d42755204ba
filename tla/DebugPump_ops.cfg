SPECIFICATION Spec
CONSTANTS
  t1 = t1
  t2 = t2
  sys = sys
  None = None
  Threads <- OneThread
  SysThread <- sys
  CodeLen = 2
  BpAddrs <- OneAddr
  Ops <- AllOps
  MaxBp = 2
  MaxAbandoned = 0
  DrainMax = 2
  ReportAfter = FALSE
  ShadowedClears = FALSE
INVARIANTS
  IndexNamesLiveEntry
  RunningIsNotHeld
PROPERTY
  PromiseKept
