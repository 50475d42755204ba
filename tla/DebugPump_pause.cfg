SPECIFICATION BreakInFairSpec
CONSTANTS
  t1 = t1
  t2 = t2
  sys = sys
  None = None
  Threads <- OneThread
  SysThread <- sys
  CodeLen = 1
  BpAddrs <- OneAddr
  Ops <- RunOps
  MaxBp = 1
  MaxAbandoned = 0
  DrainMax = 2
  ReportAfter = FALSE
  ShadowedClears = FALSE
PROPERTIES
  PauseStops
