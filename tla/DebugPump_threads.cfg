SPECIFICATION Spec
CONSTANTS
  t1 = t1
  t2 = t2
  sys = sys
  None = None
  Threads <- TwoThreads
  SysThread <- sys
  CodeLen = 2
  BpAddrs <- Adjacent
  Ops <- BpOps
  MaxBp = 2
  MaxAbandoned = 0
  DrainMax = 2
  ReportAfter = FALSE
  ShadowedClears = FALSE
SYMMETRY Symmetry
INVARIANTS
  StopNamesItsBreakpoint
  TextIsOwned
  DetachRestoresText
  NoInstructionSkipped
