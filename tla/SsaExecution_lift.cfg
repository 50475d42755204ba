SPECIFICATION Spec
CONSTANTS
  rax = rax
  rcx = rcx
  rbx = rbx
  tmp = tmp
  ecx = ecx
  None = None
  Vars <- Four
  PartOf <- Halves
  ReturnVars <- Rax
  Programs <- Families
  Start <- Registers
  Memories <- ByCalls
CHECK_DEADLOCK FALSE
INVARIANTS
  ImmediateDominators
  RenamedAgrees
  OptimizedAgrees
