SPECIFICATION Spec
CONSTANTS
  None = None
  Sizes <- TwoSizes
  StartSize <- Flat
  MaxWide = 0
  MaxCommands = 1
INVARIANT NeverStuck
