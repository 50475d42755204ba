SPECIFICATION Spec
CONSTANTS
  a1 = a1
  a2 = a2
  d1 = d1
  d2 = d2
  e1 = e1
  None = None
  Torn = Torn
  Dirs <- TwoDirs
  Bins <- TwoBuilds
  NameOf <- SameName
  Loadable <- TwoBuilds
  MaxCopies = 2
  Edits <- OneEdit
  NAnalyzers = 1
  Habits <- Disciplined
INVARIANTS
  ResultsMatchCopy
  RegisteredHasCopy
  OneHolder
PROPERTIES
  ProgramKept
  SavedWorkKept
CONSTRAINT ThreeFiles
