SPECIFICATION FairSpec
CONSTANTS
  a1 = a1
  a2 = a2
  d1 = d1
  d2 = d2
  e1 = e1
  None = None
  Torn = Torn
  Dirs <- TwoDirs
  Bins <- TwoBuilds
  NameOf <- SameName
  Loadable <- OneBuild
  MaxCopies = 1
  Edits <- OneEdit
  NAnalyzers = 1
  Habits <- Everything
INVARIANTS
  ActiveAgrees
PROPERTIES
  AnalysisEnds
  ProgramKept
  ChannelKept
