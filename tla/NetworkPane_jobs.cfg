SPECIFICATION FairSpec
CONSTANTS
  x1 = x1
  x2 = x2
  h1 = h1
  None = None
  Paths <- TwoPaths
  Hosts <- OneHost
  MaxCaptures = 2
  svc = svc
  app = app
  Replays <- OneReplay
  Filters <- SomeFilters
  MaxBytes = 7
INVARIANTS
  ResultIsOfThePick
  PlanIsOfTheResult
  FlowsAreOfTheSession
PROPERTIES
  JobEnds
  ChannelKept
