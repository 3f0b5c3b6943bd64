SPECIFICATION FairSpec
CONSTANTS
  s1 = s1
  s2 = s2
  d1 = d1
  d2 = d2
  None = None
  Session <- OneSession
  Date <- TwoDates
  Minutes = 1
  Today = d1
  StartDay = d1
  Statuses <- TwoStatuses
  Workers = 2
  Prompt = TRUE
  MaxCalls = 2
  MaxInputs = 1
  MaxRows = 2
  MaxFaults = 1
INVARIANTS
  TypeOK
PROPERTIES
  ShowsLatest
  NeverOlderPlot
