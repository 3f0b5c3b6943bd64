SPECIFICATION Spec
CONSTANTS
  s1 = s1
  s2 = s2
  d1 = d1
  d2 = d2
  None = None
  Session <- TwoSessions
  Date <- TwoDates
  Minutes = 1
  Today = d1
  StartDay = d1
  Statuses <- TwoStatuses
  Workers = 2
  Prompt = FALSE
  MaxCalls = 2
  MaxInputs = 1
  MaxRows = 1
  MaxFaults = 0
SYMMETRY Symmetry
INVARIANTS
  ShownAsLogged
