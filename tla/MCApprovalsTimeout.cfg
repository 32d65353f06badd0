CONSTANTS
  a1 = a1
  a2 = a2
  r1 = r1
  r2 = r2
  Agents <- MCAgents
  Ids <- MCIds
  RowTimeouts <- MCRowTimeouts
  WaitTimeout = 1
  Horizon = 3
SPECIFICATION Spec
INVARIANTS
  TimeoutMeansUnapproved
CHECK_DEADLOCK FALSE
