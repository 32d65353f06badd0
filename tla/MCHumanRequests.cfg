CONSTANTS
  a1 = a1
  o1 = o1
  o2 = o2
  r1 = r1
  r2 = r2
  n1 = n1
  v1 = v1
  v2 = v2
  NoValue = NoValue
  Agents <- MCAgents
  Operators <- MCOperators
  Ids <- MCIds
  Names <- MCNames
  Values <- MCValues
  RowTimeouts <- MCRowTimeouts
  WaitTimeout = 1
  Horizon = 2
SPECIFICATION Spec
SYMMETRY Alike
INVARIANTS
  EventsAreTrue
  StoreHoldsARecordedAnswer
  StoredIsMasked
PROPERTIES
  NeverExpiresEarly
  ImplementsGate
CHECK_DEADLOCK FALSE
