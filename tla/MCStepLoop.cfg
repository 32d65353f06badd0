CONSTANTS
  MaxIterations = 2
  MaxEmpty = 1
  MaxIntent = 1
  MaxSequence = 2
  MaxCalls = 3
  MaxSessions = 2
SPECIFICATION Spec
INVARIANTS
  NeverAsksBareHanded
  CallsAreAnswered
  NothingIsMissed
CHECK_DEADLOCK FALSE
