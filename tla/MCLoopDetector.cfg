CONSTANTS
  c1 = c1
  c2 = c2
  x = x
  y = y
  Calls <- MCCalls
  Results <- MCResults
  MaxConsecutive = 0
  MaxErrors = 0
  MaxAlternating = 0
  MaxNoProgress = 0
  MaxHistory = 7
SPECIFICATION Spec
INVARIANTS
  NoAlternationSurvives
  NewCallsNeverBreak
PROPERTIES
  StreaksAreWarnedOf
