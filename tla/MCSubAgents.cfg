CONSTANTS
  p = p
  r1 = r1
  r2 = r2
  k1 = k1
  k2 = k2
  k3 = k3
  Workers = {k1}
  MaxAsked = 1
  Parents = {p}
  Runs = {r1, r2}
  Kids = {k1, k2, k3}
  Of <- MCOf
  Max = 1
  NoParent = NoParent
  NoRun = NoRun
SYMMETRY Symmetry
SPECIFICATION Spec
INVARIANTS
  BusyIsBounded
  NoGrandchildren
  OwnChildrenAreReleased
CHECK_DEADLOCK FALSE
