CONSTANTS
  p1 = p1
  p2 = p2
  p3 = p3
  c1 = c1
  c2 = c2
  c3 = c3
  NoCaller = NoCaller
  NoCid = NoCid
  Callers <- MCCallers
  Cids <- MCCids
SPECIFICATION FairSpec
INVARIANTS
  KnownWereStarted
  NothingIsOverwritten
  TakenOnce
PROPERTIES
  MarkerIsReleased
