CONSTANTS
  Callers = {c1, c2}
  NoCaller = NoCaller
  MaxChanges = 1
  MaxAdded = 2
  Artifacts = {x, y}
  Subscribers = {s}
  Clients = {c}
  QueueSize = 1
  Pipelines = {q1, q2}
  Jobs = {j1, j2}
  NChunks = 2
  Limit = 2
  Pulls = {d1, d2}
  NBlocks = 3
  MaxBlocks = 5
  HookIds = {1, 2}
  MaxAttempts = 2
  Users = {1, 2}
  MaxUses = 4
SPECIFICATION ServicesSpec
SYMMETRY Alike
INVARIANTS
  
  BootIsComplete
  ProvidersAreCurrent
  ToldOnce
  SectionKept
  SavedIsFound
  FilesAreWhole
  TasksAreThoseWanted
CHECK_DEADLOCK FALSE
