CONSTANTS
  a1 = a1
  a2 = a2
  b1 = b1
  b2 = b2
  v = v
  w = w
  c1 = c1
  c2 = c2
  c3 = c3
  t1 = t1
  t2 = t2
  g1 = g1
  g2 = g2
  MaxConns = 2
  Agents = {a1, a2}
  Servers = {1}
  MaxNotes = 1
  AcpCalls = {b1, b2}
  NChunks = 1
  BufferSize = 1
  NTurns = 2
  MaxSessions = 2
  Waiters = {v, w}
  NMessages = 3
  MaxRuns = 2
  QueueSize = 2
  Chats = {c1, c2, c3}
  Testers = {t1, t2}
  NSteps = 2
  GptCalls = {g1, g2}
  MaxBundles = 3
  ChannelSize = 1
SPECIFICATION AdaptersSpec
INVARIANTS
  ToolsHaveTheirServer
  OwnAnswers
  ScreenIsItsOwn
  TokensOutlive
  AnsweredOnce
PROPERTY EverybodyReturns
CHECK_DEADLOCK FALSE
