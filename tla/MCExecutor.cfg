CONSTANTS
  work = work
  request_approval = request_approval
  request_human = request_human
  out = out
  Tools <- MCTools
  GateTools <- MCGateTools
  ApprovalTools <- MCApprovalTools
  Outputs <- MCOutputs
  MaxIterations = 2
  DrainMax = 1
  MaxConsecutive = 0
  MaxErrors = 0
  MaxAlternating = 2
  MaxNoProgress = 0
  MaxCalls = 3
  MaxInjected = 2
SPECIFICATION FairSpec
INVARIANTS
  AnswersInOrder
  RunsOnlyWithConsent
PROPERTIES
  DrivesDetector
  EveryRunEnds
CHECK_DEADLOCK FALSE
