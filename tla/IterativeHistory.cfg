SPECIFICATION Spec
CONSTANTS
  NoLimit = NoLimit
  Window = 6
  KeepLast = 2
  PruneAfter = 7
  TimeLimit = NoLimit
  MaxSteps = 5
  MessageLimit = NoLimit
  TokenLimited = FALSE
  ProgressEvery = 5
  CapsMessages = FALSE
  StopKeywords = FALSE
  Prescan = TRUE
  ProductiveTime = FALSE
  MaxAttempts = 1
  InitialBackoff = 0
  MaxBackoff = 0
  Histories <- MCHistories
  Outputs <- MCOutputs
  Durations = {0}
INVARIANTS ResultsFollowCalls HistoryBounded HandoffRunsAlone
PROPERTIES TaskKept
CHECK_DEADLOCK FALSE
