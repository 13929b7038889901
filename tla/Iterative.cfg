SPECIFICATION FairSpec
CONSTANTS
  NoLimit = NoLimit
  Window = 4
  KeepLast = 2
  PruneAfter = 5
  TimeLimit = 3
  MaxSteps = 4
  MessageLimit = 8
  TokenLimited = TRUE
  ProgressEvery = 4
  CapsMessages = TRUE
  StopKeywords = TRUE
  Prescan = TRUE
  ProductiveTime = TRUE
  MaxAttempts = 3
  InitialBackoff = 1
  MaxBackoff = 2
  Histories <- MCHistories
  Outputs <- AllOutputs
  Durations = {0, 1, 3}
INVARIANTS TypeOK OverrunBounded ResultsFollowCalls HistoryBounded HandoffRunsAlone
PROPERTIES TaskKept Terminates
CHECK_DEADLOCK FALSE
