SPECIFICATION Spec
CONSTANTS
  NoLimit = NoLimit
  Window = 6
  KeepLast = 2
  PruneAfter = 5
  TimeLimit = NoLimit
  MaxSteps = 4
  MessageLimit = NoLimit
  TokenLimited = FALSE
  ProgressEvery = 0
  CapsMessages = FALSE
  StopKeywords = FALSE
  Prescan = TRUE
  ProductiveTime = FALSE
  MaxAttempts = 1
  InitialBackoff = 0
  MaxBackoff = 0
  Histories <- MCHistories
  Outputs <- PairedOutputs
  Durations = {0}
INVARIANTS PairingHonored
CHECK_DEADLOCK FALSE
