CONSTANTS
  Keys = {k}
  TtlDays <- MCTtlDays
  TopNs <- MCTopNs
  MaxId = 5
  MaxDays = 1
SPECIFICATION MemorySpec
INVARIANTS
  IdsUnique
  ResumeExact
PROPERTY
  KeepsNotes
