SPECIFICATION FairSpec
CONSTANTS
  Procs = {p1, p2}
  Paths <- MCPaths
  Stripped <- MCStripped
  Tokens = {x, y}
  a = a
  d = d
  e = e
  x = x
  y = y
  Bytes <- MCBytes
  MaxBytes = 3
  MaxClock = 1
  DenyRules <- MCDenyRules
  AllowRules = {}
  NoFile = NoFile
  NoCall = NoCall
  NoCount = NoCount
  Calls <- StoreCalls
  Seeds <- MCSeeds
INVARIANTS TypeOK LocksMatchTasks ByteCeiling
PROPERTIES DeniedNeverWritten TrashCopiesKept AtomicSpec CallsEnd
