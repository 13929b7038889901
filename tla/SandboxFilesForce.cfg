SPECIFICATION Spec
CONSTANTS
  Procs = {p1, p2}
  Paths <- MCPaths
  Stripped <- MCStripped
  Tokens = {x, y}
  a = a
  b = b
  d = d
  x = x
  y = y
  Bytes <- MCBytes
  MaxBytes = 3
  MaxClock = 0
  DenyRules <- MCDenyRules
  AllowRules = {}
  NoFile = NoFile
  NoCall = NoCall
  NoCount = NoCount
  Calls <- ForceCalls
  Seeds <- MCStore
  DiskSeeds <- MCDisk
  Modes = {"force"}
  TTL = 1
  MaxFlips = 1
  MaxFaults = 0
PROPERTIES ForceNeverFallsBack
