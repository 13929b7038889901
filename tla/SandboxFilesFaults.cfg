SPECIFICATION Spec
CONSTANTS
  Procs = {p1, p2}
  Paths <- MCPaths
  Stripped <- MCStripped
  Tokens = {x, y}
  a = a
  b = b
  d = d
  x = x
  y = y
  Bytes <- MCBytes
  MaxBytes = 3
  MaxClock = 1
  DenyRules <- MCDenyRules
  AllowRules = {}
  NoFile = NoFile
  NoCall = NoCall
  NoCount = NoCount
  Calls <- MCCalls
  Seeds <- MCStore
  DiskSeeds <- MCDisk
  Modes = {"skip", "force"}
  TTL = 1
  MaxFlips = 1
  MaxFaults = 1
INVARIANTS TypeOK LocksMatchTasks ByteCeiling
PROPERTIES DeniedNeverWritten AckedWriteKept ReadOnlyGuards
SYMMETRY Symmetry
VIEW ApartFromResults
