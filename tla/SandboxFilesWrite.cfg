SPECIFICATION Spec
CONSTANTS
  Procs = {p1}
  Paths <- MCPaths
  Stripped <- MCStripped
  Tokens = {x, y}
  a = a
  b = b
  d = d
  x = x
  y = y
  Bytes <- MCBytes
  MaxBytes = 3
  MaxClock = 0
  DenyRules = {}
  AllowRules = {}
  NoFile = NoFile
  NoCall = NoCall
  NoCount = NoCount
  Calls <- ForceCalls
  Seeds <- MCStore
  DiskSeeds <- MCDisk
  Modes = {"auto"}
  TTL = 1
  MaxFlips = 0
  MaxFaults = 2
PROPERTIES ContentPresent
