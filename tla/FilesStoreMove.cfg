SPECIFICATION Spec
CONSTANTS
  Procs = {p1, p2}
  Paths <- MCPaths
  Stripped <- MCStripped
  Tokens = {x, y}
  a = a
  d = d
  e = e
  x = x
  y = y
  Bytes <- MCBytes
  MaxBytes = 3
  MaxClock = 0
  DenyRules = {}
  AllowRules = {}
  NoFile = NoFile
  NoCall = NoCall
  NoCount = NoCount
  Calls <- MoveCallSet
  Seeds <- MCSeeds
PROPERTIES MoveIsAtomic
