SPECIFICATION Spec
CONSTANTS
  a = a
  b = b
  c = c
  d = d
  e = e
  ff = ff
  Blank = Blank
  Broken = {ff}
  Rest = Rest
  NoFile = NoFile
  Lines <- MCLines
  Versions <- MCVersions
  Offsets = {0, 1, 3}
  Limits = {0, 2, 3, 4}
  ChunkLines = 2
  Ceiling = 5
  MaxChanges = 2
  MaxFaults = 3
INVARIANTS QuietReadExact NumberedRight
CHECK_DEADLOCK FALSE
