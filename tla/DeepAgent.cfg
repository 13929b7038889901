SPECIFICATION Spec
CONSTANTS
  f = f
  d = d
  g = g
  x = x
  y = y
  z = z
  big = big
  bad = bad
  plain = plain
  scoped = scoped
  open = open
  NoMode = NoMode
  NoFile = NoFile
  Contents = {"todo"}
  Agents = {plain, scoped, open}
  ExplicitMode <- MCExplicit
  AgentMode <- MCAgentMode
  GlobalMode = "strict"
  Inherit = TRUE
  SummaryTodos = 1
  SummaryFiles = 1
  SummaryBytes = 2
  TodoBytes = 1
  FileBytes = 1
  BareBytes = 1
  Paths = {f, d, g}
  Home <- MCHome
  Denied = {d}
  Texts = {x, y, z, big, bad}
  Large = {big}
  Unencodable = {bad}
  Calls <- MCCalls
  SubCalls <- MCSubCalls
  MaxCalls = 2
  MaxTurns = 2
  MaxDepth = 2
  MaxWork = 1
INVARIANTS TypeOK SubmittedWritesLand ReplayHarmless CascadeFollowsParent
CHECK_DEADLOCK FALSE
