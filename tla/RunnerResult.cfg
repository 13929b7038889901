SPECIFICATION RunnerSpec
CONSTANTS
  r1 = r1
  r2 = r2
  lmStudio = lmStudio
  openai = openai
  unknown = unknown
  gpt = gpt
  Unset = Unset
  Local = {ollama, lmStudio}
  Ollama = ollama
  Remote = {openai}
  Role = inspect
  LocalTag = LocalTag
  Runs <- MCRuns
  Profiles <- MCProfiles
  NoProfile = NoProfile
  Limits = {2}
  NoLimit = NoLimit
  Near <- MCNear
  Requests <- MCRequests
  ModelEnvs <- MCModelEnvs
INVARIANTS ResultDelivered
SYMMETRY Symmetry
CHECK_DEADLOCK FALSE
