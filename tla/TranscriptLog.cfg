SPECIFICATION LogSpec
CONSTANTS
  w1 = w1
  w2 = w2
  Writers <- MCWriters
  Events = {e, odd}
  Opaque = {odd}
  Bare = Bare
  Nothing = Nothing
  Forgeries = {e, Nothing}
  MaxEvents = 2
  MaxCalls = 3
  MaxFlushes = 1
INVARIANTS HonestVerifies AlterationShows
SYMMETRY Symmetry
CHECK_DEADLOCK FALSE
