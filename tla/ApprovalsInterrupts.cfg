SPECIFICATION Spec
CONSTANTS
  transfer_a = transfer_a
  transfer_b = transfer_b
  write_file = write_file
  read_file = read_file
  Handoffs <- MCHandoffs
  Sensitive = {write_file}
  Plain = {read_file}
  Turns <- MCTurns
  Chains <- ConfigChains
  MaxTurns = 2
  MaxDepth = 3
INVARIANT PerToolConfig
CHECK_DEADLOCK FALSE
