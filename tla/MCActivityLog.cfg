SPECIFICATION StatsSpec
CONSTANTS
  Handler = {"a", "b", "session"}
  Process = {"server", "mcp"}
  Home <- Homes
  Caller <- Callers
  MaxRows = 2
  Every = 2
  Restarts = TRUE
  MaxId = 5
INVARIANTS
  TypeOK
  NewestKept
  LastTold
  LogGrowth
