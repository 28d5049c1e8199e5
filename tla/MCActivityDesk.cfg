SPECIFICATION FairSpec
CONSTANTS
  Handler = {"a"}
  Process = {"server"}
  Home <- Homes
  MaxRows = 2
  Every = 1
  Restarts = FALSE
  MaxId = 3
  Poll = {q1, q2}
  FirstLimit = 3
  OlderLimit = 2
  Few = 2
  TailLimit = 2
  PageMax = 2
INVARIANTS
  TypeOK
  LaneComplete
PROPERTIES
  TailMovesOn
  EventsArrive
