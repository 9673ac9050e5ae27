SPECIFICATION FairSpec
CONSTANTS
  Vehicles = {v1, v2}
  Clients = {c1}
  Reports <- Moves
  Filters <- BoxAndRoute
  Trips = {"t1", "t2"}
  Routes = {"r1", "r2"}
  MinMove = 2
  MaxGap = 5
  HistoryPoints = 2
  HistoryFloor = 0
  QueueSize = 2
  MaxSeq = 4
INVARIANT InStep
PROPERTY CatchesUp
