SPECIFICATION Spec
CONSTANTS
  Vehicles = {v1}
  Clients = {c1}
  Reports <- Hops
  Filters <- NoFilters
  Trips = {"t1", "t2"}
  Routes = {"r1", "r2"}
  MinMove = 9
  MaxGap = 5
  HistoryPoints = 2
  HistoryFloor = 1
  QueueSize = 2
  MaxSeq = 4
INVARIANT PlainMap
