SPECIFICATION Spec
CONSTANTS
  Tokens = {t1}
  Reachable = {t1}
  Alerts = {}
  AlertRoutes <- NoAlertRoutes
  PhoneRoutes <- FollowNothing
  Bare <- NoNames
  MaxWakes = 2
  Window = 2
  Period = 1
  DayLength = 9
  MaxPerDay = 1
  Keep = 1
  MaxTime = 3
  MaxRegistrations = 2
  MaxRestarts = 1
INVARIANTS WakesNotRepeated WakesOnTime
\* The bounded clock ends a behaviour: the loop then waits forever.
CHECK_DEADLOCK FALSE
