SPECIFICATION Spec
CONSTANTS
  Tokens = {t1, t2}
  Reachable = {t1}
  Alerts = {1, 2}
  AlertRoutes <- TwoAlerts
  PhoneRoutes <- FeedNames
  Bare <- NameOf
  MaxWakes = 0
  Window = 1
  Period = 1
  DayLength = 1
  MaxPerDay = 1
  Keep = 3
  MaxTime = 1
  MaxRegistrations = 2
  MaxRestarts = 1
INVARIANT AlertsLimited
 
\* The bounded clock ends a behaviour: the loop then waits forever.
CHECK_DEADLOCK FALSE
