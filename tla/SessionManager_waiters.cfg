SPECIFICATION Spec
CONSTANTS
  Requests = {r1, r2}
  Configs = {c1}
  MaxStarts = 2
  MaxEdition = 1
  MaxStops = 1
INVARIANT StartupWakesWaiters
CHECK_DEADLOCK FALSE
