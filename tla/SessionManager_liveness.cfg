SPECIFICATION FairSpec
CONSTANTS
  Requests = {r1, r2}
  Configs = {c1}
  MaxStarts = 2
  MaxEdition = 0
  MaxStops = 1
PROPERTIES IdleSessionStops CloseEndsProcesses
CHECK_DEADLOCK FALSE
