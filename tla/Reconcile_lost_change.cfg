SPECIFICATION RFairSpec
CONSTANTS
  Projects = {a, b}
  MaxConcurrent = 1
  MaxChanges = 1
  MaxEdition = 1
PROPERTY EveryChangeRegenerates
CHECK_DEADLOCK FALSE
