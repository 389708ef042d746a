SPECIFICATION RFairSpec
CONSTANTS
  Projects = {a, b}
  MaxConcurrent = 1
  MaxChanges = 2
  MaxEdition = 1
INVARIANT OneIncarnationAtATime
PROPERTY Reconciles
CHECK_DEADLOCK FALSE
