SPECIFICATION FairSpec
CONSTANTS
  Roots = {"project", "source"}
  EventCap = 2
  MaxChanges = 3
INVARIANT NoDanglingRead
PROPERTIES TreeWatched DocumentsCatchUp CloseReturns
CHECK_DEADLOCK FALSE
