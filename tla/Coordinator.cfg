SPECIFICATION FairSpec
CONSTANTS
  Projects = {p1, p2}
  MaxConcurrent = 1
  MaxChanges = 3
INVARIANTS TypeOK NoSameProjectOverlap ConcurrencyBounded NoLostChange QuietAfterClose
PROPERTIES ChangeIsRegenerated CloseTerminates ImplementsRegeneration
CHECK_DEADLOCK FALSE
