SPECIFICATION FairSpec
CONSTANTS
  Procs = {p1, p2}
  Dirs = {d1, d2}
  Keys = {k1, k2}
  MaxCommands = 3
  Nobody = Nobody
INVARIANTS CacheExclusive ReadyHasOwnDatabase MountedIndexWhole
PROPERTIES RegistrationsKept FragmentKept CommandsEnd
CHECK_DEADLOCK FALSE
