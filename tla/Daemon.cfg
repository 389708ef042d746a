SPECIFICATION FairSpec
CONSTANTS
  Daemons = {d1, d2}
  Clients = {c1, c2}
  Conns = {k1, k2}
  MaxConnections = 1
  MaxCommands = 2
  Nobody = Nobody
INVARIANTS TypeOK OneOwner ManagerClosedLast
PROPERTIES StopEndsDaemon CommandsReturn
CHECK_DEADLOCK FALSE
