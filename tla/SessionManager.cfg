SPECIFICATION Spec
CONSTANTS
  Requests = {r1, r2}
  Configs = {c1, c2}
  MaxStarts = 2
  MaxEdition = 1
  MaxStops = 1
SYMMETRY RequestSymmetry
INVARIANTS TypeOK NoLeakedProcess HeldClientIsCurrent OneStartup ServedAsAsked RefsCovered
CHECK_DEADLOCK FALSE
