SPECIFICATION FairSpec
CONSTANTS
  Calls = {c1}
  Asks = {q1, q2}
  WriteCap = 1
  RequestCap = 1
  None = None
  Ended = Ended
PROPERTIES EveryAskAnswered CallsReturn CloseCompletes
CHECK_DEADLOCK FALSE
