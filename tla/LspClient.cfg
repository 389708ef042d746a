SPECIFICATION Spec
CONSTANTS
  Calls = {c1, c2}
  Asks = {q1, q2}
  WriteCap = 1
  RequestCap = 1
  None = None
  Ended = Ended
SYMMETRY CallSymmetry
INVARIANTS TypeOK ReplyIsOwn NoStaleRegistration AnsweredOnce
CHECK_DEADLOCK FALSE
