SPECIFICATION Spec
CONSTANTS
  a1 = a1
  a2 = a2
  c1 = c1
  c2 = c2
  Ids = {a1, a2}
  NoId = NoId
  Callers = {c1, c2}
  Worker = Worker
  MaxRequests = 3
  MaxTokens = 3
  MaxFaults = 1
INVARIANTS TypeOK RefreshTokenSpentOnce RowHasBundle
PROPERTIES StatusSettles
CHECK_DEADLOCK FALSE
