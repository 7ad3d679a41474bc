CONSTANTS
  Jobs = {j1, j2, j3}
  j1 = j1
  j2 = j2
  j3 = j3
  NoJob = NoJob
  QueueDepth = 1
  MinInterval = 1
  Window = 3
  MaxStarts = 2
  MaxRetryAfter = 1
SPECIFICATION Spec
INVARIANTS TypeOK SentAtMostOnce
PROPERTIES StartsArePaced EverySendReturns
CHECK_DEADLOCK FALSE
