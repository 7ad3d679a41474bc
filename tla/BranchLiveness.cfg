SPECIFICATION FairSpec
CONSTANTS
  Platforms = {p1}
  Workers = {w1, w2}
  Clients = {c1}
  NoPlatform = NoPlatform
  NoWorker = NoWorker
  MinBackoff = 1
  MaxBackoff = 2
  MaxRestarts = 1
  Operations = {"start", "stop"}
  Faults = {}
  MaxCalls = 2
  MaxLosses = 2
  MaxCrashes = 1
PROPERTIES
  WaitingIsResumed
  RestartingEnds
CHECK_DEADLOCK FALSE
