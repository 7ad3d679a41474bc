SPECIFICATION Spec
CONSTANTS
  Platforms = {p1, p2}
  Workers = {w1, w2}
  Clients = {c1}
  NoPlatform = NoPlatform
  NoWorker = NoWorker
  MinBackoff = 1
  MaxBackoff = 2
  MaxRestarts = 1
  Operations = {"startEnabled", "stopAll", "forget"}
  Faults = {"db"}
  MaxCalls = 2
  MaxLosses = 1
  MaxCrashes = 1
PROPERTIES
  StopAllReachesAll
CHECK_DEADLOCK FALSE
