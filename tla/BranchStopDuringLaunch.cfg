SPECIFICATION Spec
CONSTANTS
  Platforms = {p1}
  Workers = {w1, w2}
  Clients = {c1, c2}
  NoPlatform = NoPlatform
  NoWorker = NoWorker
  MinBackoff = 1
  MaxBackoff = 4
  MaxRestarts = 2
  Operations = {"start", "stop"}
  Faults = {}
  MaxCalls = 2
  MaxLosses = 1
  MaxCrashes = 1
INVARIANTS
  StopTerminatesProcess
CHECK_DEADLOCK FALSE
