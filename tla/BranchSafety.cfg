SPECIFICATION Spec
CONSTANTS
  Platforms = {p1}
  Workers = {w1, w2, w3}
  Clients = {c1, c2}
  NoPlatform = NoPlatform
  NoWorker = NoWorker
  MinBackoff = 1
  MaxBackoff = 2
  MaxRestarts = 1
  Operations = {"start", "stop", "restart", "shutdown"}
  Faults = {"config", "key", "spawn", "stop"}
  MaxCalls = 3
  MaxLosses = 1
  MaxCrashes = 1
SYMMETRY Symmetry
INVARIANTS
  TypeOK
  StateAgreesWithDesire
  GenerationIsExclusive
  DesiredIsSupervised
  StopRequestIsNotStale
CHECK_DEADLOCK FALSE
