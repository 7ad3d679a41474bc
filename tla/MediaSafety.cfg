SPECIFICATION Spec
CONSTANTS
  Workers = {w1, w2, w3}
  Clients = {c1, c2}
  NoWorker = NoWorker
  MinBackoff = 1
  MaxBackoff = 2
  MaxRestarts = 1
  AutoStart = TRUE
  AutoRestart = TRUE
  InitialBinary = "supported"
  Operations = {"start", "stop", "install", "shutdown"}
  Faults = {"ready", "install", "ports", "stop", "probe"}
  MaxCalls = 2
  MaxCrashes = 2
SYMMETRY Symmetry
INVARIANTS
  TypeOK
  GenerationIsExclusive
  NoOrphanProcess
PROPERTIES
  ImplementsIngestSource
CHECK_DEADLOCK FALSE
