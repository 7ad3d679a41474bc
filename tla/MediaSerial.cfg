SPECIFICATION FairSpec
CONSTANTS
  Workers = {w1, w2}
  Clients = {c1}
  NoWorker = NoWorker
  MinBackoff = 1
  MaxBackoff = 2
  MaxRestarts = 1
  AutoStart = FALSE
  AutoRestart = FALSE
  InitialBinary = "supported"
  Operations = {"start", "stop", "restart", "install", "shutdown"}
  Faults = {"ready", "spawn", "ports", "install"}
  MaxCalls = 4
  MaxCrashes = 1
PROPERTIES
  ProgressStatesEnd
CHECK_DEADLOCK FALSE
