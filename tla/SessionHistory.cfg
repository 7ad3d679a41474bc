SPECIFICATION FairSpec
CONSTANTS
  Platforms = {p1}
  Sessions = {a1, a2, a3}
  Rows = {r1, r2, r3, r4}
  NoSession = NoSession
  NoRow = NoRow
  NoPlatform = NoPlatform
  GraceWindow = 2
  Retentions = {1, 2}
  MaxTime = 5
  MaxChanges = 4
  MaxFailures = 1
  MaxCrashes = 1
  MaxClears = 1
INVARIANTS
  TypeOK
  HistoryIsSequential
  EndedIsComplete
  MemoryMatchesStorage
  SplitOnlyAfterGrace
PROPERTIES
  HistoryFollowsIngest
CHECK_DEADLOCK FALSE
