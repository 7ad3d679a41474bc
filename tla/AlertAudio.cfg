SPECIFICATION Spec
CONSTANTS
  p1 = p1
  p2 = p2
  test = test
  raid = raid
  other = other
  u1 = u1
  Alerts = {test, raid, other}
  Utterances = {u1}
  Profiles = {p1, p2}
  Synthetic = {test}
  Interrupting = {raid}
  Interruptible = {test}
  NoItem = NoItem
  NoAlert = NoAlert
  QueueCapacity = 1
  MaxShowings = 2
  MaxItems = 1
  MaxCommands <- MCMaxCommands
  Pieces <- MCPieces
  ProfileOf <- MCProfileOf
  Priority <- MCPriority
  Events <- MCEvents
INVARIANTS TypeOK AudioFollowsAlert CurrentIsServed
PROPERTIES AlertsEnd
CHECK_DEADLOCK FALSE
