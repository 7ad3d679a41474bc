SPECIFICATION Spec
CONSTANTS
  a1 = a1
  a2 = a2
  u1 = u1
  Accounts = {a1, a2}
  Users = {u1, u2}
  u2 = u2
  BusCapacity = 2
  ChannelLimit = 2
  Capacity = 2
  MaxEvents = 4
INVARIANTS TypeOK ModerationSticks NewestRevisionIsCurrent
PROPERTIES NeverStopsUpdating
CHECK_DEADLOCK FALSE
