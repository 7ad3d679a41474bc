SPECIFICATION FairSpec
CONSTANTS
  Publishers = {p1, p2}
  Subscriptions = {s1}
  Keys = {k1, k2}
  Capacity = 2
  ChannelLimit = 3
  DedupeCapacity = 2
  NoSubscription = NoSubscription
  Cancels = TRUE
  MaxEvents = 3
INVARIANTS
  TypeOK
  RedeliveryIsDropped
  NothingLostOrTwice
  GapIsHonest
PROPERTIES
  ShutdownClosesAll
CHECK_DEADLOCK FALSE
