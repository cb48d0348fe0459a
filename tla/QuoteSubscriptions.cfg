CONSTANTS
  Quotes = {q1, q2, q3}
  SubIds = {s1, s2, s3}
  BatchSize = 2
  NoSub = NoSub
  MaxFaults = 2
CHECK_DEADLOCK FALSE
SPECIFICATION FairSpec
INVARIANTS
  RoutingInv
  WatchesAreOnTheWire
  ConnectedWhileWatched
  QueueIsBounded
PROPERTIES
  LingeringHasACause
  WatchIsSubscribed
