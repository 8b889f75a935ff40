CONSTANTS
  NumRecords = 5
  Messages = {1, 2, 3, 4, 5}
  NoMessage = NoMessage
  Matching = {1, 2, 4, 5}
  Capacity = 3
  BatchSize = 2
  MinDelay = 1
  MaxDelay = 3
SPECIFICATION FairSpec
INVARIANTS MatchedKept PushesInOrder
PROPERTIES
  BatchReachesRing
  StopEndsLoop
CHECK_DEADLOCK FALSE
