CONSTANTS
  Requests = {r1, r2}
  Conns = {c1}
  Sigs = {s1, s2}
  NoReuse = NoReuse
  NoEntry = NoEntry
  MaxEntries = 1
  IdleTTL = 0
  MaxNow = 1
  MaxGen = 1
  MaxOverlap = 1
SPECIFICATION FairSpec
INVARIANTS
  PoolEntriesUsable
  ExclusiveUse
  NoClientLeak
PROPERTIES
  BusySurvivesHousekeeping
  ConsumeEnds
CHECK_DEADLOCK FALSE
