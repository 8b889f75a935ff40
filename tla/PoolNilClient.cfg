CONSTANTS
  Requests = {r1, r2}
  Conns = {c1}
  Sigs = {s1}
  NoReuse = NoReuse
  NoEntry = NoEntry
  MaxEntries = 1
  IdleTTL = 0
  MaxNow = 1
  MaxGen = 2
  MaxOverlap = 2
SPECIFICATION Spec
INVARIANT HolderFindsClient
CHECK_DEADLOCK FALSE
