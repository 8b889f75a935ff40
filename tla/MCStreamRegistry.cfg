CONSTANTS
  Starts = {s1, s2}
  Conns = {c1}
  Calls = {k1}
  Evictor = Evictor
  Main = Main
  NoConn = NoConn
  MaxSessions = 1
  IdleTimeout = 0
  MaxGen = 2
SPECIFICATION FairSpec
INVARIANTS
  OneOwner
  StaleOnlyIfRaced
PROPERTIES
  StoppedLoopEnds
  ZombieEvicted
CHECK_DEADLOCK FALSE
