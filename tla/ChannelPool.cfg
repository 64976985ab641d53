SPECIFICATION FairPool
CONSTANTS
  NoChannel = NoChannel
  Tasks = {u1, u2}
  Channels = {a, b}
  MaxSize = 1
INVARIANTS
  PoolInv
  DrainReclaims
PROPERTIES
  CheckEndsIfAllStale
  ShutdownLetsGo
CHECK_DEADLOCK FALSE
