SPECIFICATION UdsFairSpec
CONSTANTS
  NoConn = NoConn
  Calls = {r1, r2}
  Conns = {k1, k2}
  MaxAttempts = 2
  Hooks = {"none", "graceful"}
INVARIANTS
  RetryBounded
  ClientInv
PROPERTIES
  CallsEnd
CHECK_DEADLOCK FALSE
