SPECIFICATION Spec
CONSTANTS
  Clients = {c1, c2}
  Checkpoints = {k1, k2, k3}
  NoCheckpoint = NoCheckpoint
  SessionTTL = 2
  ClosedTTL = 1
  LatestTTL = 1
  CheckpointTTL = 3
  MaxDelay = 1
  MaxAge = 1
  TTL = 2
  MaxNow = 4
  Askers = {p1, p2}
  NameTTL = 2
  MaxTime = 4
  Services = {v1, v2, v3}
  MaxLoads = 3
  Channels = {1, 2, 3}
  MaxTurns = 7
SYMMETRY Symmetry
INVARIANTS
  FoundAgain
PROPERTIES
  ImplementsRegister
  LateRefreshHarmless
CHECK_DEADLOCK FALSE
