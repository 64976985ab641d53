SPECIFICATION FairSpec
CONSTANTS
  NoTask = NoTask
  NoChannel = NoChannel
  Tasks = {t1, t2}
  Sessions = {s1, s2}
  Channels = {a, b, c}
  MaxSize = 1
PROPERTY ReleaseReturns
CHECK_DEADLOCK FALSE
