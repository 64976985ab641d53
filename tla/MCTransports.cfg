SPECIFICATION FairSpec
CONSTANTS
  Tasks = {t1, t2, t3}
  MaxMissed = 3
  MaxPings = 4
  Senders = {s1, s2, s3}
  MaxChildren = 2
  Calls = {c1}
  MaxFrames = 3
INVARIANTS
  FramesWhole
  ChildrenAccounted
  DeadOnlyIfSilent
PROPERTIES
  SilenceFound
CHECK_DEADLOCK FALSE
