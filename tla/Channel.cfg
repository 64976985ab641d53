SPECIFICATION ChannelFairSpec
CONSTANTS
  NoTask = NoTask
  Tasks = {t1, t2, t3}
INVARIANTS
  LockDiscipline
PROPERTIES
  StrandedOnlyByCancel
  ReturnsDeliver
  CallsReturn
