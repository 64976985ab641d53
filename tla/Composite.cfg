SPECIFICATION FairSpec
CONSTANTS
  N = 3
  MaxChunks = 2
INVARIANTS
  SendInv
  MergeInv
  OverMeansQuiet
PROPERTIES
  CallEnds
