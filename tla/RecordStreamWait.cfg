SPECIFICATION FairSpec
CONSTANTS
  c1 = c1
  c2 = c2
  NoClient = NoClient
  Clients <- MCOneClient
  Sizes <- MCSizes
  ConcatThreshold = 2
  MaxBlocks = 2
PROPERTY WaitEnds
CHECK_DEADLOCK FALSE
