SPECIFICATION FairSpec
CONSTANTS
  c1 = c1
  c2 = c2
  NoClient = NoClient
  Clients <- MCOneClient
  Sizes <- MCThreeSizes
  ConcatThreshold = 2
  MaxBlocks = 3
INVARIANTS
  InOrderDelivery
  CompleteMeansAll
  RangeContinuesUnlessTimedOut
PROPERTIES
  DeliverySpec
  EveryBlockDelivered
CHECK_DEADLOCK FALSE
