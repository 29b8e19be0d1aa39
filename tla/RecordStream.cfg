SPECIFICATION Spec
CONSTANTS
  c1 = c1
  c2 = c2
  NoClient = NoClient
  Clients <- MCClients
  Sizes <- MCSizes
  ConcatThreshold = 2
  MaxBlocks = 2
SYMMETRY MCSymmetry
INVARIANTS
  TypeOK
  NoSleepOnUnreadBlock
  WokenFindsBlock
  NoDanglingListener
  RemoveFindsListener
CHECK_DEADLOCK FALSE
