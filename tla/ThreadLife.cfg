SPECIFICATION FairSpec
CONSTANTS
  t1 = t1
  t2 = t2
  Threads <- MCThreads
  NoThread = NoThread
INVARIANTS
  TypeOK
  JoinNotStuck
PROPERTIES
  JoinableSpec
  JoinReturns
CHECK_DEADLOCK FALSE
