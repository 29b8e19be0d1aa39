SPECIFICATION FairSpec
CONSTANTS
  t1 = t1
  t2 = t2
  t3 = t3
  f1 = f1
  f2 = f2
  Threads <- MCThreads
  Flags <- MCFlags
  MaxEpoch = 4
  MaxThrows = 2
INVARIANTS
  TypeOK
  InitialisedOnReturn
PROPERTIES
  OnceSpec
  CallReturns
