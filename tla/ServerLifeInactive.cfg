SPECIFICATION Spec
CONSTANTS
  c1 = c1
  c2 = c2
  r1 = r1
  r2 = r2
  SrvHandler = SrvHandler
  NoHandler = NoHandler
  Clients <- MCClients
  Remotes <- MCOneRemote
INVARIANT EndedIsMarked
CHECK_DEADLOCK FALSE
