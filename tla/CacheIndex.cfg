SPECIFICATION Spec
CONSTANTS
  c1 = c1
  c2 = c2
  c3 = c3
  u1 = u1
  Clients <- MCTwoClients
  URIs <- MCURIs
  NoClient = NoClient
  MaxBlocks = 2
  MaxLeaving = 1
  MaxDeleted = 1
SYMMETRY MCTwoSymmetry
CHECK_DEADLOCK FALSE
INVARIANTS
  TypeOK
  ListenersComplete
  ListenersKnowCount
  DanglingOnlyInReplacedRecord
  RemoveFindsReader
  RequestIsAlive
