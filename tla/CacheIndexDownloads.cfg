SPECIFICATION Spec
CONSTANTS
  c1 = c1
  c2 = c2
  c3 = c3
  u1 = u1
  Clients <- MCClients
  URIs <- MCURIs
  NoClient = NoClient
  MaxBlocks = 1
  MaxLeaving = 0
  MaxDeleted = 0
SYMMETRY MCSymmetry
CHECK_DEADLOCK FALSE
INVARIANT AtMostOneLateDownload
