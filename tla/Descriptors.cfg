SPECIFICATION Spec
CONSTANTS
  s1 = s1
  s2 = s2
  s3 = s3
  s4 = s4
  s5 = s5
  Sockets <- MCSockets
  FDs <- MCFDs
  ServerSock = ServerSock
  NoSocket = NoSocket
SYMMETRY MCSymmetry
INVARIANTS
  TypeOK
  OwnDescriptor
  NoLeakWhileServing
  ClosedAtEnd
CHECK_DEADLOCK FALSE
