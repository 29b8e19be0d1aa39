SPECIFICATION Spec
CONSTANTS
  fd1 = fd1
  fd2 = fd2
  fd3 = fd3
  FDs <- MCFDs
  Requests <- MCRequests
  Errors <- MCErrors
  MaxUpdates = 2
SYMMETRY MCSymmetry
INVARIANTS
  TypeOK
  ContainersAgree
  PollsWhatWasAsked
PROPERTY DispatchSpec
