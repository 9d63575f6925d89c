SPECIFICATION Spec
CONSTANTS
  Clients = {A, B}
  Slots <- MCSlots
  Present <- MCPresent
  User <- MCUser
  Requests <- MCRequests
  MaxFaults = 1
INVARIANTS
  TypeOK
  SuccessMeansSet
PROPERTY
  OnlyAskedOrLost
CHECK_DEADLOCK FALSE
