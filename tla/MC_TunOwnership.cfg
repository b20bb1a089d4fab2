SPECIFICATION Spec
CONSTANTS
  MaxOwners = 2
  MaxGeneration = 3
INVARIANTS
  TypeOK
  ClosedInTime
  ExclusiveTun
  SettledMeansClosed
PROPERTIES
  ImplementsSessionResource
  CloseSettles
CHECK_DEADLOCK FALSE
