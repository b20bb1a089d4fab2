SPECIFICATION Spec
CONSTANTS
  MaxGeneration = 3
INVARIANTS
  TypeOK
  CoreIsOwned
  NoCloseDuringStart
PROPERTIES
  ImplementsSessionResource
  CloseHitsOwnCore
  CloseJobEnds
