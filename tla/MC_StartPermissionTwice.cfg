SPECIFICATION Spec
CONSTANTS
  MaxRequests = 3
  MaxGeneration = 3
  MaxRevocations = 1
INVARIANTS
  AnsweredOnce
CHECK_DEADLOCK FALSE
