SPECIFICATION Spec
CONSTANTS
  MaxRequests = 3
  MaxGeneration = 3
  MaxRevocations = 1
INVARIANTS
  TypeOK
  LaunchedAnsweredOnce
  NoCallbackLost
  OneDialogOwned
  LaunchedOnce
PROPERTIES
  ResultsAreCurrent
  EveryRequestAnswered
CHECK_DEADLOCK FALSE
