SPECIFICATION Spec
CONSTANTS
  MaxGeneration = 1
  MaxConnect = 1
  MaxStop = 1
PROPERTY FailedStartStopsService
CHECK_DEADLOCK FALSE
