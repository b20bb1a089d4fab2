SPECIFICATION Spec
CONSTANTS
  MaxGeneration = 2
  MaxConnect = 1
  MaxStop = 2
PROPERTY StopSettles
CHECK_DEADLOCK FALSE
