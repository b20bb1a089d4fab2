SPECIFICATION Spec
CONSTANTS
  MaxGeneration = 3
  MaxConnect = 2
  MaxStop = 2
INVARIANTS
  TypeOK
  DisconnectedIsSettled
  
PROPERTIES
  DisconnectedIsTerminal
CHECK_DEADLOCK FALSE
