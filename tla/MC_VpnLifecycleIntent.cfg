SPECIFICATION Spec
CONSTANTS
  o1 = o1
  o2 = o2
  Owner = {o1, o2}
  NoOwner = NoOwner
  MaxGeneration = 5
SYMMETRY Symmetry
INVARIANTS
  TypeOK
  IInv
  DestroyedOwnersHoldNothing
  ReloadYieldsToConnect
PROPERTIES
  StopIsTerminal
  CleanupBeforeStart
  ReloadBeyondStop
