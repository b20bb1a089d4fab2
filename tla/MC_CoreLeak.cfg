SPECIFICATION Spec
CONSTANTS
  MaxGeneration = 2
INVARIANTS
  OwnerHasCloser
