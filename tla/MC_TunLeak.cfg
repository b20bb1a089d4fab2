SPECIFICATION Spec
CONSTANTS
  MaxOwners = 2
  MaxGeneration = 3
INVARIANTS
  DescriptorHasCloser
CHECK_DEADLOCK FALSE
