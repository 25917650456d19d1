SPECIFICATION Spec
CONSTANTS
  N = 5
  Configurations <- MCCycle
INVARIANTS
  UnrelatedToCyclesLoadInOrder
