SPECIFICATION Spec
CONSTANTS
  N = 3
  Configurations <- MCRelations
INVARIANTS
  PassesAreOrdered
PROPERTIES
  UnloadSettles
  EveryDllIsTried
