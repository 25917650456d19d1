SPECIFICATION MCSpec
CONSTANTS
  Mounters = {m1, m2}
  Archives = {a1, a2, a3}
  HeaderOf <- MCHeaders
  a1 = a1
  a2 = a2
  a3 = a3
  Damaged = Damaged
  NoArchive = NoArchive
  Names = {"a"}
  Conditionals <- MCConditionals
  Holds <- MCHolds
  MaxNesting = 2
  Inputs <- MCInputs
  VdfMaxDepth = 2
  Width = 5
  MinAlignment = 4
  MaxTable = 2
  Sections <- MCSections
  Addresses = {1, 2, 3, 4}
  GetterCalls <- MCGetterCalls
  MaxGetters = 2
  NoAddress = 0
INVARIANTS
  MountsAreSound
  TreesAreOwned
  BlocksAreAsWritten
  AllocatorsAreSound
SYMMETRY Symmetry
CHECK_DEADLOCK FALSE
