SPECIFICATION Spec
CONSTANTS
  Files = {f1, f2}
  Caches = {c1, c2, c3}
  Identities = {a, b, odd}
  Packages = {p1, p2}
  a = a
  b = b
  odd = odd
  p1 = p1
  p2 = p2
  FirstPackage = p1
  SizeOf <- Sizes
  MemoryFileLimit = 2
  MemoryTotalLimit = 3
  IdleDiskLimit = 3
  Loader = Loader
  None = None
INVARIANTS
  TypeOK
  ReferencesAreExact
  BytesAreExact
  DecodesAreSafe
  TableAndIdleAgree
PROPERTIES
  SharingIsInvisible
SYMMETRY Symmetry
CHECK_DEADLOCK FALSE
