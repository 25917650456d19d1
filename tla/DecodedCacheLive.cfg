SPECIFICATION FairSpec
CONSTANTS
  Files = {f1, f2}
  Caches = {c1, c2, c3}
  Identities = {a, b}
  Packages = {p1}
  a = a
  b = b
  odd = odd
  p1 = p1
  p2 = p2
  FirstPackage = p1
  SizeOf <- Sizes
  MemoryFileLimit = 2
  MemoryTotalLimit = 3
  IdleDiskLimit = 3
  Loader = Loader
  None = None
PROPERTIES
  ReadsComplete
CHECK_DEADLOCK FALSE
