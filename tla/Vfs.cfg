SPECIFICATION MCSpec
CONSTANTS
  a = a
  b = b
  loose = loose
  zip = zip
  twice = twice
  pb = pb
  bad = bad
  Names = {a, b}
  Packages = {loose, zip, twice}
  Content <- MCContent
  IsZip = {zip, twice}
  Spellings = {pb, bad}
  NameOf <- MCNameOf
  Threads = {t1, t2}
  MaxLoads = 3
  MaxResets = 3
  None = None
  HookThreads = {h1, h2}
  Opens = {o1, o2, o3}
  MaxOpens = 2
SYMMETRY Symmetry
INVARIANTS
  IndexIsWhole
  DecodedDataIsCurrent
  CachesAreCurrent
  ArchivesAreServed
PROPERTIES
  UidsKeepTheirNames
  PackagesAreAtomic
CHECK_DEADLOCK FALSE
