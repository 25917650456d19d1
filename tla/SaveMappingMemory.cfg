SPECIFICATION Spec
CONSTANTS
  Threads = {t1, t2}
  Paths = {p1, p2, p3}
  Saves = {s1, s2}
  Targets = {renamed1}
  p1 = p1
  p2 = p2
  p3 = p3
  s1 = s1
  s2 = s2
  renamed1 = renamed1
  SaveOf <- MCSaveOf
  TargetOf <- MCTargetOf
  None = None
SYMMETRY Symmetry
INVARIANTS
  OriginalsAreProtected
