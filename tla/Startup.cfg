SPECIFICATION MCSpec
CONSTANTS
  Threads = {g1, g2}
  Paths = {p1, p2, p3}
  Saves = {s1, s2}
  Targets = {renamed1}
  p1 = p1
  p2 = p2
  p3 = p3
  s1 = s1
  s2 = s2
  renamed1 = renamed1
  SaveOf <- MCSaveOf
  TargetOf <- MCTargetOf
  None = None
  c1 = c1
  c2 = c2
  c3 = c3
  t1 = t1
  t2 = t2
  OtherThreads = {t1, t2}
  Requests = {c1, c2, c3}
  Neuters = {c1, c2}
  InnerCall <- MCInnerCall
  NoCall = NoCall
  Stubs = {1, 2}
  HiddenIn <- MCHiddenIn
  i1 = i1
  i2 = i2
  w1 = w1
  w2 = w2
  InitThreads = {i1, i2}
  Writers = {w1, w2}
  Settings <- MCSettings
  Machines <- MCMachines
  Sounds <- MCSounds
  NotApplied = NotApplied
SYMMETRY Symmetry
INVARIANTS
  RoutesAreSound
  SchedulingIsSound
  StartupIsSound
PROPERTIES
  ProgressIsKept
