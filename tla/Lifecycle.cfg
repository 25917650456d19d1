SPECIFICATION LiveSpec
CONSTANTS
  Threads = {t1, t2, t3}
  Phases = {p1, p2}
  MaxObservers = 4
  None = None
INVARIANTS
  EveryObserverOnce
PROPERTIES
  ReachedIsNotified
