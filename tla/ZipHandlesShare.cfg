SPECIFICATION Spec
CONSTANTS
  Threads = {t1, t2}
  Handles = {h1, h2}
  Files = {z1, z2}
  Entries = {e1}
  None = None
INVARIANTS
  ShareModesHold
SYMMETRY Symmetry
CHECK_DEADLOCK FALSE
