SPECIFICATION ReadySpec
CONSTANTS
  GameThreads = {g1, g2}
  Games = {{"file", "render"}, {"render", "data"}}
  Strategies = {"named", "sprj"}
INVARIANTS
  HooksOutliveTheirCallers
  SetUpIsSound
PROPERTIES
  RemovalEnds
CHECK_DEADLOCK FALSE
