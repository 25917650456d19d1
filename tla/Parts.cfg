SPECIFICATION MCSpec
CONSTANTS
  Threads = {t1, t2}
  Handles = {h1, h2}
  Files = {z1, z2}
  Entries = {e1}
  None = None
  Games = {er, sekiro}
  Default = er
  Unknown = Unknown
  Nil = Nil
  Arguments <- MCArguments
  Libraries <- MCLibraries
  N = 4
  Configurations <- MCConfigurations
  StreamEntries <- MCStreamEntries
  Chunk = 2
  Requests = {0, 1, 2, 4}
  NoEntry = NoEntry
  Openers = {u1, u2, u3}
  Operators <- MCOperators
  Invalid = Invalid
  Cached = {c1, c2}
  Streamed = {s1}
  MaxInt = 3
  ZipHooks = 2
  Callers = {g1}
  OpenPaths = {"save", "own", "zip", "uid"}
  CopyPaths = {"plain", "save"}
  NoCall = NoCall
SYMMETRY Symmetry
INVARIANTS
  CountsAreExact
  HandleNamesItsFile
  ShutdownIsClean
  GameIsPrepared
  LaunchEndsClean
  SortIsExact
  StagesFollowDependencies
  StreamsAreSound
  SetPathAnswersAgree
  CursorsAreExact
  FileHooksAreSound
CHECK_DEADLOCK FALSE
