SPECIFICATION ResourcesSpec
CONSTANTS
  Sessions = {s1, s2}
  Requests = {r1, r2}
  Graphs = {g1, g2}
  None = None
  MaxSessions = 1
  IdleTtl = 0
  MaxClock = 0
  MaxGeneration = 1
ACTION_CONSTRAINT FirstBuildFixed
INVARIANTS
  TeardownFrees
PROPERTIES
  OnlySiblingsInterfere
  AcquireSettles
  DetachedTornDown
  ShutdownReturns
CHECK_DEADLOCK FALSE
