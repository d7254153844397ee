SPECIFICATION Spec
CONSTANTS
  Sessions = {s1, s2}
  Requests = {r1, r2}
  Graphs = {g1, g2, g3}
  None = None
  MaxSessions = 1
  IdleTtl = 1
  MaxClock = 1
  MaxGeneration = 2
SYMMETRY Symmetric
INVARIANTS
  NoDisposeWhilePinned
  OnlyCurrentServed
  NothingLost
  ShutdownSweepsAll
PROPERTIES
  ImplementsLease
CHECK_DEADLOCK FALSE
