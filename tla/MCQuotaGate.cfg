SPECIFICATION FairSpec
CONSTANTS
  Keys = {k1, k2}
  Calls = {c1, c2}
  Gates = {g1, g2, g3}
  None = none
  GateLimit = 1
  IdleTtl = 1
  Intervals = {0, 2}
  Strategies = {"report", "wait", "own"}
  MaxAttempts = 2
  MaxTransient = 1
INVARIANTS
  LeasesExact
PROPERTIES
  LimitHolds
  ImplementsQuota
  HoldsEnd
