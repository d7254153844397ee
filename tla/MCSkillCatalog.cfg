SPECIFICATION Spec
CONSTANTS
  s2 = s2
  Hosts = {h1, h2}
  Readers = {r1}
  Groups = {a}
  Sources = {s1, s2}
  Generations = {n1, n2, n3}
  None = None
  Serving = {h1, h2}
  Strict = {}
  MaxAttempts = 2
  RetiredGrace = 3
  OrphanGrace = 3
  RecallTimeout = 1
  TickStep = 1
  MaxClock = 3
  MaxLoads = 3
ACTION_CONSTRAINTS PromptQueries AttemptsFirst SweepsLater FewOutcomes
SYMMETRY Symmetric
INVARIANTS
  ServedWhole
PROPERTIES
  NothingStranded
  FailedSourcesKept
CHECK_DEADLOCK FALSE
