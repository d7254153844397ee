SPECIFICATION Spec
CONSTANTS
  Builds = {b1, b2}
  w1 = w1
  w2 = w2
  Subs <- TwoWorkers
  MaxReloads = 2
SYMMETRY Symmetry
INVARIANTS
  OnlyOverlapsHurt
  OnlyOverlapsLeak
CHECK_DEADLOCK FALSE
