SPECIFICATION LoopSpec
CONSTANTS
  Requests = {r1, r2}
  Internal = {i1, b1}
  External = {b1}
  Unknown = {u1}
  Modes = {"full", "final"}
  Entries = {p1, p2}
  NoEntry = NoEntry
  MaxIterations = 2
  MaxToolCalls = 1
  MaxRound = 2
  MaxResets = 1
INVARIANTS
  EveryCallAnswered PendingOnce BudgetHolds ConsumerAgrees
PROPERTIES
  TurnEnds
