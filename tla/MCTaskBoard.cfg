SPECIFICATION BoardSpec
CONSTANTS
  Tasks = {t1, t2, t3}
  MaxConcurrent = 1
  ResultStore = TRUE
INVARIANTS
  SlotsUsed
PROPERTIES
  ImplementsTasks StopAllReturns
CHECK_DEADLOCK FALSE
