SPECIFICATION DialogueSpec
CONSTANTS
  Tasks = {t1, t2}
  NoTask = NoTask
  work = work
  check = check
  Steps = {}
  DependsOn <- MCDependsOn
  Checks <- MCChecks
  NoStep = NoStep
  MaxCorrections = 1
  HostTools = TRUE
  MayClose = TRUE
  MaxSends = 2
  MaxEdits = 0
  MaxTwins = 1
INVARIANTS
  ClosedForGood
PROPERTIES
  InputsSettle CloseReturns
CHECK_DEADLOCK FALSE
