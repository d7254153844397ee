SPECIFICATION DialogueSpec
CONSTANTS
  Tasks = {t1, t2, t3}
  NoTask = NoTask
  work = work
  check = check
  Steps = {work, check}
  DependsOn <- MCDependsOn
  Checks <- MCChecks
  NoStep = NoStep
  MaxCorrections = 1
  HostTools = FALSE
  MayClose = FALSE
  MaxSends = 1
  MaxEdits = 1
  MaxTwins = 2
INVARIANTS
  EvidenceCurrent OutcomesReach DeliveredOnce
CHECK_DEADLOCK FALSE
SYMMETRY Interchangeable
