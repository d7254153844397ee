SPECIFICATION Spec
CONSTANTS
  Prompts = {p, blank}
  Blank = blank
  StepKinds = {"work"}
  HasFinalizer = TRUE
  SharesRounds = FALSE
  BestEffort = TRUE
  MaxRequests = 3
  MaxPlan = 1
  MaxSteps = 2
  MaxRetries = 0
  MaxRewinds = 1
  MaxToolCalls = 1
  MaxStepAttempts = 2
  MaxStepResumes = 1
  MaxPlannerResumes = 1
  MaxEvalResumes = 1
  MaxFinalizeRetries = 1
INVARIANTS
  LockStep
  BudgetsHold
PROPERTIES
  OutcomeStands
  ImplementsLedger
CHECK_DEADLOCK FALSE
