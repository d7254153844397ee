SPECIFICATION Spec
CONSTANTS
  Prompts = {p, blank}
  Blank = blank
  StepKinds = {"work"}
  HasFinalizer = TRUE
  SharesRounds = FALSE
  BestEffort = FALSE
  MaxRequests = 3
  MaxPlan = 1
  MaxSteps = 2
  MaxRetries = 0
  MaxRewinds = 0
  MaxToolCalls = 2
  MaxStepAttempts = 2
  MaxStepResumes = 1
  MaxPlannerResumes = 1
  MaxEvalResumes = 1
  MaxFinalizeRetries = 1
INVARIANTS
  AnswersKept
CHECK_DEADLOCK FALSE
