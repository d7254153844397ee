SPECIFICATION FairSpec
CONSTANTS
  Prompts = {p, blank}
  Blank = blank
  StepKinds = {"work", "wait"}
  HasFinalizer = FALSE
  SharesRounds = TRUE
  BestEffort = FALSE
  MaxRequests = 2
  MaxPlan = 2
  MaxSteps = 2
  MaxRetries = 1
  MaxRewinds = 0
  MaxToolCalls = 1
  MaxStepAttempts = 2
  MaxStepResumes = 0
  MaxPlannerResumes = 0
  MaxEvalResumes = 0
  MaxFinalizeRetries = 1
PROPERTIES
  SuccessCompletesPlan
  WaitSurvives
  RequestEnds
CHECK_DEADLOCK FALSE
