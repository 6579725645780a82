SPECIFICATION Spec
CONSTANTS
  Paths = {"p"}
  Actions <- StepActions
  NonText = {"n"}
  Costs = {2}
  Budget = 100
  MaxSteps = 2
  LoopWindow = 3
  MaxAttempts = 2
  ProgramsWrite = FALSE
  MaxSessions = 2
  NULL = NULL
INVARIANTS
  LogCanBeReplayed
CHECK_DEADLOCK FALSE
