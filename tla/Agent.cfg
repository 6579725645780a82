SPECIFICATION Spec
CONSTANTS
  Paths = {"p"}
  Actions <- AllActions
  NonText = {"n"}
  Costs = {1}
  Budget = 3
  MaxSteps = 3
  LoopWindow = 2
  MaxAttempts = 2
  ProgramsWrite = TRUE
  MaxSessions = 2
  NULL = NULL
INVARIANTS
  TypeOK
  OneCallPerAttempt
  UnrecordedCharges
  ContinuesExactly
  OvershootOneCall
  StepsAndLoopsBounded
PROPERTIES
  AnswerReused
  UsesRunLog
CHECK_DEADLOCK FALSE
