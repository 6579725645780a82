SPECIFICATION EvalSpec
CONSTANTS
  t1 = t1
  t2 = t2
  Procs = {e, m}
  NFiles = 2
  NoProc = NoProc
  Evaluator = e
  Suite <- SomeTasks
  FailFirst <- SomeFailFirst
  Outcome <- SomeOutcome
  PerRun = 8
  Caps = {8, 16}
  Costs = {4, 12}
  MOCK_COST = 1
  MaxSteps = 6
  LOOP_WINDOW = 2
  NWorkers = 1
INVARIANTS
  MigratedOnce
  PublishedTrue
  CapHolds
CHECK_DEADLOCK FALSE
