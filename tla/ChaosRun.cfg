SPECIFICATION ChaosSpec
CONSTANTS
  Runs = {r1}
  Workers = {w1, w2, w3, w4}
  NULL = NULL
  Ids = {w1, w2, w3, w4}
  WorkerId <- OwnId
  r1 = r1
  w1 = w1
  w2 = w2
  w3 = w3
  w4 = w4
  TaskSpec <- ToySpec
  Costs = {2}
  Fencing = TRUE
  Lease = 1
  Backoff = 0
  MaxAttempts = 1
  MaxCrashes = 0
  MaxPauses = 0
  MaxLapses = 0
  MaxDbErrors = 0
  MaxReaperErrors = 0
  Workload = "mixed"
  NFaults = 2
  NWorkers = 2
  Names <- SpawnOrder
INVARIANTS
  ReportTrue
  NoOrphans
PROPERTIES
  ScenarioEnds
CHECK_DEADLOCK FALSE
