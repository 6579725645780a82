SPECIFICATION Spec
CONSTANTS
  Runs = {r1}
  Workers = {w1, w2}
  NULL = NULL
  Ids <- SharedIds
  WorkerId <- SharedId
  r1 = r1
  w1 = w1
  w2 = w2
  TaskSpec <- ToySpec1
  Costs = {2}
  Fencing = TRUE
  Lease = 1
  Backoff = 1
  MaxAttempts = 1
  MaxCrashes = 2
  MaxPauses = 0
  MaxLapses = 0
  MaxDbErrors = 0
  MaxReaperErrors = 0
INVARIANTS
  RetriedThenFailed
