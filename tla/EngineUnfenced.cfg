SPECIFICATION Spec
CONSTANTS
  Runs = {r1}
  Workers = {w1, w2}
  NULL = NULL
  Ids <- SharedIds
  WorkerId <- SharedId
  r1 = r1
  w1 = w1
  w2 = w2
  TaskSpec <- AgentSpec2
  Costs = {0, 2}
  Fencing = FALSE
  Lease = 1
  Backoff = 1
  MaxAttempts = 2
  MaxCrashes = 0
  MaxPauses = 0
  MaxLapses = 1
  MaxDbErrors = 0
  MaxReaperErrors = 1
INVARIANTS
  KeysContiguous
  ChecksExact
SYMMETRY WorkerSymmetry
