SPECIFICATION FairSpec
CONSTANTS
  Runs = {r1}
  Workers = {w1, w2}
  NULL = NULL
  Ids = {w1, w2}
  WorkerId <- OwnId
  r1 = r1
  w1 = w1
  w2 = w2
  TaskSpec <- AgentSpec1
  Costs = {2}
  Fencing = TRUE
  Lease = 1
  Backoff = 1
  MaxAttempts = 2
  MaxCrashes = 1
  MaxPauses = 1
  MaxLapses = 0
  MaxDbErrors = 0
  MaxReaperErrors = 0
INVARIANTS
  ExtraClaimsNeedFaults
PROPERTIES
  RunsTerminate
