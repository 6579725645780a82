SPECIFICATION Spec
CONSTANTS
  Runs = {r1}
  Workers = {w1, w2}
  NULL = NULL
  Ids <- SharedIds
  WorkerId <- SharedId
  r1 = r1
  w1 = w1
  w2 = w2
  TaskSpec <- ToySpec2
  Costs = {2}
  Fencing = TRUE
  Lease = 1
  Backoff = 1
  MaxAttempts = 2
  MaxCrashes = 1
  MaxPauses = 1
  MaxLapses = 1
  MaxDbErrors = 1
  MaxReaperErrors = 0
INVARIANTS
  TypeOK
  NoStaleWriter
  CommitsFromFullReplay
  TokensUnique
  TablesAgree
  SpendConsistency
PROPERTIES
  TerminalIsForever
  ImplementsRunLog
SYMMETRY WorkerSymmetry
