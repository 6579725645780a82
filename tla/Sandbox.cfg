SPECIFICATION Spec
CONSTANTS
  Calls = {c1, c2}
  Owned = {c1}
  Outputs <- PrintedOutputs
  Limit = 2
  OOM_RECHECKS = 2
  MaxOomDelay = 2
  MaxErrors = 1
INVARIANTS
  TypeOK
  NoContainerLeaks
  VerdictTrue
PROPERTIES
  RunReturns
CHECK_DEADLOCK FALSE
