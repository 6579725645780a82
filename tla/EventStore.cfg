SPECIFICATION TimelineSpec
CONSTANTS
  Clients = {c1, c2, c3}
  Runs = {r1, r2}
  Existing = {r1}
  Keys = {k1, k2}
  MaxTx = 5
  NULL = NULL
INVARIANTS
  TypeOK
  SeqsGapless
  BackstopUnused
  AnswersTrue
  TimelineTrue
PROPERTIES
  CommitsInOrder
SYMMETRY ClientSymmetry
CHECK_DEADLOCK FALSE
