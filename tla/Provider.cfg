SPECIFICATION Spec
CONSTANTS
  r1 = r1
  r2 = r2
  Runs = {r1, r2}
  Steps <- StepsOf
  Replies <- SomeReplies
  Hints = {2, 4}
  MinInterval = 2
  MAX_ATTEMPTS = 3
  MAX_BACKOFF_S = 3
  MaxTaskAttempts = 2
  Shared = Shared
INVARIANTS
  Paced
  RetryDiscipline
  ConversationWellFormed
PROPERTIES
  CompleteEnds
