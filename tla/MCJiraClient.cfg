SPECIFICATION Spec
CONSTANTS
  MinRetry = 1
  MaxRetry = 9
  Second = 2
  HalfRange = 32
  Hints <- HintSet
  NoHint = NoHint
  Deadline = TRUE
  MaxCounted = 6
INVARIANTS TypeOK BackoffBudget CauseKnown BodyReleased
PROPERTIES EndsUnaided EndsWithContext
