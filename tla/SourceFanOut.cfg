SPECIFICATION FairSpec
CONSTANTS
  a = a
  b = b
  d1 = d1
  d2 = d2
  original = original
  None = None
  Executions = {a}
  Destinations = {d1, d2}
  ExecutionOf <-FanOutOf
  Retention <-DeleteAll
  Originals = {}
  Hints <- NoHints
  MaxAttempts = 2
  AttemptBound = 2
  CrashBound = 1
  Cancellations = TRUE
  Overlap = FALSE
INVARIANTS
  TypeOK
  OutcomesHold
  MediaAvailable
PROPERTIES
  ExecutionsProgress
CHECK_DEADLOCK FALSE
