SPECIFICATION Spec
CONSTANTS
  a = a
  b = b
  d1 = d1
  d2 = d2
  original = original
  None = None
  Executions = {a, b}
  Destinations = {d1, d2}
  ExecutionOf <- OneEach
  Retention <-DeleteAndKeepLater
  Originals = {original}
  Hints <-OriginalForB
  MaxAttempts = 2
  AttemptBound = 1
  CrashBound = 1
  Cancellations = FALSE
  Overlap = TRUE
INVARIANTS
  MediaAvailable
PROPERTIES
  CleanupIsDue
  ItemCompletedLast
CHECK_DEADLOCK FALSE
