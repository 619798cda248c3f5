SPECIFICATION Spec
CONSTANTS
  a = a
  b = b
  d1 = d1
  d2 = d2
  original = original
  None = None
  Executions = {a, b}
  Destinations = {d1, d2}
  ExecutionOf <- OneEach
  Retention <-DeleteAndKeep
  Originals = {original}
  Hints <- NoHints
  MaxAttempts = 2
  AttemptBound = 2
  CrashBound = 1
  Cancellations = FALSE
  Overlap = FALSE
INVARIANTS
  RowsAccepted
CHECK_DEADLOCK FALSE
