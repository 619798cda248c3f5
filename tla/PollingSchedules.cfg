SPECIFICATION SchedulerFairSpec
CONSTANTS
  s1 = s1
  x1 = x1
  None = None
  Servers = {s1}
  Items = 3
  Watermarked = FALSE
  PageSize = 1
  MaxPages = 2
  Threshold = 2
  Interval = 1
  MaxDelay = 2
  FailureBound = 2
  Schedules = {x1}
  Period = 1
  OccurrenceBound = 2
  FaultBound = 2
INVARIANTS
  SchedulerTypeOK
  NothingLost
  AuthorizationPauseEarned
PROPERTIES
  SchedulesPoll
  ItemsArrive
