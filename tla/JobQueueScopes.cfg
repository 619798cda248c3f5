CONSTANTS
  j1 = j1  j2 = j2  j3 = j3
  youtube = youtube  channel = channel
  None = None
  Jobs = {j1, j2, j3}
  Runners = {w1, w2}
  Platforms = {youtube}
  Accounts = {channel}
  PlatformOf <- OnePlatformOf
  AccountOf <- OneAccountOf
  PrerequisiteOf <- NoPrerequisite
  Failures <- PlatformFailures
  MaxAttempts = 1
  Concurrency = 3
  PlatformConcurrency = 2
  AccountConcurrency = 2
  AuthFailureThreshold = 2
  LeaseTicks = 2
  BaseDelay = 1
  MaxDelay = 1
  MaxServers = 2
  TimelyHeartbeats = TRUE
  CliCommands = FALSE
  AttemptBound = 0
  AgeBound = 0
SPECIFICATION Spec
INVARIANTS
  ScopesHold
SYMMETRY Symmetry
