CONSTANTS
  j1 = j1  j2 = j2  j3 = j3
  youtube = youtube  channel = channel
  None = None
  Jobs = {j1, j2}
  Runners = {w1, w2}
  Platforms = {youtube}
  Accounts = {channel}
  PlatformOf <- PublishPlatformOf
  AccountOf <- PublishAccountOf
  PrerequisiteOf <- ChainPrerequisiteOf
  Failures <- ScopedFailures
  MaxAttempts = 2
  Concurrency = 2
  PlatformConcurrency = 2
  AccountConcurrency = 1
  AuthFailureThreshold = 2
  LeaseTicks = 2
  BaseDelay = 1
  MaxDelay = 1
  MaxServers = 1
  TimelyHeartbeats = TRUE
  CliCommands = FALSE
  AttemptBound = 0
  AgeBound = 0
SPECIFICATION FairSpec
PROPERTIES
  JobsSettle
  CommandsTakeEffect
