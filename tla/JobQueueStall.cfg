CONSTANTS
  j1 = j1  j2 = j2  j3 = j3
  youtube = youtube  channel = channel
  None = None
  Jobs = {j1}
  Runners = {w1}
  Platforms = {}
  Accounts = {}
  PlatformOf <- ChainPlatformOf
  AccountOf <- ChainAccountOf
  PrerequisiteOf <- NoPrerequisite
  Failures <- LocalFailures
  MaxAttempts = 2
  Concurrency = 2
  PlatformConcurrency = 2
  AccountConcurrency = 1
  AuthFailureThreshold = 2
  LeaseTicks = 2
  BaseDelay = 1
  MaxDelay = 2
  MaxServers = 1
  TimelyHeartbeats = FALSE
  CliCommands = FALSE
  AttemptBound = 3
  AgeBound = 1
SPECIFICATION Spec
PROPERTIES
  SettledByOwnExecution
