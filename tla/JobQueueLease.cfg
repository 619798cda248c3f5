CONSTANTS
  j1 = j1  j2 = j2  j3 = j3
  youtube = youtube  channel = channel
  None = None
  Jobs = {j1, j2}
  Runners = {w1, w2}
  Platforms = {}
  Accounts = {}
  PlatformOf <- ChainPlatformOf
  AccountOf <- ChainAccountOf
  PrerequisiteOf <- ChainPrerequisiteOf
  Failures <- LocalFailures
  MaxAttempts = 2
  Concurrency = 2
  PlatformConcurrency = 2
  AccountConcurrency = 1
  AuthFailureThreshold = 2
  LeaseTicks = 2
  BaseDelay = 1
  MaxDelay = 2
  MaxServers = 2
  TimelyHeartbeats = TRUE
  CliCommands = TRUE
  AttemptBound = 3
  AgeBound = 1
SPECIFICATION Spec
INVARIANTS
  TypeOK
  AttemptHistory
  ExecutionHoldsLease
  PrerequisiteHonoured
PROPERTIES
  ImplementsLifecycle
