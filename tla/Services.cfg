SPECIFICATION ServicesSpec
CONSTANTS
  Size = 2
  MaxAttempts = 2
  RetryBound = 3
  RemoteBound = 2
  CrashBound = 1
  ForgetsInserted = FALSE
  Platforms = {"tiktok", "youtube", "instagram", "facebook"}
  s1 = s1  s2 = s2  d1 = d1  d2 = d2  t1 = t1  k1 = k1  k2 = k2  b1 = b1  b2 = b2  b3 = b3
  Groups <- ProviderGroups
  Slots = {s1, s2}
  RequestBound = 2
  IdBound = 3
  AccountCrashBound = 1
  MetaTargetIds = {d1, d2}
  DiscoverySlots = {s1, s2}
  DiscoveryBound = 2
  Destinations = {d1, d2}
  DeliveryAttempts = 2
  WebhookRestartBound = 2
  WebhookRetryBound = 2
  ApiTokens = {t1}
  PublishKeys = {k1}
  CreateKeys = {k2}
  Bodies = {b1, b2, b3}
  WorkOf <- NamedWork
  RequestSlots = {s1, s2}
  ApiFaultBound = 1
  Assets = {d1, d2}
  Originals <- Transcripts
  TypedTimes <- Times
  TypedTexts = {"", "new"}
  Inferred <- Spoken
  PostBound = 2
  ClickBound = 4
  PanelJobs = {d1, d2}
  TransformJobs = {d1}
  PanelSlots = {1, 2}
  PanelClicks = 2
  PanelFaults = 1
INVARIANTS
  ServicesTypeOK
  CheckpointIsTrue
  ConnectionsHold
  WebhookTablesHold
  RequestsHold
PROPERTIES
  ImplementsPublication
  NoSecondUpload
  PublishJobSettles
  NothingForgotten
CHECK_DEADLOCK FALSE
