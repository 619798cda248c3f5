SPECIFICATION LocalSpec
CONSTANTS
  Components = {"transform", "watch", "transcription", "lifetime", "vault", "upgrade",
                "restore", "workflow", "form", "models", "clips",
                "recipe", "obs", "whisper"}
  w1 = w1  f1 = f1  f2 = f2  c1 = c1  t1 = t1  t2 = t2  x1 = x1  x2 = x2  o1 = o1  o2 = o2
  e1 = e1  e2 = e2  n1 = n1  n2 = n2  n3 = n3  r1 = r1  r2 = r2  p1 = p1  p2 = p2  j1 = j1
  TransformAttempts = 2
  ClaimBound = 3
  TransformCrashBound = 2
  Meddling = TRUE
  Watchers = {w1}
  Recordings = {f1, f2}
  Contents = {c1}
  Targets = {t1, t2}
  Settle = 1
  WriteBound = 2
  ImportFaults = 1
  ManualImports = 1
  Executions = {x1, x2}
  Captioning = {x1}
  Outputs = {o1, o2}
  Editors = {e1, e2}
  EditBound = 3
  TranscribeFaults = 2
  VaultCalls = {n1, n2, n3}
  ServerCalls = {n1, n2}
  References = {r1, r2}
  CallBound = 2
  KeyBound = 2
  VaultCrashBound = 1
  Migrators = {p1, p2}
  Latest = 3
  RowBound = 2
  UpgradeCrashBound = 1
  CommitBound = 3
  RestoreBound = 2
  RestoreCrashBound = 2
  ChildJobs = {t1, j1}
  Transcriptions = {j1}
  Concurrency = 2
  ChildAttempts = 2
  CloseBound = 2
  Drafts <- AllDrafts
  Offers <- AllOffers
  Requests <- AllRequests
  ActBound = 3
  ModelCalls = {n1, n2, n3}
  ModelFaults = 2
  Clips = {n1, n2}
  ClipPage = 1
  Overlap = 2
  Latency = 1
  CallTicks = 1
  Horizon = 4
  StepTypes <- Steps
  OutputTypes <- Profiles
  SourceTypes <- Sources
  Images = {n1}
  StepBound = 3
  ObsFaults = 3
  HintBound = 3
  Installers = {p1, p2}
  Versions = {x1, x2}
  MayRefuse = TRUE
  InstallFaults = 2
INVARIANTS
  LocalTypeOK
  FilesAreThere
  IntakeIsExact
  DataIsRecoverable
  DefinitionsHold
  RecipesRender
PROPERTIES
  SuccessIsEarned
  NothingOverwritten
  WorkGoesOn
  CloseIsClean
CHECK_DEADLOCK FALSE
