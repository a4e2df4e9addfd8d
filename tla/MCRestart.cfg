SPECIFICATION RestartSpec
CONSTANTS
  video = video
  Sessions = {s1}
  Assets <- MCAssets
  AssetOf <- MCAssetOf
  Cuts = {c1}
  NoCut = NoCut
  Clients = {k1}
  NoSession = NoSession
  DlJobs = {d1}
  CvJobs = {v1}
  QueueCapacity = 1
  WorkerPoolSize = 1
  MaxJobRetries = 1
  Redis = TRUE
CHECK_DEADLOCK FALSE
INVARIANTS
  NothingPremature
PROPERTIES
  SettlesAfterRestart
