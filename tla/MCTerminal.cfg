SPECIFICATION Spec
CONSTANTS
  video = video
  Sessions = {s1}
  Assets <- MCAssets
  AssetOf <- MCAssetOf
  Cuts = {c1}
  NoCut = NoCut
  Clients = {k1}
  NoSession = NoSession
  DlJobs = {d1, d2}
  CvJobs = {v1}
  QueueCapacity = 2
  WorkerPoolSize = 2
  MaxJobRetries = 2
  Redis = FALSE
CHECK_DEADLOCK FALSE
PROPERTIES
  CompletedIsTerminal
