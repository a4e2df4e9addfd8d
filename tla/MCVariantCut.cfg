SPECIFICATION SafeSpec
CONSTANTS
  video = video
  Sessions = {s1}
  Assets <- MCAssets
  AssetOf <- MCAssetOf
  Cuts = {c1, c2}
  NoCut = NoCut
  Clients = {k1}
  NoSession = NoSession
  DlJobs = {d1}
  CvJobs = {v1, v2}
  QueueCapacity = 2
  WorkerPoolSize = 2
  MaxJobRetries = 2
  Redis = FALSE
CHECK_DEADLOCK FALSE
INVARIANTS
  VariantHoldsItsCut
