SPECIFICATION SafeSpec
CONSTANTS
  video = video
  Sessions = {s1}
  Assets <- MCAssets
  AssetOf <- MCAssetOf
  Cuts = {c1}
  NoCut = NoCut
  Clients = {k1}
  NoSession = NoSession
  DlJobs = {d1, d2}
  CvJobs = {v1}
  QueueCapacity = 1
  WorkerPoolSize = 1
  MaxJobRetries = 2
  Redis = FALSE
SYMMETRY MCSymmetry
CHECK_DEADLOCK FALSE
INVARIANTS
  TypeOK
PROPERTIES
  OrphansExplained
  DownloadsProgress
  DrainsForward
  QueuesArePools
