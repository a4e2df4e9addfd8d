SPECIFICATION MCSpec
CONSTANTS
  j1 = j1
  j2 = j2
  j3 = j3
  j4 = j4
  s1 = s1
  s2 = s2
  s3 = s3
  Jobs <- MCJobs
  Prio <- MCPrio
  Stamp <- MCStamp
  Sessions <- MCSessions
  SessionOf <- MCSessionOf
  Capacity = 3
  Workers = {w1, w2, w3}
  NoJob = NoJob
  Lengths = {1, 2, 3}
  MaxLength = 2
  Calls = {c1, c2}
  MaxDownloads = 1
  MaxConversions = 1
  PipeCapacity = 1
CHECK_DEADLOCK FALSE
INVARIANTS
  TypeOK
  NoLostWakeup
  OneOwner
  RankIsPlace
  FetchTypeOK
  VerdictsSound
  ToolTypeOK
  ToolsBounded
  NobodyBlocks
PROPERTIES
  PositionAdvances
  TopJobServed
  ImplementsPool
  FetchDecides
  AskersEnd
  CallsReturn
  ReadersEnd
