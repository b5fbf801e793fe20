SPECIFICATION FairSpec
CONSTANTS
  t1 = t1
  t2 = t2
  NoThread = NoThread
  Threads <- mcThreads
  Clusters <- mcClusters
  OffsetMax = 7
  OffsetUnits = 1
  FeedSize = 2
  InitialSize = 2
  Trailer = 1
  ChunkSize = 3
  Requests <- mcRequests
  MaxCalls = 3
INVARIANTS
  OutputComplete
  BlobExact
PROPERTIES
  FeedsReturn
  CallsReturn
