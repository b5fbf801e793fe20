SPECIFICATION FairSpec
CONSTANTS
  t1 = t1
  t2 = t2
  NoThread = NoThread
  Threads <- mcThreads
  Tables <- mcTables
  DirentSize <- mcDirentSize
  TrailerSize = 4
  BufferStep = 2
  CacheSize = 1
  Keys <- mcKeys
  Less <- StringLess
  Between <- shortestStringInBetween
  Ns <- Namespace
  Namespaces = {1, 2, 3}
  Opener = t1
  CacheEntryCount = 2
  MaxCalls = 2
INVARIANTS
  FindExact
  BoundariesExact
  LookupInv
PROPERTIES
  FindsReturn
