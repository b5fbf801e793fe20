SPECIFICATION FairSpec
\* A thread that reads behind the end of the file goes round in FD::readAt for ever.
CHECK_DEADLOCK FALSE
CONSTANTS
  t1 = t1
  t2 = t2
  NoThread = NoThread
  Threads <- mcThreads
  Tables <- mcOrdered
  DirentSize <- mcLongSize
  TrailerSize = 1
  BufferStep = 4
  CacheSize = 1
  Keys <- mcKeys
  Less <- StringLess
  Between <- shortestStringInBetween
  Ns <- Namespace
  Namespaces = {1, 2, 3}
  Opener = t1
  CacheEntryCount = 2
  MaxCalls = 1
PROPERTIES
  BiggerSizeHelps
