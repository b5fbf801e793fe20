SPECIFICATION FairSpec
CONSTANTS
  t1 = t1
  t2 = t2
  t3 = t3
  Threads <- mcThreads
  Keys = {1, 2, 3}
  MaxEntries = 2
  MayFail = {1}
  MaxCalls = 4
INVARIANTS
  MapMatchesList
  LeastRecentlyUsedLast
  PendingHasLoader
  ReturnsWhatWasAsked
PROPERTIES
  CallsReturn
