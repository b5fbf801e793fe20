SPECIFICATION Spec
CONSTANTS
  t1 = t1
  t2 = t2
  Threads <- mcThreads
  Archives <- mcArchives
  Paths <- mcPaths
  Titles <- mcTitles
  Watchdog = 3
  MaxCalls = 1
INVARIANTS
  TitleIterationReadable
