SPECIFICATION FairSpec
CONSTANTS
  page = page
  image = image
  title = title
  w1 = w1
  w2 = w2
  Items <- mcTwoItems
  ItemSize <- mcTwoSize
  Workers <- mcWorkers
  Metadata = {title}
  Compressible = {page}
  HasIndexData = {page}
  WithIndex = TRUE
  Compression = TRUE
  MinChunk = 20
  MaxQueueSize = 1
  Uint32Max = 9
  ZipLen = 3
PROPERTIES
  AppendOnly
  CallsReturn
  ClustersGetWritten
  ImplementsArchiveWriter
