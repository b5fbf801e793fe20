SPECIFICATION Spec
CONSTANTS
  page = page
  image = image
  title = title
  w1 = w1
  w2 = w2
  Items <- mcItems
  ItemSize <- mcSize
  Workers <- mcWorkers
  Metadata = {title}
  Compressible = {page, image}
  HasIndexData = {page}
  WithIndex = TRUE
  Compression = TRUE
  MinChunk = 20
  MaxQueueSize = 1
  Uint32Max = 9
  ZipLen = 3
SYMMETRY workerSymmetry
INVARIANTS
  QueueBound
  WrittenWhereDirentsSay
  OneOwnerPerCluster
  IndexCompleteWhenClosed
  ArchiveComplete
  TitlePointerExact
  ExtendedAnnounced
  PipelineInv
