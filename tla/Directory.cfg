SPECIFICATION Spec
CONSTANTS
  ItemCalls <- mcItems
  RedirectCalls <- mcRedirects
  MetadataCalls <- mcMetadata
  MainPaths = {1, 3}
  FaviconPaths = {2}
  MaxCalls = 4
  Handlers <- mcHandlers
  MaxMimeIdx = 3
  Compressible = {4, 5}
  ClosesCluster = {TRUE}
INVARIANTS
  RedirectsExact
  MainPageExact
  ListingExact
  SaneUnlessRefused
  DirectoryConsistent
  DirInv
PROPERTIES
  ItemsStay
  MimeTypesExact
