SPECIFICATION Spec
CONSTANTS
  ItemCalls <- mcItems
  RedirectCalls <- mcRedirects
  MetadataCalls <- mcMetadata
  MainPaths = {}
  FaviconPaths = {}
  MaxCalls = 2
  Handlers <- mcListings
  MaxMimeIdx = 6
  Compressible = {4, 5}
  ClosesCluster = {TRUE, FALSE}
INVARIANTS
  InvalidRedirectionsRemoved
