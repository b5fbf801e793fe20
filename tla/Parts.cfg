SPECIFICATION Spec
CONSTANTS
  Disks <- mcDisks
  MaxFiles = 676
  PageSize = 2
INVARIANTS
  ReadExact
  DirectAccessExact
