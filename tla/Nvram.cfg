SPECIFICATION NvramSpec
CONSTANTS
  Ids = {1, 2, 3}
  Contents <- MCContents
  NvramSize = 8
  INVALID_DATA = 9
  NvramFaults = {"crash"}
INVARIANT LayoutOK
PROPERTY KeepsEntries
