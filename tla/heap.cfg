SPECIFICATION Spec
CONSTANTS
  Base = 4
  Limit = 19
  Alignment = 2
  SplitThresh = 2
  MaxBlocks = 5
  WordSize = 64
  Sizes = {2, 3, 6}
  FileSizes = {0, 4, 20}
  MaxLive = 4
INVARIANT BlocksConserved
INVARIANT Tiled
PROPERTY Implements
CHECK_DEADLOCK FALSE
