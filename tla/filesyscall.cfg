SPECIFICATION FilesSpec
CONSTANTS
  Base = 4
  Limit = 17
  Alignment = 2
  SplitThresh = 2
  MaxBlocks = 5
  WordSize = 64
  MaxOpenFiles = 3
  FirstFileNumber = 3
  FilSize = 3
  BootSizes = {0, 3}
  Names = {f}
  Room = 1
  Lengths = {1}
  Offsets <- MCOffsets
INVARIANT HandlesBacked
 
CHECK_DEADLOCK FALSE
