SPECIFICATION FairSpec
CONSTANTS
  MaxTimers = 2
  Intervals = {0, 2}
  WordSize = 3
  NULL = NULL
PROPERTY NeverEarly
PROPERTY KeepsFiring
