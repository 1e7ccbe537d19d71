SPECIFICATION FairKeyboardSpec
CONSTANTS
  Keys <- MCKeys
  ScanLength = 4
  PressLength = 3
  MaxEvents = 4
  MaxLocks = 1
INVARIANT TypedIsDelivered
 
INVARIANT ShiftAgrees
PROPERTY EventuallyDelivered
CHECK_DEADLOCK FALSE
