SPECIFICATION FairSpec
CONSTANTS
  Length = 4
  MaxArrivals = 9
INVARIANT FifoUntilOverflow
INVARIANT InOrder
INVARIANT LossBounded
PROPERTY AllDelivered
