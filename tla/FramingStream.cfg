CONSTANTS
  Messages <- All
  MaxMessages = 3
  MaxLosses = 1
SPECIFICATION FairSpec
INVARIANTS TypeOK StreamIntact InOrder
PROPERTY LoopEnds
CHECK_DEADLOCK FALSE
