CONSTANTS
  MaxWrites = 3
  MaxSlips = 2
SPECIFICATION FairSpec
INVARIANTS TypeOK AlwaysDriven SingleReader NoTeardown
PROPERTIES ImplementsLink Reconnects
CHECK_DEADLOCK FALSE
