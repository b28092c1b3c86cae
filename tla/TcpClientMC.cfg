CONSTANT MaxWrites = 3
SPECIFICATION FairSpec
INVARIANTS TypeOK AlwaysDriven SingleReconnect SingleReader
PROPERTY ImplementsLink
