CONSTANTS
  MaxWrites = 2
  Messages <- Short
  MaxMessages = 2
  MaxLosses = 2
SPECIFICATION FairSpec
INVARIANT OneChunk
PROPERTIES ChunksInTurn ImplementsFraming
CHECK_DEADLOCK FALSE
