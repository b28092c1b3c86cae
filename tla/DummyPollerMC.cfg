CONSTANT MaxFaults = 1
SPECIFICATION FairSpec
INVARIANTS TypeOK AnswerIsAwaited ProtocolFirst
PROPERTY EventuallyDone
CHECK_DEADLOCK FALSE
