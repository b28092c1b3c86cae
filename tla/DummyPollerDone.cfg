CONSTANT MaxFaults = 1
SPECIFICATION Spec
INVARIANT DoneMeansStarted
CHECK_DEADLOCK FALSE
