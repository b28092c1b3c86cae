CONSTANTS
  MaxWrites = 0
  MaxSlips = 0
SPECIFICATION Spec
PROPERTY FailedOpenIsRetried
CHECK_DEADLOCK FALSE
