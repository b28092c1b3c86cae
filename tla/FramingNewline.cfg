CONSTANTS
  Messages <- Newline
  MaxMessages = 1
  MaxLosses = 0
SPECIFICATION Spec
INVARIANT MoreDataHelps
CHECK_DEADLOCK FALSE
