CONSTANTS
  Requests <- GetAndSet
  Reports = {}
  Patience = "none"
  Stay = FALSE
  MaxRequests = 2
  MaxReports = 0
  MaxLosses = 0
SPECIFICATION Spec
INVARIANTS OneTelegramAtATime
CHECK_DEADLOCK FALSE
