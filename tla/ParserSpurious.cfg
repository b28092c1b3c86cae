CONSTANTS
  Requests <- GetAndSet
  Reports = {}
  Patience = "one"
  Stay = TRUE
  MaxRequests = 1
  MaxReports = 0
  MaxLosses = 0
SPECIFICATION FairSpec
PROPERTIES NoSpuriousTimeout
CHECK_DEADLOCK FALSE
