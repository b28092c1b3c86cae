CONSTANTS
  Requests <- EachCallback
  Reports = {"delivered", "unknown"}
  Patience = "topic"
  Stay = TRUE
  MaxRequests = 2
  MaxReports = 1
  MaxLosses = 1
SPECIFICATION Spec
INVARIANTS TypeOK AnswerMatchesRequest OwnAnswersIgnored
PROPERTY AnswerIsToOwnRequest
CHECK_DEADLOCK FALSE
