CONSTANTS
  Requests <- Few
  Reports = {"recv"}
  Patience = "one"
  Stay = TRUE
  MaxRequests = 2
  MaxReports = 1
  MaxLosses = 1
SPECIFICATION FairSpec
INVARIANTS MissingAnswerNoticed OwnAnswersIgnored
PROPERTIES TelegramsAreAnswered
CHECK_DEADLOCK FALSE
