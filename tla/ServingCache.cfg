SPECIFICATION DataSpec
CONSTANTS
  Ops <- Operations
  MaxVersion = 2
  Wraps = TRUE
  Failures = {"load"}
  Unready = {}
  Stubborn = {}
  Together <- Operations
  Requests <- Clients
  Folders <- Contents
  Calls <- Same
  CacheSize = 1
  CacheEnabled = TRUE
INVARIANTS AnswersOwnVersion
CHECK_DEADLOCK FALSE
