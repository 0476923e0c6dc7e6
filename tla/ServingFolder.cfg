SPECIFICATION DataSpec
CONSTANTS
  Ops <- Operations
  MaxVersion = 2
  Wraps = TRUE
  Failures = {"load"}
  Unready <- Sluggish
  Stubborn <- Clinging
  Together <- Operations
  Requests <- Clients
  Folders <- Contents
  Calls <- Distinct
  CacheSize = 1
  CacheEnabled = TRUE
INVARIANTS SameFolderServed AnswersOwnVersion
PROPERTIES FolderServed KeepsServing LatestIsCached
CHECK_DEADLOCK FALSE
