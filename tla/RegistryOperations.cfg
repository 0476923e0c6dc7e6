SPECIFICATION Spec
CONSTANTS
  Ops <- Growing
  MaxVersion = 3
  Wraps = FALSE
  Failures = {"init", "hook", "late_hook", "load"}
  Unready <- Sluggish
  Stubborn <- Clinging
  Together <- Startup
INVARIANTS TypeOK QuietReady QuietNoLeak DefaultServed LatestWhileLoading
PROPERTY LoadsAtOnce
CHECK_DEADLOCK FALSE
