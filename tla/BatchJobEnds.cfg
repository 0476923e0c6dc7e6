SPECIFICATION Spec
CONSTANTS
  w1 = w1
  w2 = w2
  Workers = {w1, w2}
  Files <- SomeFiles
  BatchSize = 2
  Retries = 2
INVARIANTS TypeOK EachLineOnce StopLosesNothing
PROPERTIES JobEnds
CHECK_DEADLOCK FALSE
